----------------------------- MODULE LimitedQueue ------------------------------
(***************************************************************************)
(* LimitedQueue<T> (src/messages/LimitedQueue.hpp): a sequence of at most  *)
(* Limit items over a boost::circular_buffer.  A queue is a sequence and   *)
(* every operation an operator that returns the queue it leaves; each one  *)
(* runs under the queue's mutex and is atomic.                             *)
(***************************************************************************)
EXTENDS Integers, Sequences, FiniteSetsExt

CONSTANT Limit      \* scrollbackSplitLimit

ASSUME LimitAssumption == Limit \in Nat \ {0}

\* Mutant: the buffer grows instead of dropping its oldest item.
PushBackGrowing(q, x) == Append(q, x)

\* pushBack: an item that does not fit takes the place of the oldest one.
PushBack(q, x) == Append(IF Len(q) = Limit THEN Tail(q) ELSE q, x)

\* The newest of `items` that fit into q.
Fitting(q, items) ==
    LET space == Limit - Len(q)
    IN  IF Len(items) <= space THEN items
        ELSE SubSeq(items, Len(items) - space + 1, Len(items))

\* pushFront: never at the expense of an item that is there.
PushFront(q, items) == Fitting(q, items) \o q

\* circular_buffer::insert in front of the i-th item.  A full buffer drops what
\* is first then: its oldest item, or the new one if nothing stands before it.
Insert(q, i, x) ==
    LET whole == SubSeq(q, 1, i - 1) \o <<x>> \o SubSeq(q, i, Len(q))
    IN  IF Len(q) < Limit THEN whole ELSE Tail(whole)

\* The places of x in q.
Places(q, x) == {i \in DOMAIN q : q[i] = x}

\* Mutant: steps over the needle, as insertAfter does.
InsertBehind(q, needle, x) ==
    IF Places(q, needle) = {} THEN q ELSE Insert(q, Min(Places(q, needle)) + 1, x)

\* insertBefore: false, and nothing is inserted, when the needle is gone.
InsertBefore(q, needle, x) ==
    IF Places(q, needle) = {} THEN q ELSE Insert(q, Min(Places(q, needle)), x)

\* insertAfter the last item of q.
InsertAfterLast(q, x) == PushBack(q, x)

\* replaceItem: the newest item equal to the needle.  The code compares
\* pointers, of which a queue holds one.
ReplaceItem(q, needle, x) ==
    IF Places(q, needle) = {} THEN q ELSE [q EXCEPT ![Max(Places(q, needle))] = x]
================================================================================
