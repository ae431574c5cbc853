---------------------------- MODULE RatelimitBucket ----------------------------
(***************************************************************************)
(* The leaky bucket that spaces out JOIN messages.  A bucket is a record:  *)
(* the queue of waiting items, the budget left, and the cooldown timers    *)
(* that run, each of which gives one unit of budget back.                  *)
(***************************************************************************)
EXTENDS Naturals, Sequences

NewBucket(budget) == [queue |-> <<>>, budget |-> budget, timers |-> 0]

Least(m, n) == IF m < n THEN m ELSE n

\* Mutant: the budget is not looked at.
HandledAll(b, items) == b.queue \o items

\* What a bucket that is sent `items` one by one hands to its callback at once...
Handled(b, items) == SubSeq(b.queue \o items, 1, Least(b.budget, Len(b.queue \o items)))

\* ... and what is left of it.
AfterSend(b, items) ==
    LET n == Len(Handled(b, items))
    IN [queue |-> SubSeq(b.queue \o items, n + 1, Len(b.queue \o items)),
        budget |-> b.budget - n,
        timers |-> b.timers + n]

\* A cooldown ends: its unit comes back, and handleOne() may spend it again.
Refunded(b) == [b EXCEPT !.budget = @ + 1, !.timers = @ - 1]
HandledOnCooldown(b) == IF b.queue = <<>> THEN <<>> ELSE <<Head(b.queue)>>

\* Mutant: the unit is not taken again for the item that is handled.
CooldownIsFree(b) == [Refunded(b) EXCEPT !.queue = IF @ = <<>> THEN @ ELSE Tail(@)]

AfterCooldown(b) ==
    IF b.queue = <<>>
    THEN Refunded(b)
    ELSE [b EXCEPT !.queue = Tail(@)]
================================================================================
