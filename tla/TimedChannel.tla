---------------------------- MODULE TimedChannel ----------------------------
(***************************************************************************)
(* timed_channel<T> (include/ul_mac/tti_channel.h): a FIFO whose messages  *)
(* become visible Delay TTIs after they were sent.  The code stores the    *)
(* sending TTI and compares it with the reader's clock; a message here     *)
(* carries the TTIs still to wait, which the TTI boundary counts down.     *)
(***************************************************************************)
EXTENDS Integers, Sequences

CONSTANT Delay   \* CHANNEL_PROPAGATION_TTI, 4 in the code

\* enqueue(item, now)
Send(ch, item) == Append(ch, [left |-> Delay, item |-> item])

\* ready(now): only the message at the front is looked at.
Visible(ch) == ch # <<>> /\ Head(ch).left = 0

\* The clock moves to the next TTI.
Advance(ch) ==
  [i \in DOMAIN ch |->
     [ch[i] EXCEPT !.left = IF @ > 0 THEN @ - 1 ELSE 0]]

\* The messages a channel holds, whatever their age.
Items(ch) == {ch[i].item : i \in DOMAIN ch}
-----------------------------------------------------------------------------
(* What invariants say of a channel                                        *)

Messages(items) == [left : 0 .. Delay, item : items]

\* The messages that a channel holds, all of them or those of some items.
OnWay(ch)     == {ch[i] : i \in DOMAIN ch}
Of(ch, items) == {m \in OnWay(ch) : m.item \in items}

\* It delivers in order.
Sorted(ch) == \A i, j \in DOMAIN ch : i <= j => ch[i].left <= ch[j].left

\* It holds one message of some items at most.
AtMostOne(ch, items) ==
  \A i, j \in DOMAIN ch : ch[i].item \in items /\ ch[j].item \in items => i = j
=============================================================================
