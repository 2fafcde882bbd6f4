------------------------------ MODULE LcgBuffer ------------------------------
(***************************************************************************)
(* The UE's logical channel buffers (include/ul_mac/lcg_buffer.h) as       *)
(* operators on a record: new is what is buffered, old its value when the  *)
(* TTI began, tokens the fill of the token buckets.  A channel is named by *)
(* its rank: the lower number has the higher priority, and no two share a  *)
(* priority.  A bit rate of 0 means that the channel has no token bucket.  *)
(***************************************************************************)
EXTENDS Amounts, FiniteSets

CONSTANTS
  Channels,     \* the ranks of the logical channels
  Lcgs,         \* logical channel groups
  LcgOf,        \* the group of a channel
  Pbr,          \* its prioritised bit rate, in bytes per TTI
  BucketSize    \* pbr * bsd

Empty ==
  [old |-> [c \in Channels |-> 0], new |-> [c \in Channels |-> 0],
   tokens |-> [c \in Channels |-> 0]]

\* get_buffer_state_lcg, of the old or the new amounts.
OfLcg(f, l) == SumFunctionOnSet(f, {c \in Channels : LcgOf[c] = l})

\* get_all_lcg_buffer_sizes
LcgSizes(b) == [l \in Lcgs |-> OfLcg(b.new, l)]

\* The LCGs with data (check_any_channel_has_data).
WithData(b) == {l \in Lcgs : OfLcg(b.new, l) > 0}

\* The highest priority channel of a nonempty set.
First(S) == CHOOSE c \in S : \A d \in S : c <= d

\* update_old_buffer
UpdateOld(b) == [b EXCEPT !.old = b.new]

\* update_buffer_state: arriving bytes add up.
Arrived(b, c, bytes) == [b EXCEPT !.new[c] = @ + bytes]

\* get_total_buffer_state and its upper bound over old and new.
Total(b) == Sum(b.new)
UpperBound(b) == Sum([c \in Channels |-> Higher(b.old[c], b.new[c])])

\* check_new_data: an LCG that was empty holds data.
NewData(b) ==
  \E c \in Channels : OfLcg(b.old, LcgOf[c]) = 0 /\ b.new[c] > 0

\* check_highest_priority_channel: one grew, and held the priority alone.
HighestGrew(b) ==
  \E c \in Channels : /\ b.new[c] > b.old[c]
                      /\ \A d \in Channels : d <= c => b.old[d] = 0

\* find_max_priority_lcg_with_data, LCG 0 when there is none.
MaxPriority(b) ==
  LET some == {c \in Channels : b.new[c] > 0}
  IN  IF some = {} THEN 0 ELSE LcgOf[First(some)]

\* step_token_buckets, every TTI.
TokensAdded(b) ==
  [b EXCEPT !.tokens =
     [c \in Channels |-> Lower(@[c] + Pbr[c], BucketSize[c])]]

\* Mutant of Consume: the buckets are passed over, all goes by priority.
ConsumeByPriority(b, bytes) == [b EXCEPT !.new = Drained(@, bytes)]

\* consume_data: first every channel up to its tokens, in order of priority
\* (a channel without a bucket has none), then all of them with what is left.
Consume(b, bytes) ==
  LET first == Taken([c \in Channels |-> Lower(b.tokens[c], b.new[c])], bytes)
      rest  == Minus(b.new, first)
  IN  [b EXCEPT !.new = Drained(rest, bytes - Sum(first)),
                !.tokens = Minus(@, first)]

\* Mutant of Restore: the bytes of a discarded TB are forgotten.
Forget(b, bytes) == b

\* restore_data: everything goes to the highest priority channel.
Restore(b, bytes) == [b EXCEPT !.new[First(Channels)] = @ + bytes]
=============================================================================
