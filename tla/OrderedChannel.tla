--------------------------- MODULE OrderedChannel ---------------------------
(***************************************************************************)
(* One-way channels that neither reorder, duplicate, invent nor skip: what *)
(* has been delivered on a channel is a prefix of what has been sent on it.*)
(***************************************************************************)
EXTENDS Naturals, Sequences

CONSTANTS Channels, Messages

VARIABLES sent, delivered   \* channel -> messages, oldest first

Init ==
  /\ sent = [c \in Channels |-> << >>]
  /\ delivered = [c \in Channels |-> << >>]

Send(c, m) ==
  /\ sent' = [sent EXCEPT ![c] = Append(@, m)]
  /\ UNCHANGED delivered

\* The next n messages arrive.
Deliver(c, n) ==
  /\ Len(delivered[c]) + n <= Len(sent[c])
  /\ delivered' = [delivered EXCEPT ![c] = SubSeq(sent[c], 1, Len(@) + n)]
  /\ UNCHANGED sent

\* A message handed straight through an empty channel.
Pass(c, m) ==
  /\ delivered[c] = sent[c]
  /\ sent' = [sent EXCEPT ![c] = Append(@, m)]
  /\ delivered' = [delivered EXCEPT ![c] = Append(@, m)]

Next ==
  \E c \in Channels :
    \/ \E m \in Messages : Send(c, m) \/ Pass(c, m)
    \/ \E n \in 1 .. Len(sent[c]) : Deliver(c, n)

Spec == Init /\ [][Next]_<<sent, delivered>>

=============================================================================
