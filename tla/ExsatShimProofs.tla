-------------------------- MODULE ExsatShimProofs ---------------------------
(***************************************************************************)
(* Theorems about ExsatShim, for any connections, blocks, size of cache    *)
(* and number of messages: roots are genuine, the cache keeps to its       *)
(* limit, and each direction of a connection is an ordered channel.        *)
(***************************************************************************)
EXTENDS ExsatShim, SequenceTheorems, TLAPS

\* The two ends of a connection's way up: what went upstream and then what
\* waits are the numbers 1 .. requested, and nothing waits on an open socket.
QueueInOrder(c) ==
  /\ requested[c] <= MaxRequests[c]
  /\ Len(forwarded[c]) + Len(pending[c]) = requested[c]
  /\ \A i \in 1 .. Len(forwarded[c]) : forwarded[c][i] = i
  /\ \A i \in 1 .. Len(pending[c]) : pending[c][i] = Len(forwarded[c]) + i
  /\ link[c] = "open" => pending[c] = << >>

\* What became of a message: the block is the same, the root its own.
Genuine(in, out) ==
  /\ out.block = in.block
  /\ \/ out.root = in.root
     \/ in.root = ZeroRoot /\ in.block \in TxBlocks /\ out.root = in.block

\* The way down: the links of the promise chain have ended for a prefix of
\* the messages, at most the next one awaits its receipts, and what went out
\* stands at the place of what came in.
ChainInOrder(c) ==
  /\ Len(served[c]) <= MaxServed[c]
  /\ Len(relayed[c]) <= Len(served[c])
  /\ handled[c] = 1 .. Len(relayed[c])
  /\ fetching[c] \subseteq {Len(relayed[c]) + 1} \cap 1 .. Len(served[c])
  /\ \A i \in 1 .. Len(relayed[c]) : Genuine(served[c][i], relayed[c][i])

UpInv ==
  /\ link \in [Conns -> {"connecting", "open", "closed"}]
  /\ requested \in [Conns -> Requests \cup {0}]
  /\ pending \in [Conns -> Seq(Requests)]
  /\ forwarded \in [Conns -> Seq(Requests)]
  /\ \A c \in Conns : QueueInOrder(c)

DownInv ==
  /\ served \in [Conns -> Seq(Message)]
  /\ fetching \in [Conns -> SUBSET Positions]
  /\ handled \in [Conns -> SUBSET Positions]
  /\ relayed \in [Conns -> Seq(Relayed)]
  /\ \A c \in Conns : ChainInOrder(c)

CacheInv == cache \in Seq(TxBlocks) /\ CacheKeepsToItsLimit

ShimInv == UpInv /\ DownInv /\ CacheInv

upVars   == <<link, requested, pending, forwarded>>
downVars == <<served, fetching, handled, relayed>>

-----------------------------------------------------------------------------
(* The constants.                                                          *)

LEMMA BoundFacts ==
  /\ \A n \in Requests : n \in Nat /\ n > 0
  /\ \A n \in Positions : n \in Nat /\ n > 0
  /\ \A c \in Conns : \A n \in Nat \ {0} :
       /\ n <= MaxRequests[c] => n \in Requests
       /\ n <= MaxServed[c] => n \in Positions
  /\ \A c \in Conns : MaxRequests[c] \in Nat /\ MaxServed[c] \in Nat
  /\ CacheMax \in Nat /\ CacheMax >= 1
<1>1. \A c \in Conns : MaxRequests[c] \in Nat /\ MaxServed[c] \in Nat
  BY ShimAssumption
<1>2. QED
  BY <1>1, ShimAssumption DEF Requests, Positions

\* Only a message without a block is not in the zero root's place.
LEMMA MessageFacts ==
  ASSUME NEW m \in Message
  PROVE  /\ m.block \in Blocks \cup {Other}
         /\ m.root \in {ZeroRoot, Other}
         /\ m.block \in Blocks => m.root = ZeroRoot
         /\ [block |-> m.block, root |-> m.root] \in Relayed
         /\ m.block \in Blocks => [block |-> m.block, root |-> m.block] \in Relayed
BY ShimAssumption DEF Message, Relayed, Blocks

-----------------------------------------------------------------------------
(* The cache.                                                              *)

\* A sequence of distinct elements stays one when an absent one is appended,
\* and when its head is dropped.
LEMMA InjectiveFacts ==
  ASSUME NEW S, NEW s \in Seq(S), NEW b \in S, IsInjective(s)
  PROVE  /\ b \notin ToSet(s) => IsInjective(Append(s, b))
         /\ s # << >> => IsInjective(Tail(s))
<1>1. ASSUME b \notin ToSet(s) PROVE IsInjective(Append(s, b))
  BY <1>1, AppendProperties DEF IsInjective, ToSet
<1>2. ASSUME s # << >> PROVE IsInjective(Tail(s))
  <2>1. /\ Tail(s) \in Seq(S) /\ Len(Tail(s)) = Len(s) - 1
        /\ \A i \in 1 .. Len(Tail(s)) : Tail(s)[i] = s[i + 1]
    BY <1>2, HeadTailProperties
  <2>2. QED
    BY <2>1 DEF IsInjective
<1>3. QED
  BY <1>1, <1>2

\* Storing a root evicts the oldest one of a full cache and repeats no key.
LEMMA RememberPreserves ==
  ASSUME CacheInv, NEW b \in TxBlocks, Remember(b)
  PROVE  CacheInv'
<1> USE DEF CacheInv
<1> DEFINE room == IF Len(cache) >= CacheMax THEN Tail(cache) ELSE cache
<1>1. /\ room \in Seq(TxBlocks) /\ Len(room) < CacheMax /\ IsInjective(room)
  <2>1. CASE Len(cache) >= CacheMax
    <3>1. cache # << >>
      BY <2>1, BoundFacts
    <3>2. QED
      BY <2>1, <3>1, BoundFacts, HeadTailProperties, InjectiveFacts DEF CacheKeepsToItsLimit
  <2>2. CASE ~(Len(cache) >= CacheMax)
    BY <2>2, BoundFacts DEF CacheKeepsToItsLimit
  <2>3. QED
    BY <2>1, <2>2
<1>2. cache' = IF b \in ToSet(room) THEN room ELSE Append(room, b)
  BY DEF Remember
<1> HIDE DEF room
<1>3. CASE b \in ToSet(room)
  BY <1>1, <1>2, <1>3, BoundFacts DEF CacheKeepsToItsLimit
<1>4. CASE b \notin ToSet(room)
  BY <1>1, <1>2, <1>4, BoundFacts, AppendProperties, InjectiveFacts DEF CacheKeepsToItsLimit
<1>5. QED
  BY <1>3, <1>4

-----------------------------------------------------------------------------
(* The way up.                                                             *)

\* A request goes to the end of whichever of the two queues is in use.
LEMMA ClientSendsPreserves ==
  ASSUME UpInv, NEW c \in Conns, ClientSends(c)
  PROVE  UpInv'
<1> USE DEF UpInv
<1> DEFINE m == requested[c] + 1
<1>1. /\ requested[c] \in Nat /\ requested[c] < MaxRequests[c] /\ MaxRequests[c] \in Nat
      /\ requested' = [requested EXCEPT ![c] = m] /\ link' = link
  <2>1. requested[c] \in Requests \cup {0}
    OBVIOUS
  <2>2. requested[c] \in Nat /\ MaxRequests[c] \in Nat
    BY <2>1, BoundFacts
  <2>3. requested[c] < MaxRequests[c] /\ requested' = [requested EXCEPT ![c] = m] /\ link' = link
    BY DEF ClientSends
  <2>4. QED
    BY <2>2, <2>3
<1>2. m \in Requests /\ m <= MaxRequests[c]
  BY <1>1, BoundFacts
<1>3. QueueInOrder(c) /\ forwarded[c] \in Seq(Requests) /\ pending[c] \in Seq(Requests)
  OBVIOUS
<1>4. CASE link[c] = "open"
  <2>1. forwarded' = [forwarded EXCEPT ![c] = Append(@, m)] /\ pending' = pending
    BY <1>4 DEF ClientSends
  <2>2. QueueInOrder(c)'
    BY <1>1, <1>2, <1>3, <1>4, <2>1, AppendProperties DEF QueueInOrder
  <2>3. \A d \in Conns : d # c => QueueInOrder(d)'
    BY <1>1, <2>1 DEF QueueInOrder
  <2>4. forwarded' \in [Conns -> Seq(Requests)]
    BY <1>2, <1>3, <2>1, AppendProperties
  <2>5. QED
    BY <1>1, <1>2, <2>1, <2>2, <2>3, <2>4
<1>5. CASE link[c] # "open"
  <2>1. pending' = [pending EXCEPT ![c] = Append(@, m)] /\ forwarded' = forwarded
    BY <1>5 DEF ClientSends
  <2>2. QueueInOrder(c)'
    <3>1. /\ Len(pending'[c]) = Len(pending[c]) + 1
          /\ \A i \in 1 .. Len(pending[c]) : pending'[c][i] = pending[c][i]
          /\ pending'[c][Len(pending[c]) + 1] = m
      BY <1>2, <1>3, <2>1, AppendProperties
    <3>2. Len(pending[c]) \in Nat /\ Len(forwarded[c]) \in Nat
      BY <1>3
    <3>3. \A i \in 1 .. Len(pending[c]) + 1 : pending'[c][i] = Len(forwarded[c]) + i
      <4>1. /\ Len(forwarded[c]) + Len(pending[c]) = requested[c]
            /\ \A i \in 1 .. Len(pending[c]) : pending[c][i] = Len(forwarded[c]) + i
        BY <1>3 DEF QueueInOrder
      <4> TAKE i \in 1 .. Len(pending[c]) + 1
      <4>2. CASE i = Len(pending[c]) + 1
        BY <3>1, <3>2, <4>1, <4>2
      <4>3. CASE i \in 1 .. Len(pending[c])
        BY <3>1, <4>1, <4>3
      <4>4. QED
        BY <3>2, <4>2, <4>3
    <3>4. QED
      BY <1>1, <1>2, <1>3, <1>5, <2>1, <3>1, <3>2, <3>3 DEF QueueInOrder
  <2>3. \A d \in Conns : d # c => QueueInOrder(d)'
    BY <1>1, <2>1 DEF QueueInOrder
  <2>4. pending' \in [Conns -> Seq(Requests)]
    BY <1>2, <1>3, <2>1, AppendProperties
  <2>5. QED
    BY <1>1, <1>2, <2>1, <2>2, <2>3, <2>4
<1>6. QED
  BY <1>4, <1>5

\* The flush puts the whole queue behind what has gone up.
LEMMA UpstreamOpensPreserves ==
  ASSUME UpInv, NEW c \in Conns, UpstreamOpens(c)
  PROVE  UpInv'
<1> USE DEF UpInv
<1>1. /\ link' = [link EXCEPT ![c] = "open"]
      /\ forwarded' = [forwarded EXCEPT ![c] = @ \o pending[c]]
      /\ pending' = [pending EXCEPT ![c] = << >>]
      /\ requested' = requested
  BY DEF UpstreamOpens
<1>2. QueueInOrder(c) /\ forwarded[c] \in Seq(Requests) /\ pending[c] \in Seq(Requests)
  OBVIOUS
<1> DEFINE all == forwarded[c] \o pending[c]
<1>3. /\ all \in Seq(Requests)
      /\ Len(all) = Len(forwarded[c]) + Len(pending[c])
      /\ \A i \in 1 .. Len(forwarded[c]) + Len(pending[c]) :
           all[i] = IF i <= Len(forwarded[c]) THEN forwarded[c][i]
                                              ELSE pending[c][i - Len(forwarded[c])]
  BY <1>2, ConcatProperties
<1> HIDE DEF all
<1>4. \A i \in 1 .. Len(all) : all[i] = i
  <2>0. Len(forwarded[c]) \in Nat /\ Len(pending[c]) \in Nat
    BY <1>2
  <2> TAKE i \in 1 .. Len(all)
  <2>1. CASE i <= Len(forwarded[c])
    <3>1. all[i] = forwarded[c][i] /\ i \in 1 .. Len(forwarded[c])
      BY <1>3, <2>0, <2>1
    <3>2. QED
      BY <1>2, <3>1 DEF QueueInOrder
  <2>2. CASE i > Len(forwarded[c])
    <3> DEFINE j == i - Len(forwarded[c])
    <3>1. all[i] = pending[c][j] /\ j \in 1 .. Len(pending[c])
      BY <1>3, <2>0, <2>2
    <3>2. pending[c][j] = Len(forwarded[c]) + j
      BY <1>2, <3>1 DEF QueueInOrder
    <3>3. QED
      BY <2>0, <3>1, <3>2
  <2>3. QED
    BY <2>0, <2>1, <2>2
<1>5. forwarded'[c] = all /\ pending'[c] = << >> /\ requested'[c] = requested[c]
  BY <1>1 DEF all
<1>6. QueueInOrder(c)'
  BY <1>2, <1>3, <1>4, <1>5 DEF QueueInOrder
<1>7. \A d \in Conns : d # c => QueueInOrder(d)'
  BY <1>1 DEF QueueInOrder
<1>8. forwarded' \in [Conns -> Seq(Requests)] /\ pending' \in [Conns -> Seq(Requests)]
  BY <1>1, <1>3 DEF all
<1>9. QED
  BY <1>1, <1>6, <1>7, <1>8

LEMMA ShutdownPreserves ==
  ASSUME UpInv, NEW c \in Conns, Shutdown(c)
  PROVE  UpInv'
<1>1. /\ link' = [link EXCEPT ![c] = "closed"]
      /\ UNCHANGED <<requested, pending, forwarded>>
  BY DEF Shutdown
<1>2. \A d \in Conns : QueueInOrder(d)'
  BY <1>1 DEF UpInv, QueueInOrder
<1>3. QED
  BY <1>1, <1>2 DEF UpInv

-----------------------------------------------------------------------------
(* The way down.                                                           *)

LEMMA UpstreamServesPreserves ==
  ASSUME DownInv, NEW c \in Conns, NEW m \in Message, UpstreamServes(c, m)
  PROVE  DownInv'
<1> USE DEF DownInv
<1>1. /\ served' = [served EXCEPT ![c] = Append(@, m)]
      /\ Len(served[c]) < MaxServed[c]
      /\ UNCHANGED <<fetching, handled, relayed>>
  BY DEF UpstreamServes
<1>2. served[c] \in Seq(Message) /\ relayed[c] \in Seq(Relayed) /\ ChainInOrder(c)
  OBVIOUS
<1>3. /\ served'[c] \in Seq(Message) /\ Len(served'[c]) = Len(served[c]) + 1
      /\ \A i \in 1 .. Len(served[c]) : served'[c][i] = served[c][i]
  BY <1>1, <1>2, AppendProperties
<1>4. ChainInOrder(c)'
  BY <1>1, <1>2, <1>3, BoundFacts DEF ChainInOrder
<1>5. \A d \in Conns : d # c => ChainInOrder(d)'
  BY <1>1 DEF ChainInOrder
<1>6. served' \in [Conns -> Seq(Message)]
  BY <1>1, <1>3
<1>7. QED
  BY <1>1, <1>4, <1>5, <1>6

\* The turn is that of the first message whose link has not ended.
LEMMA TurnFacts ==
  ASSUME DownInv, NEW c \in Conns, NEW i \in Positions, Turn(c, i)
  PROVE  /\ i = Len(relayed[c]) + 1 /\ i \in 1 .. Len(served[c])
         /\ fetching[c] = {} /\ served[c][i] \in Message
<1> USE DEF DownInv
<1>1. served[c] \in Seq(Message) /\ relayed[c] \in Seq(Relayed) /\ ChainInOrder(c)
  OBVIOUS
<1>2. i \in 1 .. Len(served[c]) /\ i \notin fetching[c] \cup handled[c]
  BY DEF Turn
<1>3. i > Len(relayed[c])
  BY <1>1, <1>2 DEF ChainInOrder
<1>4. ~(i > Len(relayed[c]) + 1)
  <2> SUFFICES ASSUME i > Len(relayed[c]) + 1 PROVE FALSE
    OBVIOUS
  <2>1. Len(relayed[c]) + 1 \in 1 .. (i - 1) /\ Len(relayed[c]) + 1 \notin handled[c]
    BY <1>1, <1>2 DEF ChainInOrder
  <2>2. QED
    BY <2>1 DEF Turn
<1>5. i = Len(relayed[c]) + 1
  BY <1>1, <1>2, <1>3, <1>4
<1>6. QED
  BY <1>1, <1>2, <1>5 DEF ChainInOrder

\* What awaits its receipts is that same message.
LEMMA FetchFacts ==
  ASSUME DownInv, NEW c \in Conns, NEW i \in Positions, FetchOver(c, i)
  PROVE  /\ i = Len(relayed[c]) + 1 /\ i \in 1 .. Len(served[c])
         /\ fetching' = [fetching EXCEPT ![c] = {}] /\ served[c][i] \in Message
<1> USE DEF DownInv
<1>1. served[c] \in Seq(Message) /\ ChainInOrder(c) /\ i \in fetching[c]
  BY DEF FetchOver
<1>2. i = Len(relayed[c]) + 1 /\ i \in 1 .. Len(served[c]) /\ fetching[c] = {i}
  BY <1>1 DEF ChainInOrder
<1>3. fetching' = [fetching EXCEPT ![c] = {}]
  <2>1. fetching[c] \ {i} = {}
    BY <1>2
  <2>2. QED
    BY <2>1 DEF FetchOver
<1>4. QED
  BY <1>1, <1>2, <1>3

\* A link that ends with a genuine root leaves the chain in order.
LEMMA RelayPreserves ==
  ASSUME DownInv, NEW c \in Conns, NEW i \in 1 .. Len(served[c]), NEW root,
         i = Len(relayed[c]) + 1, served[c][i] \in Message, Relay(c, i, root),
         fetching' \in [Conns -> SUBSET Positions], fetching'[c] = {},
         \A d \in Conns : d # c => fetching'[d] = fetching[d],
         [block |-> served[c][i].block, root |-> root] \in Relayed,
         Genuine(served[c][i], [block |-> served[c][i].block, root |-> root])
  PROVE  DownInv' /\ relayed' = [relayed EXCEPT ![c] =
                       Append(@, [block |-> served[c][i].block, root |-> root])]
<1> USE DEF DownInv
<1> DEFINE out == [block |-> served[c][i].block, root |-> root]
<1>1. /\ handled' = [handled EXCEPT ![c] = @ \cup {i}]
      /\ relayed' = [relayed EXCEPT ![c] = Append(@, out)]
      /\ served' = served
  BY DEF Relay
<1>2. /\ served[c] \in Seq(Message) /\ relayed[c] \in Seq(Relayed) /\ ChainInOrder(c)
      /\ out \in Relayed /\ Genuine(served[c][i], out)
  OBVIOUS
<1> HIDE DEF out
<1>3. /\ relayed'[c] \in Seq(Relayed) /\ Len(relayed'[c]) = i
      /\ \A j \in 1 .. Len(relayed[c]) : relayed'[c][j] = relayed[c][j]
      /\ relayed'[c][i] = out
  BY <1>1, <1>2, AppendProperties
<1>4. handled'[c] = 1 .. i
  BY <1>1, <1>2 DEF ChainInOrder
<1>5. \A j \in 1 .. i : Genuine(served'[c][j], relayed'[c][j])
  <2> TAKE j \in 1 .. i
  <2>1. CASE j = i
    BY <1>1, <1>2, <1>3, <2>1
  <2>2. CASE j # i
    <3>1. j \in 1 .. Len(relayed[c])
      BY <1>2, <2>2
    <3>2. Genuine(served[c][j], relayed[c][j])
      BY <1>2, <3>1 DEF ChainInOrder
    <3>3. QED
      BY <1>1, <1>3, <3>1, <3>2
  <2>3. QED
    BY <2>1, <2>2
<1>6. ChainInOrder(c)'
  BY <1>1, <1>2, <1>3, <1>4, <1>5 DEF ChainInOrder
<1>7. \A d \in Conns : d # c => ChainInOrder(d)'
  BY <1>1 DEF ChainInOrder
<1>8. i \in Positions
  BY <1>2, BoundFacts DEF ChainInOrder
<1>9. QED
  BY <1>1, <1>3, <1>6, <1>7, <1>8 DEF out

\* The next message goes out, under some root.
RelaysNext(c) ==
  \E i \in 1 .. Len(served[c]) : \E root \in Blocks \cup {ZeroRoot, Other} :
    /\ i = Len(relayed[c]) + 1
    /\ served' = served
    /\ relayed' = [relayed EXCEPT ![c] =
                      Append(@, [block |-> served[c][i].block, root |-> root])]

\* Every way a link can end relays the next message under a genuine root.
LEMMA TakeTurnPreserves ==
  ASSUME DownInv, CacheInv, NEW c \in Conns, TakeTurn(c)
  PROVE  DownInv' /\ CacheInv' /\ UNCHANGED upVars
         /\ (RelaysNext(c) \/ UNCHANGED <<served, relayed>>)
<1>1. PICK i \in Positions : RelayVerbatim(c, i) \/ RelayFromCache(c, i) \/ StartFetch(c, i)
  BY DEF TakeTurn
<1>2. /\ i = Len(relayed[c]) + 1 /\ i \in 1 .. Len(served[c])
      /\ fetching[c] = {} /\ served[c][i] \in Message
  BY <1>1, TurnFacts DEF RelayVerbatim, RelayFromCache, StartFetch
<1> DEFINE m == served[c][i]
<1>3. fetching \in [Conns -> SUBSET Positions]
  BY DEF DownInv
<1>4. CASE RelayVerbatim(c, i)
  <2>1. Relay(c, i, m.root) /\ fetching' = fetching /\ cache' = cache
    BY <1>4 DEF RelayVerbatim
  <2>2. [block |-> m.block, root |-> m.root] \in Relayed /\ m.root \in {ZeroRoot, Other}
    BY <1>2, MessageFacts
  <2>3. Genuine(m, [block |-> m.block, root |-> m.root])
    BY DEF Genuine
  <2>4. DownInv' /\ relayed' = [relayed EXCEPT ![c] =
                                   Append(@, [block |-> m.block, root |-> m.root])]
    BY <1>2, <1>3, <2>1, <2>2, <2>3, RelayPreserves
  <2>5. RelaysNext(c)
    BY <1>2, <2>1, <2>2, <2>4 DEF RelaysNext, Relay
  <2>6. QED
    BY <2>1, <2>4, <2>5 DEF Relay, upVars, CacheInv, CacheKeepsToItsLimit
<1>5. CASE RelayFromCache(c, i)
  <2>1. Relay(c, i, m.block) /\ fetching' = fetching /\ cache' = cache
        /\ m.block \in ToSet(cache)
    BY <1>5 DEF RelayFromCache, Cached
  <2>2. m.block \in TxBlocks /\ m.block \in Blocks
    BY <2>1 DEF CacheInv, ToSet, Blocks
  <2>3. [block |-> m.block, root |-> m.block] \in Relayed /\ m.root = ZeroRoot
    BY <1>2, <2>2, MessageFacts
  <2>4. Genuine(m, [block |-> m.block, root |-> m.block])
    BY <2>2, <2>3 DEF Genuine
  <2>5. DownInv' /\ relayed' = [relayed EXCEPT ![c] =
                                   Append(@, [block |-> m.block, root |-> m.block])]
    BY <1>2, <1>3, <2>1, <2>3, <2>4, RelayPreserves
  <2>6. RelaysNext(c)
    BY <1>2, <2>1, <2>2, <2>5 DEF RelaysNext, Relay
  <2>7. QED
    BY <2>1, <2>5, <2>6 DEF Relay, upVars, CacheInv, CacheKeepsToItsLimit
<1>6. CASE StartFetch(c, i)
  <2>1. /\ fetching' = [fetching EXCEPT ![c] = @ \cup {i}]
        /\ UNCHANGED <<served, handled, relayed, cache, upVars>>
    BY <1>6 DEF StartFetch, upVars
  <2>2. fetching'[c] = {i}
    BY <1>2, <1>3, <2>1
  <2>3. ChainInOrder(c)'
    BY <1>2, <2>1, <2>2 DEF DownInv, ChainInOrder
  <2>4. \A d \in Conns : d # c => ChainInOrder(d)'
    BY <2>1 DEF DownInv, ChainInOrder
  <2>5. DownInv'
    BY <1>3, <2>1, <2>3, <2>4 DEF DownInv
  <2>6. QED
    BY <2>1, <2>5 DEF CacheInv, CacheKeepsToItsLimit
<1>7. QED
  BY <1>1, <1>4, <1>5, <1>6

\* So does a fetch, with receipts and without.
LEMMA FetchEndsPreserves ==
  ASSUME DownInv, CacheInv, NEW c \in Conns, FetchEnds(c)
  PROVE  DownInv' /\ CacheInv' /\ UNCHANGED upVars /\ RelaysNext(c)
<1>1. PICK i \in Positions : ReceiptsArrive(c, i) \/ ReceiptsMissing(c, i)
  BY DEF FetchEnds
<1>2. /\ i = Len(relayed[c]) + 1 /\ i \in 1 .. Len(served[c])
      /\ fetching' = [fetching EXCEPT ![c] = {}] /\ served[c][i] \in Message
  BY <1>1, FetchFacts DEF ReceiptsArrive, ReceiptsMissing
<1> DEFINE m == served[c][i]
<1>3. /\ fetching' \in [Conns -> SUBSET Positions] /\ fetching'[c] = {}
      /\ \A d \in Conns : d # c => fetching'[d] = fetching[d]
  BY <1>2 DEF DownInv
<1>4. CASE ReceiptsArrive(c, i)
  <2>1. Relay(c, i, m.block) /\ m.block \in TxBlocks /\ Remember(m.block)
    BY <1>4 DEF ReceiptsArrive
  <2>2. m.block \in Blocks
    BY <2>1 DEF Blocks
  <2>3. [block |-> m.block, root |-> m.block] \in Relayed /\ m.root = ZeroRoot
    BY <1>2, <2>2, MessageFacts
  <2>4. Genuine(m, [block |-> m.block, root |-> m.block])
    BY <2>1, <2>3 DEF Genuine
  <2>5. DownInv' /\ relayed' = [relayed EXCEPT ![c] =
                                   Append(@, [block |-> m.block, root |-> m.block])]
    BY <1>2, <1>3, <2>1, <2>3, <2>4, RelayPreserves
  <2>6. RelaysNext(c)
    BY <1>2, <2>1, <2>2, <2>5 DEF RelaysNext, Relay
  <2>7. QED
    BY <2>1, <2>5, <2>6, RememberPreserves DEF Relay, upVars
<1>5. CASE ReceiptsMissing(c, i)
  <2>1. Relay(c, i, m.root) /\ cache' = cache
    BY <1>5 DEF ReceiptsMissing
  <2>2. [block |-> m.block, root |-> m.root] \in Relayed /\ m.root \in {ZeroRoot, Other}
    BY <1>2, MessageFacts
  <2>3. Genuine(m, [block |-> m.block, root |-> m.root])
    BY DEF Genuine
  <2>4. DownInv' /\ relayed' = [relayed EXCEPT ![c] =
                                   Append(@, [block |-> m.block, root |-> m.root])]
    BY <1>2, <1>3, <2>1, <2>2, <2>3, RelayPreserves
  <2>5. RelaysNext(c)
    BY <1>2, <2>1, <2>2, <2>4 DEF RelaysNext, Relay
  <2>6. QED
    BY <2>1, <2>4, <2>5 DEF Relay, upVars, CacheInv, CacheKeepsToItsLimit
<1>6. QED
  BY <1>1, <1>4, <1>5

-----------------------------------------------------------------------------
(* The invariant.                                                          *)

LEMMA InitHolds == ShimInit => ShimInv
<1> SUFFICES ASSUME ShimInit PROVE ShimInv
  OBVIOUS
<1>1. UpInv
  BY BoundFacts DEF ShimInit, UpInv, QueueInOrder
<1>2. DownInv
  BY BoundFacts DEF ShimInit, DownInv, ChainInOrder
<1>3. CacheInv
  BY BoundFacts DEF ShimInit, CacheInv, CacheKeepsToItsLimit, IsInjective
<1>4. QED
  BY <1>1, <1>2, <1>3 DEF ShimInv

\* Each step is of one direction of one connection, or of none.
LEMMA StepPreserves ==
  ASSUME ShimInv, [ShimNext]_shimVars
  PROVE  ShimInv'
<1> USE DEF ShimInv
<1>1. ASSUME NEW c \in Conns, ClientSends(c) \/ UpstreamOpens(c) \/ Shutdown(c)
      PROVE  ShimInv'
  <2>1. UpInv'
    BY <1>1, ClientSendsPreserves, UpstreamOpensPreserves, ShutdownPreserves
  <2>2. UNCHANGED <<downVars, cache>>
    BY <1>1 DEF ClientSends, UpstreamOpens, Shutdown, downVars
  <2>3. QED
    BY <2>1, <2>2 DEF downVars, DownInv, ChainInOrder, CacheInv, CacheKeepsToItsLimit
<1>2. ASSUME NEW c \in Conns, NEW m \in Message, UpstreamServes(c, m) PROVE ShimInv'
  <2>1. DownInv'
    BY <1>2, UpstreamServesPreserves
  <2>2. UNCHANGED <<upVars, cache>>
    BY <1>2 DEF UpstreamServes, upVars
  <2>3. QED
    BY <2>1, <2>2 DEF upVars, UpInv, QueueInOrder, CacheInv, CacheKeepsToItsLimit
<1>3. ASSUME NEW c \in Conns, TakeTurn(c) \/ FetchEnds(c) PROVE ShimInv'
  <2>1. DownInv' /\ CacheInv' /\ UNCHANGED upVars
    BY <1>3, TakeTurnPreserves, FetchEndsPreserves
  <2>2. QED
    BY <2>1 DEF upVars, UpInv, QueueInOrder
<1>4. CASE UNCHANGED shimVars
  BY <1>4 DEF shimVars, connVars, UpInv, QueueInOrder, DownInv, ChainInOrder, CacheInv,
              CacheKeepsToItsLimit
<1>5. QED
  BY <1>1, <1>2, <1>3, <1>4 DEF ShimNext

LEMMA ShimInvariant == ShimSpec => []ShimInv
<1>1. ShimInv /\ [ShimNext]_shimVars => ShimInv'
  BY StepPreserves
<1>2. QED
  BY <1>1, InitHolds, PTL DEF ShimSpec

\* Every variable of the shim keeps its type.
THEOREM ShimTypeCorrect == ShimSpec => []ShimTypeOK
<1>1. ShimInv => ShimTypeOK
  BY DEF ShimInv, UpInv, DownInv, CacheInv, ShimTypeOK
<1>2. QED
  BY <1>1, ShimInvariant, PTL

\* However fetches of several connections interleave, the shared cache never
\* outgrows its limit and never holds a key twice.
THEOREM CacheAlwaysKeepsToItsLimit == ShimSpec => []CacheKeepsToItsLimit
<1>1. ShimInv => CacheKeepsToItsLimit
  BY DEF ShimInv, CacheInv
<1>2. QED
  BY <1>1, ShimInvariant, PTL

\* No client is ever given a root that is not upstream's or the block's own.
THEOREM RootsAreAlwaysGenuine == ShimSpec => []RootsAreGenuine
<1>1. ASSUME ShimInv PROVE RootsAreGenuine
  <2> SUFFICES ASSUME NEW c \in Conns, NEW out \in ToSet(relayed[c])
               PROVE  \E in \in ToSet(served[c]) : Genuine(in, out)
    BY DEF RootsAreGenuine, Genuine
  <2>1. relayed[c] \in Seq(Relayed) /\ served[c] \in Seq(Message) /\ ChainInOrder(c)
    BY <1>1 DEF ShimInv, DownInv
  <2>2. PICK i \in 1 .. Len(relayed[c]) : out = relayed[c][i]
    BY <2>1 DEF ToSet
  <2>3. i \in 1 .. Len(served[c]) /\ Genuine(served[c][i], out)
    BY <2>1, <2>2 DEF ChainInOrder
  <2>4. served[c][i] \in ToSet(served[c])
    BY <2>1, <2>3 DEF ToSet
  <2>5. QED
    BY <2>3, <2>4
<1>2. QED
  BY <1>1, ShimInvariant, PTL

-----------------------------------------------------------------------------
(* Each direction is an ordered channel.                                   *)

Numbers(n) == [i \in 1 .. n |-> i]

UpSent == [c \in Conns |-> Numbers(requested[c])]

\* Two sequences of one length with the same elements are the same.
LEMMA SameSequence ==
  ASSUME NEW S, NEW T, NEW s \in Seq(S), NEW t \in Seq(T), Len(s) = Len(t),
         \A i \in 1 .. Len(s) : s[i] = t[i]
  PROVE  s = t
OBVIOUS

LEMMA NumbersFacts ==
  ASSUME NEW n \in Nat
  PROVE  /\ Numbers(n) \in Seq(Nat) /\ Len(Numbers(n)) = n
         /\ \A i \in 1 .. n : Numbers(n)[i] = i
         /\ Numbers(n + 1) = Append(Numbers(n), n + 1)
         /\ Numbers(0) = << >>
         /\ SubSeq(Numbers(n), 1, n) = Numbers(n)
<1>1. /\ Numbers(n) \in Seq(Nat) /\ Len(Numbers(n)) = n
      /\ \A i \in 1 .. n : Numbers(n)[i] = i
  BY DEF Numbers
<1>2. /\ Numbers(n + 1) \in Seq(Nat) /\ Len(Numbers(n + 1)) = n + 1
      /\ \A i \in 1 .. n + 1 : Numbers(n + 1)[i] = i
  BY DEF Numbers
<1>3. Numbers(n + 1) = Append(Numbers(n), n + 1)
  <2> DEFINE t == Append(Numbers(n), n + 1)
  <2>1. /\ t \in Seq(Nat) /\ Len(t) = n + 1
        /\ \A i \in 1 .. n : t[i] = Numbers(n)[i]
        /\ t[n + 1] = n + 1
    BY <1>1, AppendProperties
  <2> HIDE DEF t
  <2>2. \A i \in 1 .. n + 1 : Numbers(n + 1)[i] = t[i]
    BY <1>1, <1>2, <2>1
  <2>3. Numbers(n + 1) = t
    BY <1>2, <2>1, <2>2, SameSequence
  <2>4. QED
    BY <2>3 DEF t
<1>4. Numbers(0) = << >>
  BY DEF Numbers
<1>5. SubSeq(Numbers(n), 1, n) = Numbers(n)
  BY <1>1, SubSeqFull
<1>6. QED
  BY <1>1, <1>3, <1>4, <1>5

\* Of two numbers, neither exceeds the sum.
LEMMA SumFacts ==
  ASSUME NEW a \in Nat, NEW b \in Nat, NEW sum, a + b = sum
  PROVE  sum \in Nat /\ a <= sum /\ a + b <= sum /\ (b # 0 => b \in 1 .. sum)
OBVIOUS

\* The steps of the channel, by name.
LEMMA UpNext ==
  ASSUME NEW c \in Conns
  PROVE  /\ \A m \in Requests : Up!Send(c, m) \/ Up!Pass(c, m) => Up!Next
         /\ \A n \in 1 .. Len(UpSent[c]) : Up!Deliver(c, n) => Up!Next
<1>1. ASSUME NEW m \in Requests, Up!Send(c, m) \/ Up!Pass(c, m) PROVE Up!Next
  BY <1>1 DEF Up!Next
<1>2. ASSUME NEW n \in 1 .. Len(UpSent[c]), Up!Deliver(c, n) PROVE Up!Next
  BY <1>2 DEF Up!Next, UpSent, Numbers
<1>3. QED
  BY <1>1, <1>2

\* What has gone up is a prefix of what was sent; all of it, on an empty queue.
LEMMA ForwardedIsPrefix ==
  ASSUME UpInv, NEW c \in Conns
  PROVE  /\ requested[c] \in Nat /\ Len(forwarded[c]) \in Nat
         /\ Len(forwarded[c]) <= requested[c]
         /\ pending[c] = << >> => forwarded[c] = Numbers(requested[c])
<1>1. /\ forwarded[c] \in Seq(Requests) /\ pending[c] \in Seq(Requests) /\ QueueInOrder(c)
      /\ requested[c] \in Requests \cup {0}
  BY DEF UpInv
<1>2. requested[c] \in Nat
  BY <1>1, BoundFacts
<1>3. /\ Len(forwarded[c]) + Len(pending[c]) = requested[c]
      /\ \A i \in 1 .. Len(forwarded[c]) : forwarded[c][i] = i
      /\ pending[c] = << >> => Len(pending[c]) = 0
  BY <1>1 DEF QueueInOrder
<1>4. Len(forwarded[c]) \in Nat /\ Len(pending[c]) \in Nat
  BY <1>1
<1>5. Len(forwarded[c]) <= requested[c]
  BY <1>3, <1>4, SumFacts
<1>6. ASSUME pending[c] = << >> PROVE forwarded[c] = Numbers(requested[c])
  <2>1. Len(forwarded[c]) = requested[c]
    BY <1>2, <1>3, <1>4, <1>6
  <2>2. /\ Numbers(requested[c]) \in Seq(Nat) /\ Len(Numbers(requested[c])) = requested[c]
        /\ \A i \in 1 .. requested[c] : Numbers(requested[c])[i] = i
    BY <1>2, NumbersFacts
  <2>3. \A i \in 1 .. Len(forwarded[c]) : forwarded[c][i] = Numbers(requested[c])[i]
    BY <1>3, <2>1, <2>2
  <2>4. QED
    BY <1>1, <2>1, <2>2, <2>3, SameSequence
<1>7. QED
  BY <1>2, <1>4, <1>5, <1>6

\* A request is handed through or joins the channel; opening delivers the rest.
LEMMA UpStep ==
  ASSUME ShimInv, ShimInv', [ShimNext]_shimVars
  PROVE  [Up!Next]_<<UpSent, forwarded>>
<1> USE DEF ShimInv
<1>1. ASSUME NEW c \in Conns, ClientSends(c) PROVE Up!Next
  <2>1. requested[c] \in Nat /\ requested[c] < MaxRequests[c]
    BY <1>1, ForwardedIsPrefix DEF ClientSends
  <2>2. requested[c] + 1 \in Requests
    BY <2>1, BoundFacts
  <2>3. PICK m \in Requests : m = requested[c] + 1
    BY <2>2
  <2>4. /\ requested' = [requested EXCEPT ![c] = m]
        /\ requested \in [Conns -> Requests \cup {0}]
        /\ forwarded \in [Conns -> Seq(Requests)]
    BY <1>1, <2>3 DEF ClientSends, UpInv
  <2>5. Numbers(m) = Append(Numbers(requested[c]), m)
    BY <2>1, <2>3, NumbersFacts
  <2>6. UpSent' = [UpSent EXCEPT ![c] = Append(@, m)] /\ UpSent[c] = Numbers(requested[c])
    BY <2>4, <2>5 DEF UpSent
  <2>7. CASE link[c] = "open"
    <3>1. forwarded' = [forwarded EXCEPT ![c] = Append(@, m)]
      BY <1>1, <2>3, <2>7 DEF ClientSends
    <3>2. forwarded[c] = UpSent[c]
      BY <2>6, <2>7, ForwardedIsPrefix DEF UpInv, QueueInOrder
    <3>3. Up!Pass(c, m)
      BY <2>6, <3>1, <3>2 DEF Up!Pass, UpSent, Numbers
    <3>4. QED
      BY <2>3, <3>3, UpNext
  <2>8. CASE link[c] # "open"
    <3>1. forwarded' = forwarded
      BY <1>1, <2>8 DEF ClientSends
    <3>2. Up!Send(c, m)
      BY <2>6, <3>1 DEF Up!Send, UpSent, Numbers
    <3>3. QED
      BY <2>3, <3>2, UpNext
  <2>9. QED
    BY <2>7, <2>8
<1>2. ASSUME NEW c \in Conns, UpstreamOpens(c)
      PROVE  Up!Next \/ UNCHANGED <<UpSent, forwarded>>
  <2>1. /\ forwarded' = [forwarded EXCEPT ![c] = @ \o pending[c]]
        /\ pending' = [pending EXCEPT ![c] = << >>] /\ requested' = requested
        /\ pending \in [Conns -> Seq(Requests)] /\ forwarded \in [Conns -> Seq(Requests)]
    BY <1>2 DEF UpstreamOpens, UpInv
  <2>2. UpSent' = UpSent
    BY <2>1 DEF UpSent
  <2> DEFINE n == Len(pending[c])
             all == requested[c]
  <2>3. /\ all \in Nat /\ Len(forwarded[c]) \in Nat /\ n \in Nat
        /\ Len(forwarded[c]) + n = all
    BY <2>1, ForwardedIsPrefix DEF UpInv, QueueInOrder
  <2>4. forwarded'[c] = Numbers(all)
    <3>1. pending'[c] = << >> /\ requested'[c] = all
      BY <2>1
    <3>2. pending'[c] = << >> => forwarded'[c] = Numbers(requested'[c])
      <4>1. /\ forwarded'[c] \in Seq(Requests) /\ QueueInOrder(c)'
        BY DEF UpInv
      <4>2. Len(forwarded'[c]) = all /\ \A i \in 1 .. all : forwarded'[c][i] = i
        BY <2>3, <3>1, <4>1 DEF QueueInOrder
      <4>3. QED
        <5>1. /\ Numbers(all) \in Seq(Nat) /\ Len(Numbers(all)) = all
              /\ \A i \in 1 .. all : Numbers(all)[i] = i
          BY <2>3, NumbersFacts
        <5>2. forwarded'[c] = Numbers(all)
          BY <4>1, <4>2, <5>1, SameSequence
        <5>3. QED
          BY <3>1, <5>2
    <3>3. QED
      BY <3>1, <3>2
  <2>5. SubSeq(Numbers(all), 1, all) = Numbers(all) /\ Len(Numbers(all)) = all
    BY <2>3, NumbersFacts
  <2>6. forwarded' = [forwarded EXCEPT ![c] = Numbers(all)]
    BY <2>1, <2>4
  <2>7. UpSent[c] = Numbers(all)
    BY DEF UpSent
  <2>8. CASE n = 0
    <3>1. pending[c] = << >>
      BY <2>1, <2>8
    <3>2. forwarded[c] = Numbers(all)
      BY <3>1, ForwardedIsPrefix
    <3>3. QED
      BY <2>1, <2>2, <2>6, <3>2
  <2>9. CASE n # 0
    <3>1. n \in 1 .. Len(UpSent[c])
      <4>1. n \in 1 .. all
        BY <2>3, <2>9, SumFacts
      <4>2. QED
        BY <2>5, <2>7, <4>1
    <3>2. Up!Deliver(c, n)
      <4>1. Len(forwarded[c]) + n <= Len(UpSent[c])
        <5>1. Len(forwarded[c]) + n <= all
          BY <2>3, SumFacts
        <5>2. QED
          BY <2>5, <2>7, <5>1
      <4>2. forwarded' = [forwarded EXCEPT ![c] = SubSeq(UpSent[c], 1, Len(@) + n)]
        BY <2>3, <2>5, <2>6, <2>7
      <4>3. QED
        BY <2>2, <4>1, <4>2 DEF Up!Deliver, UpSent, Numbers
    <3>3. QED
      BY <3>1, <3>2, UpNext
  <2>10. QED
    BY <2>8, <2>9
<1>3. ASSUME NEW c \in Conns, NEW m \in Message, UpstreamServes(c, m)
      PROVE  UNCHANGED <<UpSent, forwarded>>
  BY <1>3 DEF UpstreamServes, UpSent
<1>4. ASSUME NEW c \in Conns, TakeTurn(c) \/ FetchEnds(c)
      PROVE  UNCHANGED <<UpSent, forwarded>>
  BY <1>4, TakeTurnPreserves, FetchEndsPreserves DEF upVars, UpSent
<1>5. ASSUME NEW c \in Conns, Shutdown(c) PROVE UNCHANGED <<UpSent, forwarded>>
  BY <1>5 DEF Shutdown, UpSent
<1>6. CASE UNCHANGED shimVars
  BY <1>6 DEF shimVars, connVars, UpSent
<1>7. QED
  BY <1>1, <1>2, <1>3, <1>4, <1>5, <1>6 DEF ShimNext

\* Requests reach upstream in order, each once, also around the opening of the
\* upstream socket, for any number of connections and requests.
THEOREM RequestsAlwaysKeepOrder == ShimSpec => RequestsKeepOrder
<1>1. ShimInit => Up!Init
  BY DEF ShimInit, Up!Init
<1>2. ShimInv /\ ShimInv' /\ [ShimNext]_shimVars => [Up!Next]_<<UpSent, forwarded>>
  BY UpStep
<1>3. QED
  BY <1>1, <1>2, ShimInvariant, PTL DEF ShimSpec, RequestsKeepOrder, Up!Spec, UpSent, Numbers

SentDown == [c \in Conns |-> BlocksOf(served[c])]
ReceivedDown == [c \in Conns |-> BlocksOf(relayed[c])]

LEMMA BlocksOfFacts ==
  ASSUME NEW S, NEW s \in Seq(S), NEW T, \A m \in S : m.block \in T
  PROVE  /\ BlocksOf(s) \in Seq(T) /\ Len(BlocksOf(s)) = Len(s)
         /\ \A i \in 1 .. Len(s) : BlocksOf(s)[i] = s[i].block
         /\ \A m \in S : BlocksOf(Append(s, m)) = Append(BlocksOf(s), m.block)
<1>1. ASSUME NEW t \in Seq(S)
      PROVE  /\ BlocksOf(t) \in Seq(T) /\ Len(BlocksOf(t)) = Len(t)
             /\ \A i \in 1 .. Len(t) : BlocksOf(t)[i] = t[i].block
  BY DEF BlocksOf
<1>2. ASSUME NEW m \in S PROVE BlocksOf(Append(s, m)) = Append(BlocksOf(s), m.block)
  <2> DEFINE u == Append(s, m)
             v == Append(BlocksOf(s), m.block)
  <2>1. /\ u \in Seq(S) /\ Len(u) = Len(s) + 1
        /\ \A i \in 1 .. Len(s) : u[i] = s[i]
        /\ u[Len(s) + 1] = m
    BY AppendProperties
  <2>2. BlocksOf(s) \in Seq(T) /\ Len(BlocksOf(s)) = Len(s)
        /\ \A i \in 1 .. Len(s) : BlocksOf(s)[i] = s[i].block
    BY <1>1
  <2>3. /\ v \in Seq(T) /\ Len(v) = Len(s) + 1
        /\ \A i \in 1 .. Len(s) : v[i] = BlocksOf(s)[i]
        /\ v[Len(s) + 1] = m.block
    BY <2>2, AppendProperties
  <2> HIDE DEF u, v
  <2>4. BlocksOf(u) \in Seq(T) /\ Len(BlocksOf(u)) = Len(s) + 1
        /\ \A i \in 1 .. Len(s) + 1 : BlocksOf(u)[i] = u[i].block
    BY <1>1, <2>1
  <2>5. \A i \in 1 .. Len(s) + 1 : BlocksOf(u)[i] = v[i]
    BY <2>1, <2>2, <2>3, <2>4
  <2>6. BlocksOf(u) = v
    BY <2>3, <2>4, <2>5, SameSequence
  <2>7. QED
    BY <2>6 DEF u, v
<1>3. QED
  BY <1>1, <1>2

\* The steps of the channel, by name.
LEMMA DownNext ==
  ASSUME NEW c \in Conns
  PROVE  /\ \A m \in Blocks \cup {Other} : Down!Send(c, m) => Down!Next
         /\ 1 \in 1 .. Len(SentDown[c]) /\ Down!Deliver(c, 1) => Down!Next
<1>1. ASSUME NEW m \in Blocks \cup {Other}, Down!Send(c, m) PROVE Down!Next
  BY <1>1 DEF Down!Next
<1>2. ASSUME 1 \in 1 .. Len(SentDown[c]), Down!Deliver(c, 1) PROVE Down!Next
  BY <1>2 DEF Down!Next, SentDown
<1>3. QED
  BY <1>1, <1>2

\* What goes out next is what came in next.
LEMMA DeliverNext ==
  ASSUME DownInv, DownInv', NEW c \in Conns, RelaysNext(c)
  PROVE  Down!Next
<1>1. PICK i \in 1 .. Len(served[c]), root \in Blocks \cup {ZeroRoot, Other} :
        /\ i = Len(relayed[c]) + 1
        /\ served' = served
        /\ relayed' = [relayed EXCEPT ![c] =
                          Append(@, [block |-> served[c][i].block, root |-> root])]
  BY DEF RelaysNext
<1>2. /\ served[c] \in Seq(Message) /\ relayed[c] \in Seq(Relayed)
      /\ relayed'[c] \in Seq(Relayed) /\ relayed \in [Conns -> Seq(Relayed)]
  BY DEF DownInv
<1>3. \A m \in Message : m.block \in Blocks \cup {Other}
  BY MessageFacts
<1>4. \A m \in Relayed : m.block \in Blocks \cup {Other}
  BY DEF Relayed
<1> DEFINE S == BlocksOf(served[c])
           D == BlocksOf(relayed[c])
           E == BlocksOf(relayed'[c])
<1>5. /\ S \in Seq(Blocks \cup {Other}) /\ Len(S) = Len(served[c])
      /\ \A j \in 1 .. Len(served[c]) : S[j] = served[c][j].block
  BY <1>2, <1>3, BlocksOfFacts
<1>6. Len(D) = Len(relayed[c])
  BY <1>2, <1>4, BlocksOfFacts
<1>7. /\ E \in Seq(Blocks \cup {Other}) /\ Len(E) = Len(relayed'[c])
      /\ \A j \in 1 .. Len(relayed'[c]) : E[j] = relayed'[c][j].block
  BY <1>2, <1>4, BlocksOfFacts
<1>8. Len(relayed'[c]) = i /\ Len(relayed[c]) \in Nat /\ i \in Nat /\ 1 <= i
  BY <1>1, <1>2
<1>9. \A j \in 1 .. i : relayed'[c][j].block = served[c][j].block
  <2>1. ChainInOrder(c)' /\ served'[c] = served[c]
    BY <1>1 DEF DownInv
  <2>2. QED
    BY <1>8, <2>1 DEF ChainInOrder, Genuine
<1> DEFINE F == SubSeq(S, 1, i)
<1> HIDE DEF S, D, E
<1>10. /\ F \in Seq(Blocks \cup {Other}) /\ Len(F) = i
       /\ \A j \in 1 .. i : F[j] = S[j]
  BY <1>5, <1>8
<1> HIDE DEF F
<1>11. \A j \in 1 .. i : E[j] = F[j]
  BY <1>5, <1>7, <1>8, <1>9, <1>10
<1>12. E = F
  BY <1>7, <1>8, <1>10, <1>11, SameSequence
<1>13. /\ ReceivedDown' = [ReceivedDown EXCEPT ![c] = E]
       /\ SentDown' = SentDown
  BY <1>1, <1>2 DEF ReceivedDown, SentDown, E
<1>14. /\ SentDown[c] = S /\ ReceivedDown[c] = D /\ Len(D) + 1 = i
  BY <1>1, <1>6 DEF SentDown, ReceivedDown, S, D
<1>15. Len(D) + 1 <= Len(S) /\ 1 \in 1 .. Len(S)
  BY <1>5, <1>8, <1>14
<1>16. ReceivedDown' = [ReceivedDown EXCEPT ![c] = SubSeq(SentDown[c], 1, Len(@) + 1)]
  BY <1>12, <1>13, <1>14 DEF F
<1>17. Down!Deliver(c, 1)
  BY <1>13, <1>14, <1>15, <1>16 DEF Down!Deliver, SentDown, ReceivedDown
<1>18. QED
  BY <1>14, <1>15, <1>17, DownNext

\* A message joins the channel when upstream sends it and leaves it in turn.
LEMMA DownStep ==
  ASSUME ShimInv, ShimInv', [ShimNext]_shimVars
  PROVE  [Down!Next]_<<SentDown, ReceivedDown>>
<1> USE DEF ShimInv
<1>1. ASSUME NEW c \in Conns, NEW m \in Message, UpstreamServes(c, m) PROVE Down!Next
  <2>1. /\ served' = [served EXCEPT ![c] = Append(@, m)] /\ relayed' = relayed
        /\ served \in [Conns -> Seq(Message)]
    BY <1>1 DEF UpstreamServes, DownInv
  <2>2. m.block \in Blocks \cup {Other} /\ \A x \in Message : x.block \in Blocks \cup {Other}
    BY MessageFacts
  <2>3. BlocksOf(Append(served[c], m)) = Append(BlocksOf(served[c]), m.block)
    <3>1. served[c] \in Seq(Message)
      BY <2>1
    <3>2. \A x \in Message :
            BlocksOf(Append(served[c], x)) = Append(BlocksOf(served[c]), x.block)
      BY <2>2, <3>1, BlocksOfFacts
    <3>3. QED
      BY <3>2
  <2>4. SentDown' = [SentDown EXCEPT ![c] = Append(@, m.block)]
    BY <2>1, <2>3 DEF SentDown
  <2>5. ReceivedDown' = ReceivedDown
    BY <2>1 DEF ReceivedDown
  <2>6. Down!Send(c, m.block)
    BY <2>4, <2>5 DEF Down!Send, SentDown, ReceivedDown
  <2>7. QED
    BY <2>2, <2>6, DownNext
<1>2. ASSUME NEW c \in Conns, TakeTurn(c) \/ FetchEnds(c)
      PROVE  Down!Next \/ UNCHANGED <<SentDown, ReceivedDown>>
  <2>1. RelaysNext(c) \/ UNCHANGED <<served, relayed>>
    BY <1>2, TakeTurnPreserves, FetchEndsPreserves
  <2>2. QED
    BY <2>1, DeliverNext DEF SentDown, ReceivedDown
<1>3. ASSUME NEW c \in Conns, ClientSends(c) \/ UpstreamOpens(c) \/ Shutdown(c)
      PROVE  UNCHANGED <<SentDown, ReceivedDown>>
  BY <1>3 DEF ClientSends, UpstreamOpens, Shutdown, SentDown, ReceivedDown
<1>4. CASE UNCHANGED shimVars
  BY <1>4 DEF shimVars, connVars, SentDown, ReceivedDown
<1>5. QED
  BY <1>1, <1>2, <1>3, <1>4 DEF ShimNext

\* Answers come down in the order upstream sent them, none skipped and none
\* repeated, however long one of them waits for its receipts.
THEOREM AnswersAlwaysKeepOrder == ShimSpec => AnswersKeepOrder
<1>1. ShimInit => Down!Init
  BY DEF ShimInit, Down!Init, BlocksOf
<1>2. ShimInv /\ ShimInv' /\ [ShimNext]_shimVars => [Down!Next]_<<SentDown, ReceivedDown>>
  BY DownStep
<1>3. QED
  BY <1>1, <1>2, ShimInvariant, PTL
     DEF ShimSpec, AnswersKeepOrder, Down!Spec, SentDown, ReceivedDown

=============================================================================
