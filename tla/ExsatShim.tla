------------------------------ MODULE ExsatShim -----------------------------
(***************************************************************************)
(* devnet/exsat-shim/server.mjs: the WebSocket proxy between an attestor   *)
(* and exSat's EVM RPC.  Requests go up untouched; answers come down in    *)
(* the order upstream sent them, with the all-zero receiptsRoot of a block *)
(* that has transactions replaced by the root of the block's own receipts. *)
(*                                                                         *)
(* The process is single-threaded: an action is what runs between two      *)
(* awaits.  Fetching receipts is the await that lets other connections in; *)
(* all connections share rootCache.  A request is its number on its        *)
(* connection.  A block is its hash, and its receipts root is written as   *)
(* the block itself.                                                       *)
(***************************************************************************)
EXTENDS Integers, Sequences, SequencesExt

CONSTANTS
  Conns,        \* client connections
  TxBlocks,     \* blocks with transactions, by hash
  EmptyBlocks,  \* blocks without
  ZeroRoot,     \* the all-zero receiptsRoot upstream serves
  Other,        \* a message that holds no block
  CacheMax,     \* CACHE_MAX
  MaxRequests,  \* bound: connection -> requests the client sends
  MaxServed     \* bound: connection -> messages upstream sends

ASSUME ShimAssumption ==
  /\ CacheMax \in Nat \ {0}
  /\ MaxRequests \in [Conns -> Nat]
  /\ MaxServed \in [Conns -> Nat]
  /\ TxBlocks \cap EmptyBlocks = {}
  /\ {ZeroRoot, Other} \cap (TxBlocks \cup EmptyBlocks) = {}

VARIABLES
  link,        \* connection -> "connecting", "open" or "closed"
  requested,   \* connection -> how many requests the client has sent
  pending,     \* connection -> requests that wait for the upstream socket
  forwarded,   \* connection -> requests sent upstream, in order
  served,      \* connection -> messages received from upstream, in order
  fetching,    \* connection -> the messages (by position) awaiting receipts
  handled,     \* connection -> the messages whose link of the chain has ended
  relayed,     \* connection -> what those links put out, in that order
  cache        \* keys of rootCache, oldest first

connVars == <<link, requested, pending, forwarded, served, fetching, handled, relayed>>
shimVars == <<connVars, cache>>

Blocks == TxBlocks \cup EmptyBlocks

\* What upstream can send: a header (newHeads carries no transaction list), a
\* whole block, or anything else.
Message ==
  [block : Blocks, whole : BOOLEAN, root : {ZeroRoot}]
    \cup [block : {Other}, whole : {FALSE}, root : {Other}]

\* What the client may receive in its place.
Relayed == [block : Blocks \cup {Other}, root : Blocks \cup {ZeroRoot, Other}]

Requests  == UNION {1 .. MaxRequests[c] : c \in Conns}
Positions == UNION {1 .. MaxServed[c] : c \in Conns}

ShimTypeOK ==
  /\ link \in [Conns -> {"connecting", "open", "closed"}]
  /\ requested \in [Conns -> Requests \cup {0}]
  /\ pending \in [Conns -> Seq(Requests)]
  /\ forwarded \in [Conns -> Seq(Requests)]
  /\ served \in [Conns -> Seq(Message)]
  /\ fetching \in [Conns -> SUBSET Positions]
  /\ handled \in [Conns -> SUBSET Positions]
  /\ relayed \in [Conns -> Seq(Relayed)]
  /\ cache \in Seq(TxBlocks)

ShimInit ==
  /\ link = [c \in Conns |-> "connecting"]
  /\ requested = [c \in Conns |-> 0]
  /\ pending = [c \in Conns |-> << >>]
  /\ forwarded = [c \in Conns |-> << >>]
  /\ served = [c \in Conns |-> << >>]
  /\ fetching = [c \in Conns |-> {}]
  /\ handled = [c \in Conns |-> {}]
  /\ relayed = [c \in Conns |-> << >>]
  /\ cache = << >>

-----------------------------------------------------------------------------
(* Requests, client to upstream.                                           *)

\* client.on('message'): sent at once on an open socket, queued otherwise.
ClientSends(c) ==
  /\ link[c] # "closed"
  /\ requested[c] < MaxRequests[c]
  /\ LET m == requested[c] + 1
     IN  /\ requested' = [requested EXCEPT ![c] = m]
         /\ IF link[c] = "open"
              THEN /\ forwarded' = [forwarded EXCEPT ![c] = Append(@, m)]
                   /\ UNCHANGED pending
              ELSE /\ pending' = [pending EXCEPT ![c] = Append(@, m)]
                   /\ UNCHANGED forwarded
  /\ UNCHANGED <<link, served, fetching, handled, relayed, cache>>

\* Variant: the queue is flushed from its end.
UpstreamOpensPopping(c) ==
  /\ link[c] = "connecting"
  /\ link' = [link EXCEPT ![c] = "open"]
  /\ forwarded' = [forwarded EXCEPT ![c] = @ \o Reverse(pending[c])]
  /\ pending' = [pending EXCEPT ![c] = << >>]
  /\ UNCHANGED <<requested, served, fetching, handled, relayed, cache>>

\* Variant: the queue is not flushed.
UpstreamOpensOnly(c) ==
  /\ link[c] = "connecting"
  /\ link' = [link EXCEPT ![c] = "open"]
  /\ UNCHANGED <<requested, pending, forwarded, served, fetching, handled, relayed, cache>>

\* upstream.on('open') flushes the queue in one go.
UpstreamOpens(c) ==
  /\ link[c] = "connecting"
  /\ link' = [link EXCEPT ![c] = "open"]
  /\ forwarded' = [forwarded EXCEPT ![c] = @ \o pending[c]]
  /\ pending' = [pending EXCEPT ![c] = << >>]
  /\ UNCHANGED <<requested, served, fetching, handled, relayed, cache>>

\* shutdown: either socket closes or fails, or the handshake times out; both
\* sockets close.  Work on the chain goes on and finds the client gone.
Shutdown(c) ==
  /\ link[c] # "closed"
  /\ link' = [link EXCEPT ![c] = "closed"]
  /\ UNCHANGED <<requested, pending, forwarded, served, fetching, handled, relayed, cache>>

-----------------------------------------------------------------------------
(* Answers, upstream to client.                                            *)

\* upstream.on('message'): one more link on the promise chain.
UpstreamServes(c, m) ==
  /\ link[c] = "open"
  /\ Len(served[c]) < MaxServed[c]
  /\ served' = [served EXCEPT ![c] = Append(@, m)]
  /\ UNCHANGED <<link, requested, pending, forwarded, fetching, handled, relayed, cache>>

\* Variant: no chain, every message on its own.
TurnAtOnce(c, i) ==
  /\ i \in 1 .. Len(served[c])
  /\ i \notin fetching[c] \cup handled[c]

\* chain.then: the link for message i begins when those of all earlier
\* messages have ended.
Turn(c, i) ==
  /\ i \in 1 .. Len(served[c])
  /\ i \notin fetching[c] \cup handled[c]
  /\ \A j \in 1 .. (i - 1) : j \in handled[c]

\* patchBlock goes to the cache or upstream only for a block with the zero
\* root that is not known to be empty.
WantsRoot(m) ==
  /\ m.block # Other
  /\ m.root = ZeroRoot
  /\ ~(m.whole /\ m.block \in EmptyBlocks)

Cached(b) == b \in ToSet(cache)

\* The end of a link of the chain: the message goes to the client if the
\* client is still there.  What a link put out is kept either way, so that of a
\* closed connection relayed also holds what nobody received.
Relay(c, i, root) ==
  /\ handled' = [handled EXCEPT ![c] = @ \cup {i}]
  /\ relayed' = [relayed EXCEPT ![c] =
                   Append(@, [block |-> served[c][i].block, root |-> root])]
  /\ UNCHANGED <<link, requested, pending, forwarded, served>>

\* Nothing to patch.
RelayVerbatim(c, i) ==
  /\ Turn(c, i)
  /\ ~WantsRoot(served[c][i])
  /\ Relay(c, i, served[c][i].root)
  /\ UNCHANGED <<fetching, cache>>

\* Variant: the newest root, whatever block it was computed for.
RelayNewestRoot(c, i) ==
  /\ Turn(c, i)
  /\ WantsRoot(served[c][i])
  /\ cache # << >>
  /\ Relay(c, i, Last(cache))
  /\ UNCHANGED <<fetching, cache>>

RelayFromCache(c, i) ==
  /\ Turn(c, i)
  /\ WantsRoot(served[c][i])
  /\ Cached(served[c][i].block)
  /\ Relay(c, i, served[c][i].block)
  /\ UNCHANGED <<fetching, cache>>

\* eth_getBlockReceipts goes out; other connections go on meanwhile.
StartFetch(c, i) ==
  /\ Turn(c, i)
  /\ WantsRoot(served[c][i])
  /\ ~Cached(served[c][i].block)
  /\ fetching' = [fetching EXCEPT ![c] = @ \cup {i}]
  /\ UNCHANGED <<link, requested, pending, forwarded, served, handled, relayed, cache>>

FetchOver(c, i) ==
  /\ i \in fetching[c]
  /\ fetching' = [fetching EXCEPT ![c] = @ \ {i}]

\* Variant: an eviction one entry late.
RememberOneMore(b) ==
  LET room == IF Len(cache) > CacheMax THEN Tail(cache) ELSE cache
  IN  cache' = IF b \in ToSet(room) THEN room ELSE Append(room, b)

\* Map.set after evicting the oldest key of a full cache.  The key is not
\* looked up again after the await, and setting a key that another connection
\* has set in the meantime keeps its place.
Remember(b) ==
  LET room == IF Len(cache) >= CacheMax THEN Tail(cache) ELSE cache
  IN  cache' = IF b \in ToSet(room) THEN room ELSE Append(room, b)

ReceiptsArrive(c, i) ==
  /\ FetchOver(c, i)
  /\ served[c][i].block \in TxBlocks
  /\ Remember(served[c][i].block)
  /\ Relay(c, i, served[c][i].block)

\* Variant: a block without receipts is cached as well.
CacheMissing(c, i) ==
  /\ FetchOver(c, i)
  /\ Relay(c, i, served[c][i].root)
  /\ cache' = Append(cache, served[c][i].block)

\* Variant: a failed fetch leaves its message waiting.
NeverMissing(c, i) == FALSE

\* No receipts (an empty block, or one upstream does not know yet) or a failed
\* request: the block goes out as it came.
ReceiptsMissing(c, i) ==
  /\ FetchOver(c, i)
  /\ Relay(c, i, served[c][i].root)
  /\ UNCHANGED cache

FetchEnds(c) ==
  \E i \in Positions : ReceiptsArrive(c, i) \/ ReceiptsMissing(c, i)

TakeTurn(c) ==
  \E i \in Positions :
    RelayVerbatim(c, i) \/ RelayFromCache(c, i) \/ StartFetch(c, i)

HandshakeEnds(c) ==
  /\ link[c] = "connecting"
  /\ UpstreamOpens(c) \/ Shutdown(c)

ShimNext ==
  \E c \in Conns :
    \/ ClientSends(c)
    \/ UpstreamOpens(c)
    \/ Shutdown(c)
    \/ \E m \in Message : UpstreamServes(c, m)
    \/ TakeTurn(c)
    \/ FetchEnds(c)

ShimSpec == ShimInit /\ [][ShimNext]_shimVars

\* The event loop runs every promise that can go on, the handshake ends one
\* way or the other (handshakeTimeout), and a request to upstream is answered
\* or fails: the last is upstream's promise, since the code sets no timeout.
ShimFairness ==
  \A c \in Conns :
    /\ WF_shimVars(HandshakeEnds(c))
    /\ WF_shimVars(TakeTurn(c))
    /\ WF_shimVars(FetchEnds(c))

FairShimSpec == ShimSpec /\ ShimFairness

-----------------------------------------------------------------------------
(* Correctness.                                                            *)

\* A block reaches the client with the root upstream gave it or, when that
\* was the all-zero one and the block has transactions, with the root of its
\* own receipts: never with one computed for another block on this or another
\* connection, however the fetches interleave with evictions.
RootsAreGenuine ==
  \A c \in Conns : \A out \in ToSet(relayed[c]) : \E in \in ToSet(served[c]) :
    /\ out.block = in.block
    /\ \/ out.root = in.root
       \/ in.root = ZeroRoot /\ in.block \in TxBlocks /\ out.root = in.block

\* The shared cache keeps to its limit and holds no key twice, although two
\* connections may miss on the same block, fetch it at the same time and both
\* store it.
CacheKeepsToItsLimit ==
  /\ Len(cache) <= CacheMax
  /\ IsInjective(cache)

\* Requests reach upstream in the order the client sent them, each once, also
\* those sent before, at and after the moment the upstream socket opens.
Up == INSTANCE OrderedChannel
        WITH Channels <- Conns, Messages <- Requests,
             sent <- [c \in Conns |-> [i \in 1 .. requested[c] |-> i]],
             delivered <- forwarded
RequestsKeepOrder == Up!Spec

\* Answers leave the shim in the order upstream sent them, none skipped and
\* none repeated, although one waits for receipts while the next is ready.
BlocksOf(messages) == [i \in DOMAIN messages |-> messages[i].block]
Down == INSTANCE OrderedChannel
          WITH Channels <- Conns, Messages <- Blocks \cup {Other},
               sent <- [c \in Conns |-> BlocksOf(served[c])],
               delivered <- [c \in Conns |-> BlocksOf(relayed[c])]
AnswersKeepOrder == Down!Spec

\* No request is stuck in the queue: it goes upstream or the pair closes.
RequestsAreNotStuck ==
  \A c \in Conns : (pending[c] # << >>) ~> (pending[c] = << >> \/ link[c] = "closed")

\* No answer is stuck behind a block whose receipts cannot be had: every
\* message upstream sends is taken off the chain.
AnswersAreNotStuck ==
  \A c \in Conns, n \in Positions :
    (Len(served[c]) >= n) ~> (Len(relayed[c]) >= n)

=============================================================================
