----------------------------- MODULE UtxoLookup -----------------------------
(***************************************************************************)
(* The "check any UTXO" panel of ui/index.html: checkUtxo and the buttons  *)
(* that start it.  A lookup reads the height of exSat's index, then the    *)
(* row, then asks Bitcoin; each answer comes from an index that has gone   *)
(* on in between, and from whichever EOS node eosPost got through to.      *)
(* Lookups overlap: only the main button waits for the one it started.     *)
(***************************************************************************)
EXTENDS Naturals

CONSTANTS
  Outpoints,
  MinedIn,     \* the Bitcoin block of an outpoint's transaction, 0 if none
  SpentIn,     \* the block that spends the outpoint, 0 if none
  Missing,     \* outpoints whose transaction has fewer outputs
  Known,       \* CFG.KNOWN, behind the button "2009 coinbase": unspent
  Nodes,       \* CFG.EOS_RPCS
  Lookups,     \* bound: lookups that run at the same time
  MaxHeight    \* bound: Bitcoin's height

ASSUME LookupAssumption ==
  /\ {MinedIn, SpentIn} \subseteq [Outpoints -> Nat]
  /\ Missing \subseteq Outpoints
  /\ Known \in Outpoints \ Missing
  /\ MinedIn[Known] = 1
  /\ SpentIn[Known] = 0
  /\ Nodes # {}
  /\ MaxHeight \in Nat

VARIABLES
  tip,             \* Bitcoin's height
  parsed,          \* the height a node's copy of the index has parsed
  lookup,          \* the calls of checkUtxo
  panel,           \* what #checkOut shows
  checkDisabled,   \* #checkBtn
  recent           \* #exRecent: ready, picking a transaction, or looking it up

indexVars == <<tip, parsed>>
pageVars  == <<indexVars, lookup, panel, checkDisabled, recent>>

Verdicts == {"found", "unknown", "unseen", "unconfirmed", "newer", "spent", "failed"}

PageTypeOK ==
  /\ tip \in 1 .. MaxHeight
  /\ parsed \in [Nodes -> 1 .. tip]
  /\ lookup \in [Lookups -> [phase : {"idle", "height", "row", "bitcoin"},
                             out : Outpoints, height : 0 .. MaxHeight,
                             node : Nodes, oneNode : BOOLEAN, picked : BOOLEAN]]
  /\ panel \in [kind : Verdicts \cup {"empty", "looking", "malformed", "norecent"},
                out : Outpoints, height : 0 .. MaxHeight, oneNode : BOOLEAN]
  /\ checkDisabled \in BOOLEAN
  /\ recent \in {"ready", "picking", "looking"}

\* Whether the set of unspent outputs at height h holds the output.
Unspent(o, h) ==
  /\ o \notin Missing
  /\ MinedIn[o] \in 1 .. h
  /\ SpentIn[o] \notin 1 .. h

Call(o, picked) ==
  [phase |-> "height", out |-> o, height |-> 0, node |-> CHOOSE n \in Nodes : TRUE,
   oneNode |-> TRUE, picked |-> picked]

Idle == [Call(Known, FALSE) EXCEPT !.phase = "idle"]

\* A panel that is not the verdict of a lookup.
Says(kind, o) == [kind |-> kind, out |-> o, height |-> 0, oneNode |-> TRUE]

PageInit ==
  /\ tip \in 1 .. MaxHeight
  /\ parsed \in [Nodes -> 1 .. tip]
  /\ lookup = [l \in Lookups |-> Idle]
  /\ panel = Says("empty", Known)
  /\ checkDisabled = FALSE
  /\ recent = "ready"

-----------------------------------------------------------------------------
(* Bitcoin, and the copies of the index, which follow at their own pace.   *)

Mine ==
  /\ tip < MaxHeight
  /\ tip' = tip + 1
  /\ UNCHANGED <<parsed, lookup, panel, checkDisabled, recent>>

Parse(n) ==
  /\ parsed[n] < tip
  /\ parsed' = [parsed EXCEPT ![n] = @ + 1]
  /\ UNCHANGED <<tip, lookup, panel, checkDisabled, recent>>

-----------------------------------------------------------------------------

\* The first lines of checkUtxo, up to its first await.
Begin(l, o, picked) ==
  /\ lookup[l].phase = "idle"
  /\ lookup' = [lookup EXCEPT ![l] = Call(o, picked)]
  /\ panel' = Says("looking", o)
  /\ checkDisabled' = TRUE
  /\ UNCHANGED indexVars

\* The main button and the Enter key; a disabled button takes no click.
ClickCheck(l, o) == ~checkDisabled /\ Begin(l, o, FALSE) /\ UNCHANGED recent

ClickCheckMalformed ==
  /\ ~checkDisabled
  /\ panel' = Says("malformed", Known)
  /\ UNCHANGED <<indexVars, lookup, checkDisabled, recent>>

ClickKnown(l) == Begin(l, Known, FALSE) /\ UNCHANGED recent

\* A link with ?check= starts a lookup as the page is loaded.
OpenLink(l, o) == panel.kind = "empty" /\ Begin(l, o, FALSE) /\ UNCHANGED recent

\* exRecent asks for the tip and the transactions of its block, and looks up
\* output 0 of one of them.
ClickRecent ==
  /\ recent = "ready"
  /\ recent' = "picking"
  /\ UNCHANGED <<indexVars, lookup, panel, checkDisabled>>

PickRecent(l, o) ==
  /\ recent = "picking"
  /\ MinedIn[o] \in 1 .. tip
  /\ o \notin Missing
  /\ Begin(l, o, TRUE)
  /\ recent' = "looking"

\* A request fails, or the block has no transactions to pick from, of which
\* checkUtxo says that it is no txid.
PickFails ==
  /\ recent = "picking"
  /\ recent' = "ready"
  /\ panel' \in {Says("norecent", Known), Says("malformed", Known)}
  /\ UNCHANGED <<indexVars, lookup, checkDisabled>>

-----------------------------------------------------------------------------
(* What follows the awaits of a lookup.                                    *)

\* The verdict is shown and finally runs, that of exRecent as well.
Ends(l, kind, oneNode) ==
  /\ panel' = [kind |-> kind, out |-> lookup[l].out,
               height |-> lookup[l].height, oneNode |-> oneNode]
  /\ lookup' = [lookup EXCEPT ![l] = Idle]
  /\ checkDisabled' = FALSE
  /\ recent' = IF lookup[l].picked THEN "ready" ELSE recent
  /\ UNCHANGED indexVars

GoesOn(l, call) ==
  /\ lookup' = [lookup EXCEPT ![l] = call]
  /\ UNCHANGED <<indexVars, panel, checkDisabled, recent>>

\* Variant: the height of the block that is being parsed.
HeightReadAhead(l) ==
  /\ lookup[l].phase = "height"
  /\ \E n \in Nodes :
       GoesOn(l, [lookup[l] EXCEPT !.phase = "row", !.height = parsed[n] + 1, !.node = n])

\* Variant: what is found is dated by Bitcoin's height.
HeightReadOfTip(l) ==
  /\ lookup[l].phase = "height"
  /\ \E n \in Nodes :
       GoesOn(l, [lookup[l] EXCEPT !.phase = "row", !.height = tip, !.node = n])

\* readChainstate
HeightRead(l) ==
  /\ lookup[l].phase = "height"
  /\ \E n \in Nodes :
       GoesOn(l, [lookup[l] EXCEPT !.phase = "row", !.height = parsed[n], !.node = n])

\* findUtxo
RowRead(l) ==
  /\ lookup[l].phase = "row"
  /\ \E n \in Nodes :
       IF Unspent(lookup[l].out, parsed[n])
         THEN Ends(l, "found", n = lookup[l].node)
         ELSE GoesOn(l, [lookup[l] EXCEPT !.phase = "bitcoin", !.oneNode = n = lookup[l].node,
                                          !.node = Idle.node])

\* Variant: nothing catches what eosPost throws.
ReadFailsUncaught(l) ==
  /\ lookup[l].phase \in {"height", "row"}
  /\ lookup' = [lookup EXCEPT ![l] = Idle]
  /\ checkDisabled' = FALSE
  /\ recent' = IF lookup[l].picked THEN "ready" ELSE recent
  /\ UNCHANGED <<indexVars, panel>>

\* eosPost throws when no node answers.
ReadFails(l) ==
  /\ lookup[l].phase \in {"height", "row"}
  /\ Ends(l, "failed", TRUE)

\* Variant: the block is compared with the height of the moment.
BitcoinAnswersNow(l) ==
  /\ lookup[l].phase = "bitcoin"
  /\ \E n \in Nodes :
       LET mined == MinedIn[lookup[l].out]
       IN  Ends(l, IF mined \notin 1 .. tip THEN "unseen"
                   ELSE IF mined > parsed[n] THEN "newer" ELSE "spent", lookup[l].oneNode)

\* btcTx: it throws; it does not know the transaction; the transaction is not
\* confirmed; or it is, in a block that the height read first covers or not.
BitcoinAnswers(l) ==
  LET mined == MinedIn[lookup[l].out]
      verdict == {"unknown"}
                   \cup (IF mined \notin 1 .. tip THEN {"unseen"} ELSE {})
                   \cup (IF mined > tip THEN {"unconfirmed"} ELSE {})
                   \cup (IF mined \in 1 .. tip
                           THEN {IF mined > lookup[l].height THEN "newer" ELSE "spent"}
                           ELSE {})
  IN  /\ lookup[l].phase = "bitcoin"
      /\ \E kind \in verdict : Ends(l, kind, lookup[l].oneNode)

PageNext ==
  \/ Mine \/ ClickCheckMalformed \/ ClickRecent \/ PickFails
  \/ \E n \in Nodes : Parse(n)
  \/ \E l \in Lookups :
       \/ ClickKnown(l) \/ HeightRead(l) \/ RowRead(l) \/ ReadFails(l) \/ BitcoinAnswers(l)
       \/ \E o \in Outpoints : ClickCheck(l, o) \/ OpenLink(l, o) \/ PickRecent(l, o)

PageSpec == PageInit /\ [][PageNext]_pageVars

-----------------------------------------------------------------------------
(* Correctness.                                                            *)

\* "Either it has since been spent, or the transaction has fewer outputs than
\* that": so it is, however far the index moves on during the lookup, because
\* the height is read before the row; provided one node answered both.
SpentIsSound ==
  panel.kind = "spent" /\ panel.oneNode =>
    panel.out \in Missing \/ SpentIn[panel.out] \in 1 .. tip

\* An output that is found was not spent at the height the page dates it to,
\* again provided that one node answered; it may be newer than that height.
FoundWasNotSpent ==
  panel.kind = "found" /\ panel.oneNode =>
    SpentIn[panel.out] \notin 1 .. panel.height

\* Lookups overlap, fail and end in any order; yet "Looking it up" is never
\* left standing, and the button comes back when the last one has ended.
LookupsAreAnswered ==
  /\ panel.kind = "looking" =>
       \E l \in Lookups : lookup[l].phase # "idle" /\ lookup[l].out = panel.out
  /\ (\A l \in Lookups : lookup[l].phase = "idle") => ~checkDisabled

=============================================================================
