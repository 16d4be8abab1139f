-------------------------- MODULE UtxoLookupProofs --------------------------
(***************************************************************************)
(* Theorems about UtxoLookup, for any outpoints, nodes, heights and number *)
(* of lookups that overlap: what the panel says of an output is true of    *)
(* it, although the index moves on between the reads of a lookup.          *)
(***************************************************************************)
EXTENDS UtxoLookup, TLAPS

\* What a lookup has read so far: a height its node has parsed; and then, that
\* the row was missing there although that height had been parsed.
ReadingHolds(l) ==
  /\ lookup[l].phase = "row" => lookup[l].height <= parsed[lookup[l].node]
  /\ lookup[l].phase = "bitcoin" /\ lookup[l].oneNode =>
       \/ lookup[l].out \in Missing
       \/ MinedIn[lookup[l].out] \notin 1 .. lookup[l].height
       \/ SpentIn[lookup[l].out] \in 1 .. tip

\* The verdict on the panel says what no reading says any more, because the
\* lookup is gone: it must be true of the output by itself.
PageInv ==
  /\ PageTypeOK
  /\ \A l \in Lookups : ReadingHolds(l)
  /\ SpentIsSound
  /\ FoundWasNotSpent
  /\ LookupsAreAnswered

CallType == [phase : {"idle", "height", "row", "bitcoin"},
             out : Outpoints, height : 0 .. MaxHeight,
             node : Nodes, oneNode : BOOLEAN, picked : BOOLEAN]

\* A call as it starts, and an idle one, are well typed and have read nothing.
LEMMA CallFacts ==
  ASSUME NEW o \in Outpoints, NEW picked \in BOOLEAN
  PROVE  /\ Call(o, picked) \in CallType /\ Idle \in CallType
         /\ Call(o, picked).phase = "height" /\ Call(o, picked).out = o
         /\ Idle.phase = "idle"
<1>1. (CHOOSE n \in Nodes : TRUE) \in Nodes
  BY LookupAssumption
<1>2. Known \in Outpoints /\ 0 \in 0 .. MaxHeight
  BY LookupAssumption
<1>3. QED
  BY <1>1, <1>2 DEF Call, Idle, CallType

\* Bitcoin and the index only grow: what was read and said stays true.
LEMMA GrowthPreserves ==
  ASSUME PageInv, tip' \in 1 .. MaxHeight, tip <= tip',
         parsed' \in [Nodes -> 1 .. tip'], \A n \in Nodes : parsed[n] <= parsed'[n],
         UNCHANGED <<lookup, panel, checkDisabled, recent>>
  PROVE  PageInv'
<1> USE DEF PageInv, PageTypeOK
<1>1. PageTypeOK'
  OBVIOUS
<1>2. ASSUME NEW l \in Lookups PROVE ReadingHolds(l)'
  <2>1. ReadingHolds(l) /\ lookup'[l] = lookup[l] /\ lookup[l] \in CallType
    BY DEF CallType
  <2>2. lookup[l].node \in Nodes /\ lookup[l].height \in Nat /\ lookup[l].out \in Outpoints
    BY <2>1 DEF CallType
  <2>3. lookup[l].phase = "row" => lookup[l].height <= parsed'[lookup[l].node]
    BY <2>1, <2>2 DEF ReadingHolds
  <2>4. SpentIn[lookup[l].out] \in 1 .. tip => SpentIn[lookup[l].out] \in 1 .. tip'
    OBVIOUS
  <2>5. QED
    BY <2>1, <2>3, <2>4 DEF ReadingHolds
<1>3. SpentIsSound' /\ FoundWasNotSpent' /\ LookupsAreAnswered'
  BY DEF SpentIsSound, FoundWasNotSpent, LookupsAreAnswered
<1>4. QED
  BY <1>1, <1>2, <1>3

\* A lookup that starts shows what it looks up and disables the button.
LEMMA BeginPreserves ==
  ASSUME PageInv, NEW l \in Lookups, NEW o \in Outpoints, NEW picked \in BOOLEAN,
         Begin(l, o, picked), recent' \in {"ready", "picking", "looking"}
  PROVE  PageInv'
<1> USE DEF PageInv
<1>1. lookup' = [lookup EXCEPT ![l] = Call(o, picked)] /\ UNCHANGED <<tip, parsed>>
  BY DEF Begin, indexVars
<1>2. panel' = Says("looking", o) /\ checkDisabled' = TRUE
  BY DEF Begin
<1>3. PageTypeOK'
  <2>1. lookup' \in [Lookups -> CallType]
    BY <1>1, CallFacts DEF PageTypeOK, CallType
  <2>2. panel' \in [kind : Verdicts \cup {"empty", "looking", "malformed", "norecent"},
                    out : Outpoints, height : 0 .. MaxHeight, oneNode : BOOLEAN]
    BY <1>2, LookupAssumption DEF Says
  <2>3. QED
    BY <1>1, <1>2, <2>1, <2>2 DEF PageTypeOK, CallType
<1>4. lookup'[l].phase = "height" /\ lookup'[l].out = o
  BY <1>1, CallFacts DEF PageTypeOK
<1>5. ASSUME NEW k \in Lookups PROVE ReadingHolds(k)'
  <2>1. CASE k = l
    BY <1>4, <2>1 DEF ReadingHolds
  <2>2. CASE k # l
    BY <1>1, <2>2 DEF ReadingHolds, PageTypeOK
  <2>3. QED
    BY <2>1, <2>2
<1>6. SpentIsSound' /\ FoundWasNotSpent'
  BY <1>2 DEF Says, SpentIsSound, FoundWasNotSpent
<1>7. LookupsAreAnswered'
  BY <1>2, <1>4 DEF Says, LookupsAreAnswered
<1>8. QED
  BY <1>3, <1>5, <1>6, <1>7

\* A read that goes on leaves the lookup under way, with the same output.
LEMMA GoesOnPreserves ==
  ASSUME PageInv, NEW l \in Lookups, NEW call \in CallType, GoesOn(l, call),
         lookup[l].phase # "idle", call.phase # "idle", call.out = lookup[l].out,
         ReadingHolds(l)'
  PROVE  PageInv'
<1> USE DEF PageInv
<1>1. /\ lookup' = [lookup EXCEPT ![l] = call]
      /\ UNCHANGED <<tip, parsed, panel, checkDisabled, recent>>
  BY DEF GoesOn, indexVars
<1>2. PageTypeOK'
  BY <1>1 DEF PageTypeOK, CallType
<1>3. ASSUME NEW k \in Lookups PROVE ReadingHolds(k)'
  <2>1. CASE k # l
    BY <1>1, <2>1 DEF ReadingHolds, PageTypeOK
  <2>2. QED
    BY <2>1
<1>4. lookup'[l] = call /\ \A k \in Lookups : k # l => lookup'[k] = lookup[k]
  BY <1>1 DEF PageTypeOK
<1>5. SpentIsSound' /\ FoundWasNotSpent'
  BY <1>1 DEF SpentIsSound, FoundWasNotSpent
<1>6. LookupsAreAnswered'
  BY <1>1, <1>4 DEF LookupsAreAnswered
<1>7. QED
  BY <1>2, <1>3, <1>5, <1>6

\* A lookup that ends with a true verdict leaves the page in order.
LEMMA EndsPreserves ==
  ASSUME PageInv, NEW l \in Lookups, NEW kind \in Verdicts, NEW oneNode \in BOOLEAN,
         Ends(l, kind, oneNode),
         kind = "spent" /\ oneNode =>
           lookup[l].out \in Missing \/ SpentIn[lookup[l].out] \in 1 .. tip,
         kind = "found" /\ oneNode => SpentIn[lookup[l].out] \notin 1 .. lookup[l].height
  PROVE  PageInv'
<1> USE DEF PageInv
<1>1. /\ lookup' = [lookup EXCEPT ![l] = Idle]
      /\ checkDisabled' = FALSE
      /\ UNCHANGED <<tip, parsed>>
      /\ recent' = IF lookup[l].picked THEN "ready" ELSE recent
  BY DEF Ends, indexVars
<1>2. panel' = [kind |-> kind, out |-> lookup[l].out,
                height |-> lookup[l].height, oneNode |-> oneNode]
  BY DEF Ends
<1>3. Idle \in CallType /\ Idle.phase = "idle"
  BY CallFacts, LookupAssumption
<1>4. PageTypeOK'
  <2>1. lookup[l].out \in Outpoints /\ lookup[l].height \in 0 .. MaxHeight
    BY DEF PageTypeOK
  <2>2. lookup' \in [Lookups -> CallType]
    BY <1>1, <1>3 DEF PageTypeOK, CallType
  <2>3. panel' \in [kind : Verdicts \cup {"empty", "looking", "malformed", "norecent"},
                    out : Outpoints, height : 0 .. MaxHeight, oneNode : BOOLEAN]
    BY <1>2, <2>1
  <2>4. recent' \in {"ready", "picking", "looking"}
    BY <1>1 DEF PageTypeOK
  <2>5. QED
    BY <1>1, <2>2, <2>3, <2>4 DEF PageTypeOK, CallType
<1>5. ASSUME NEW k \in Lookups PROVE ReadingHolds(k)'
  <2>1. CASE k = l
    BY <1>1, <1>3, <2>1 DEF ReadingHolds, PageTypeOK
  <2>2. CASE k # l
    BY <1>1, <2>2 DEF ReadingHolds, PageTypeOK
  <2>3. QED
    BY <2>1, <2>2
<1>6. SpentIsSound' /\ FoundWasNotSpent'
  BY <1>1, <1>2 DEF SpentIsSound, FoundWasNotSpent
<1>7. LookupsAreAnswered'
  BY <1>1, <1>2 DEF LookupsAreAnswered, Verdicts
<1>8. QED
  BY <1>4, <1>5, <1>6, <1>7

\* A message of the page itself is no verdict.
LEMMA SaysPreserves ==
  ASSUME PageInv, NEW kind \in {"malformed", "norecent"}, panel' = Says(kind, Known),
         UNCHANGED <<indexVars, lookup, checkDisabled>>,
         recent' \in {"ready", "picking", "looking"}
  PROVE  PageInv'
<1> USE DEF PageInv, indexVars
<1>1. panel' \in [kind : Verdicts \cup {"empty", "looking", "malformed", "norecent"},
                  out : Outpoints, height : 0 .. MaxHeight, oneNode : BOOLEAN]
  BY LookupAssumption DEF Says
<1>2. PageTypeOK'
  BY <1>1 DEF PageTypeOK
<1>3. \A l \in Lookups : ReadingHolds(l)'
  BY DEF ReadingHolds
<1>4. SpentIsSound' /\ FoundWasNotSpent' /\ LookupsAreAnswered'
  BY DEF Says, SpentIsSound, FoundWasNotSpent, LookupsAreAnswered
<1>5. QED
  BY <1>2, <1>3, <1>4

\* The height comes first, from a node that has parsed it.
LEMMA HeightReadPreserves ==
  ASSUME PageInv, NEW l \in Lookups, HeightRead(l)
  PROVE  PageInv'
<1>1. PICK n \in Nodes :
        GoesOn(l, [lookup[l] EXCEPT !.phase = "row", !.height = parsed[n], !.node = n])
  BY DEF HeightRead
<1> DEFINE call == [lookup[l] EXCEPT !.phase = "row", !.height = parsed[n], !.node = n]
<1>2. lookup[l] \in CallType /\ lookup[l].phase = "height"
  BY DEF PageInv, PageTypeOK, CallType, HeightRead
<1>3. parsed[n] \in 0 .. MaxHeight /\ parsed[n] <= parsed[n]
  BY LookupAssumption DEF PageInv, PageTypeOK
<1>4. /\ call \in CallType /\ call.phase = "row" /\ call.out = lookup[l].out
      /\ call.height = parsed[n] /\ call.node = n
  BY <1>2, <1>3 DEF CallType
<1> HIDE DEF call
<1>5. lookup'[l] = call /\ parsed' = parsed
  BY <1>1 DEF call, GoesOn, indexVars, PageInv, PageTypeOK
<1>6. ReadingHolds(l)'
  BY <1>3, <1>4, <1>5 DEF ReadingHolds
<1>7. GoesOn(l, call)
  BY <1>1 DEF call
<1>8. QED
  BY <1>2, <1>4, <1>6, <1>7, GoesOnPreserves

\* The row comes second: what the same node does not hold by now was missing,
\* is newer than the height, or has been spent.
LEMMA RowReadPreserves ==
  ASSUME PageInv, NEW l \in Lookups, RowRead(l)
  PROVE  PageInv'
<1>1. PICK n \in Nodes :
        IF Unspent(lookup[l].out, parsed[n])
          THEN Ends(l, "found", n = lookup[l].node)
          ELSE GoesOn(l, [lookup[l] EXCEPT !.phase = "bitcoin",
                                           !.oneNode = n = lookup[l].node, !.node = Idle.node])
  BY DEF RowRead
<1> DEFINE o == lookup[l].out
           h == lookup[l].height
           same == n = lookup[l].node
<1>2. lookup[l] \in CallType /\ lookup[l].phase = "row"
  BY DEF PageInv, PageTypeOK, CallType, RowRead
<1>3. o \in Outpoints /\ h \in Nat /\ tip \in Nat /\ parsed[n] \in 1 .. tip
  BY <1>2, LookupAssumption DEF CallType, PageInv, PageTypeOK
<1>4. MinedIn[o] \in Nat /\ SpentIn[o] \in Nat
  BY <1>3, LookupAssumption
<1>5. same => h <= parsed[n]
  BY <1>2 DEF PageInv, ReadingHolds
<1>6. CASE Unspent(o, parsed[n])
  <2>1. Ends(l, "found", same)
    BY <1>1, <1>6
  <2>2. same => SpentIn[o] \notin 1 .. h
    BY <1>3, <1>4, <1>5, <1>6 DEF Unspent
  <2>3. "found" \in Verdicts /\ same \in BOOLEAN
    BY DEF Verdicts
  <2>4. QED
    BY <2>1, <2>2, <2>3, EndsPreserves
<1>7. CASE ~Unspent(o, parsed[n])
  <2> DEFINE call == [lookup[l] EXCEPT !.phase = "bitcoin", !.oneNode = same,
                                       !.node = Idle.node]
  <2>1. GoesOn(l, call)
    BY <1>1, <1>7
  <2>2. Idle.node \in Nodes
    BY CallFacts, LookupAssumption DEF CallType
  <2>3. /\ call \in CallType /\ call.phase = "bitcoin" /\ call.out = o
        /\ call.height = h /\ call.oneNode = same
    BY <1>2, <2>2 DEF CallType
  <2> HIDE DEF call
  <2>4. lookup'[l] = call /\ tip' = tip
    BY <2>1 DEF GoesOn, indexVars, PageInv, PageTypeOK
  <2>5. same => o \in Missing \/ MinedIn[o] \notin 1 .. h \/ SpentIn[o] \in 1 .. tip
    BY <1>3, <1>4, <1>5, <1>7 DEF Unspent
  <2>6. ReadingHolds(l)'
    BY <2>3, <2>4, <2>5 DEF ReadingHolds
  <2>7. QED
    BY <1>2, <2>1, <2>3, <2>6, GoesOnPreserves
<1>8. QED
  BY <1>6, <1>7

\* Bitcoin's answer turns "not in the set" into a verdict.
LEMMA BitcoinAnswersPreserves ==
  ASSUME PageInv, NEW l \in Lookups, BitcoinAnswers(l)
  PROVE  PageInv'
<1> DEFINE o == lookup[l].out
           h == lookup[l].height
<1>1. lookup[l] \in CallType /\ lookup[l].phase = "bitcoin"
  BY DEF PageInv, PageTypeOK, CallType, BitcoinAnswers
<1>2. o \in Outpoints /\ h \in Nat /\ tip \in Nat /\ lookup[l].oneNode \in BOOLEAN
  BY <1>1 DEF CallType, PageInv, PageTypeOK
<1>3. MinedIn[o] \in Nat
  BY <1>2, LookupAssumption
<1>4. PICK kind \in {"unknown", "unseen", "unconfirmed", "newer", "spent"} :
        /\ Ends(l, kind, lookup[l].oneNode)
        /\ kind = "spent" => MinedIn[o] \in 1 .. tip /\ ~(MinedIn[o] > h)
  BY DEF BitcoinAnswers
<1>5. kind = "spent" /\ lookup[l].oneNode => o \in Missing \/ SpentIn[o] \in 1 .. tip
  BY <1>1, <1>2, <1>3, <1>4 DEF PageInv, ReadingHolds
<1>6. kind \in Verdicts /\ kind # "found"
  BY <1>4 DEF Verdicts
<1>7. QED
  BY <1>2, <1>4, <1>5, <1>6, EndsPreserves

\* No node answers.
LEMMA ReadFailsPreserves ==
  ASSUME PageInv, NEW l \in Lookups, ReadFails(l)
  PROVE  PageInv'
<1>1. Ends(l, "failed", TRUE) /\ "failed" \in Verdicts
  BY DEF ReadFails, Verdicts
<1>2. QED
  BY <1>1, EndsPreserves

\* Every step of the page, of Bitcoin and of the index.
LEMMA NextPreserves ==
  ASSUME PageInv, PageNext
  PROVE  PageInv'
<1> USE DEF PageInv
<1>1. CASE Mine
  BY <1>1, LookupAssumption, GrowthPreserves DEF Mine, PageTypeOK
<1>2. ASSUME NEW n \in Nodes, Parse(n) PROVE PageInv'
  BY <1>2, LookupAssumption, GrowthPreserves DEF Parse, PageTypeOK
<1>3. CASE ClickCheckMalformed
  BY <1>3, SaysPreserves DEF ClickCheckMalformed, PageTypeOK
<1>4. CASE PickFails
  BY <1>4, SaysPreserves DEF PickFails
<1>5. CASE ClickRecent
  BY <1>5 DEF ClickRecent, indexVars, PageTypeOK, ReadingHolds, SpentIsSound,
              FoundWasNotSpent, LookupsAreAnswered
<1>6. ASSUME NEW l \in Lookups, NEW o \in Outpoints,
             ClickCheck(l, o) \/ ClickKnown(l) \/ OpenLink(l, o) \/ PickRecent(l, o)
      PROVE  PageInv'
  BY <1>6, LookupAssumption, BeginPreserves
     DEF ClickCheck, ClickKnown, OpenLink, PickRecent, PageTypeOK
<1>7. ASSUME NEW l \in Lookups, ClickKnown(l)
      PROVE  PageInv'
  BY <1>6, <1>7, LookupAssumption
<1>8. QED
  BY <1>1, <1>2, <1>3, <1>4, <1>5, <1>6, <1>7, HeightReadPreserves, RowReadPreserves,
     BitcoinAnswersPreserves, ReadFailsPreserves DEF PageNext

\* The page opens with an empty panel and nothing under way.
LEMMA InitHolds == PageInit => PageInv
<1> SUFFICES ASSUME PageInit PROVE PageInv
  OBVIOUS
<1>1. Idle \in CallType /\ Idle.phase = "idle"
  BY CallFacts, LookupAssumption
<1>2. lookup \in [Lookups -> CallType] /\ \A l \in Lookups : lookup[l].phase = "idle"
  BY <1>1 DEF PageInit
<1>3. panel.kind = "empty"
  BY DEF PageInit, Says
<1>4. panel \in [kind : Verdicts \cup {"empty", "looking", "malformed", "norecent"},
                 out : Outpoints, height : 0 .. MaxHeight, oneNode : BOOLEAN]
  BY LookupAssumption DEF PageInit, Says
<1>5. PageTypeOK
  BY <1>2, <1>4 DEF PageInit, PageTypeOK, CallType
<1>6. QED
  BY <1>2, <1>3, <1>5 DEF PageInit, PageInv, ReadingHolds, SpentIsSound,
                          FoundWasNotSpent, LookupsAreAnswered

LEMMA PageInvariant == PageSpec => []PageInv
<1>1. PageInv /\ [PageNext]_pageVars => PageInv'
  <2> SUFFICES ASSUME PageInv, [PageNext]_pageVars PROVE PageInv'
    OBVIOUS
  <2>1. CASE PageNext
    BY <2>1, NextPreserves
  <2>2. CASE UNCHANGED pageVars
    BY <2>2 DEF pageVars, indexVars, PageInv, PageTypeOK, ReadingHolds, SpentIsSound,
                FoundWasNotSpent, LookupsAreAnswered
  <2>3. QED
    BY <2>1, <2>2
<1>2. QED
  BY <1>1, InitHolds, PTL DEF PageSpec

\* Every variable of the page keeps its type.
THEOREM PageTypeCorrect == PageSpec => []PageTypeOK
<1>1. PageInv => PageTypeOK
  BY DEF PageInv
<1>2. QED
  BY <1>1, PageInvariant, PTL

\* "Spent" is said of no output that is unspent, for any number of overlapping
\* lookups and however far the index has moved on.
THEOREM SpentIsAlwaysSound == PageSpec => []SpentIsSound
<1>1. PageInv => SpentIsSound
  BY DEF PageInv
<1>2. QED
  BY <1>1, PageInvariant, PTL

\* What is found was unspent at the height it is dated to.
THEOREM FoundIsAlwaysSound == PageSpec => []FoundWasNotSpent
<1>1. PageInv => FoundWasNotSpent
  BY DEF PageInv
<1>2. QED
  BY <1>1, PageInvariant, PTL

\* "Looking it up" is shown only while a lookup of that output is under way.
THEOREM LookupsAreAlwaysAnswered == PageSpec => []LookupsAreAnswered
<1>1. PageInv => LookupsAreAnswered
  BY DEF PageInv
<1>2. QED
  BY <1>1, PageInvariant, PTL

=============================================================================
