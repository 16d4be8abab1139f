------------------------------ MODULE FactFeed ------------------------------
(***************************************************************************)
(* What the witness pipeline promises its consumers on Creditcoin: every   *)
(* fact recorded there repeats a reading that was taken while exSat's      *)
(* Bitcoin index held the output.  The promise is about the moment of the  *)
(* reading.  It says nothing of when, or how often, a reading is recorded: *)
(* the code checks neither.                                                *)
(***************************************************************************)
EXTENDS Integers, WitnessState

VARIABLE readings   \* the readings relayed so far

feedVars == <<now, utxos, readings, facts>>

Reading == [outpoint : Outpoints, height : 1 .. MaxHeight, readAt : 0 .. MaxTime]

Fact == [value : Nat, sourceHeight : Nat, provenAt : Nat, proven : BOOLEAN]

\* What a mapping entry nobody wrote holds.
Unproven == [value |-> 0, sourceHeight |-> 0, provenAt |-> 0, proven |-> FALSE]

FactOf(o, height, ts) ==
  [value |-> Sats[o], sourceHeight |-> height, provenAt |-> ts, proven |-> TRUE]

FeedInit ==
  /\ now = 0
  /\ utxos \in SUBSET Outpoints
  /\ readings = {}
  /\ facts = [o \in Outpoints |-> Unproven]

Tick ==
  /\ now < MaxTime
  /\ now' = now + 1
  /\ UNCHANGED <<utxos, readings, facts>>

\* A Bitcoin block creates the output or spends it, or a reorganisation takes
\* either back; the index follows.
IndexChange(o) ==
  /\ \/ utxos' = utxos \cup {o}
     \/ utxos' = utxos \ {o}
  /\ UNCHANGED <<now, readings, facts>>

Read(o, height) ==
  /\ o \in utxos
  /\ \A r \in readings : r.height < height
  /\ readings' = readings \cup {[outpoint |-> o, height |-> height, readAt |-> now]}
  /\ UNCHANGED <<now, utxos, facts>>

\* A reading may be recorded late, and again after a newer one.
Record(r) ==
  /\ facts' = [facts EXCEPT ![r.outpoint] = FactOf(r.outpoint, r.height, now)]
  /\ UNCHANGED <<now, utxos, readings>>

FeedNext ==
  \/ Tick
  \/ \E o \in Outpoints : IndexChange(o) \/ \E h \in 1 .. MaxHeight : Read(o, h)
  \/ \E r \in readings : Record(r)

FeedSpec == FeedInit /\ [][FeedNext]_feedVars

=============================================================================
