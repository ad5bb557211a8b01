----------------------------- MODULE MCUpgrade -----------------------------
(* Small instances of Upgrade for TLC. *)
EXTENDS UpgradeHandover

MCHistorical == {1, 2}
MCCustomLoot == {<<"gear", "CustomLoot">>}

Settings1 == [k \in Keys |-> IF k = "airdrop_multipliers" THEN 30 ELSE 20]
Settings2 == [k \in Keys |-> IF k = "airdrop_multipliers" THEN 0 ELSE Null]

\* The first historical row in every state, the second waiting.
MCOlds ==
  {[version |-> v, applied |-> <<a, FALSE>>, status |-> <<s, "NONE">>, config |-> c, loot |-> l] :
     v \in {"1.3.6", "1.3.7"}, a \in BOOLEAN, s \in ReceiptStatus, c \in {Settings1, Settings2},
     l \in {MCCustomLoot, OldLoot \cup MCCustomLoot}}
  \cup {[version |-> "fresh", applied |-> <<FALSE, FALSE>>, status |-> <<"NONE", "NONE">>,
         config |-> [k \in Keys |-> Null], loot |-> {}]}
=============================================================================
