------------------------------ MODULE PlayLedger ------------------------------
(***************************************************************************)
(* What a match promises the devices that play it: each device gets at most *)
(* one outcome per schedule revision, an outcome is never replaced, and     *)
(* when the schedule changes no outcome of the old revision counts and only *)
(* the new revision can be played. Whether a missed one then stays on       *)
(* record as missed, as the documents say, is left open here.               *)
(* FixtureLifecycle implements this specification.                          *)
(***************************************************************************)
EXTENDS Integers

CONSTANT Device

VARIABLES
  open,      \* the revision that can be played; 0 before the first one
  ledger     \* the outcome of each decided (device, revision)

ledgerVars == <<open, ledger>>

LedgerInit == open = 0 /\ ledger = [cell \in {} |-> "void"]

\* A device's outcome for the open revision is decided once.
Decide(device) ==
  /\ <<device, open>> \notin DOMAIN ledger
  /\ \E outcome \in {"played", "missed"} :
       ledger' = [cell \in DOMAIN ledger \cup {<<device, open>>} |->
                    IF cell = <<device, open>> THEN outcome ELSE ledger[cell]]
  /\ open' = open

\* The schedule changes: all that was played so far is void.
Reopen ==
  /\ open' = open + 1
  /\ ledger' \in [DOMAIN ledger -> {"missed", "void"}]
  /\ \A cell \in DOMAIN ledger : ledger[cell] # "missed" => ledger'[cell] = "void"

LedgerNext == Reopen \/ \E device \in Device : open > 0 /\ Decide(device)

LedgerSpec == LedgerInit /\ [][LedgerNext]_ledgerVars
===============================================================================
