----------------------------- MODULE Persistence -----------------------------
(***************************************************************************)
(* The durable state of one process: the Parquet store and the paper       *)
(* ledger.  The process is single-threaded, so one call is in progress at  *)
(* a time; a crash may fall between any two steps of it, and the next      *)
(* process finds the files as they are.                                    *)
(***************************************************************************)
EXTENDS ParquetStore, PaperLedger

CONSTANT MaxCalls       \* bound: writes and sessions

ASSUME PersistenceAssumption == MaxCalls \in Nat

vars == <<storeVars, ledgerVars>>

Init == StoreInit /\ LedgerInit

MayCall == writes + Len(lines) < MaxCalls

StoreStep ==
    /\ record.pc = "idle"
    /\ write.pc = "idle" => MayCall
    /\ StoreNext
    /\ UNCHANGED ledgerVars

LedgerStep ==
    /\ write.pc = "idle"
    /\ record.pc = "idle" => MayCall
    /\ LedgerNext
    /\ UNCHANGED storeVars

Next == StoreStep \/ LedgerStep

Spec == Init /\ [][Next]_vars
==============================================================================
