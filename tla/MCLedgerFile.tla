---------------------------- MODULE MCLedgerFile ----------------------------
(* Small instances of LedgerFile for TLC. *)
EXTENDS LedgerFile

CONSTANTS a, b, c, d, f

FourRecords == {a, b, c, d}
OneForeign  == {f}
=============================================================================
