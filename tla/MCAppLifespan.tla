---------------------------- MODULE MCAppLifespan ----------------------------
(***************************************************************************)
(* AppLifespan with the tables of migration 0001.                          *)
(***************************************************************************)
EXTENDS AppLifespan

AllTables == <<"users", "table_policies", "audit_logs", "error_reports">>
=============================================================================
