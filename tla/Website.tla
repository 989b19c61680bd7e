-------------------------------- MODULE Website --------------------------------
(****************************************************************************)
(* The whole site on one database: forms and API clients that move money,   *)
(* administrators who freeze wallets, and a reader of the lists that grow   *)
(* while he turns the pages.                                                *)
(****************************************************************************)
EXTENDS WebForms, History

everything == <<tables, context, forms, reader>>

WebInit == TablesInit /\ FormsInit /\ HistoryInit

WebNext ==
    \/ FormsNext /\ UNCHANGED reader
    \/ HistoryNext /\ UNCHANGED forms

WebSpec == WebInit /\ [][WebNext]_everything

\* Forms and the reading have their types, on tables that have theirs.
WebOK == TablesOK /\ FormsOK /\ ReaderOK
=============================================================================
