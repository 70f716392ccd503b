----------------------------- MODULE MCRouting -----------------------------
(* Two requests over three accounts, any of which may become a standby, be     *)
(* switched off or be spent, and one of which serves level variants, in         *)
(* conversations that do not all fit the table.                                *)
EXTENDS Routing, TLC

MCAccounts == {"a", "b", "c"}
MCOrder    == <<"a", "b", "c">>

\* The requests are alike and so are the conversations.
MCAlike == Permutations(Requests) \cup Permutations(Sessions)

=============================================================================
