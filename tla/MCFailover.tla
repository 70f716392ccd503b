----------------------------- MODULE MCFailover -----------------------------
(* Every list of up to three attempts over two accounts, one with an exchanged *)
(* OAuth token and one with a plain key, for a streamed and an unstreamed      *)
(* request.                                                                    *)
EXTENDS Failover

MCAccounts == {"c", "k"}
MCAnswers  == Statuses

=============================================================================
