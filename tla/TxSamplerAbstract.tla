------------------------ MODULE TxSamplerAbstract ------------------------
(***************************************************************************)
(* What the Solana exporter promises about solana_transaction_count        *)
(* ('Total transaction count') and solana_tps ('Transactions per second'), *)
(* with no rounds, timers or RPC calls: the published count is a count    *)
(* the cluster has reached, it only moves forward, and the rate is either *)
(* kept or set to the growth between the last two published counts.      *)
(* SolanaExporter implements it for an RPC URL served by one node:        *)
(* SolanaExporterProofs gives the refinement mapping.                     *)
(***************************************************************************)
EXTENDS Integers

VARIABLES
    chain,   \* the cluster's transaction count
    count,   \* the published transaction count
    rate     \* the published rate, as the count growth it divides

svars == <<chain, count, rate>>

Init ==
    /\ chain = 0
    /\ count = 0
    /\ rate = 0

\* The cluster processes a transaction.
Advance ==
    /\ chain' = chain + 1
    /\ UNCHANGED <<count, rate>>

\* A new sample is published: a count between the last one and the
\* cluster's, and a rate that is unchanged or the growth since the last.
Sample ==
    /\ \E n \in count..chain :
         /\ count' = n
         /\ rate' \in {rate, n - count}
    /\ UNCHANGED chain

Next == Advance \/ Sample

Spec == Init /\ [][Next]_svars

=============================================================================
