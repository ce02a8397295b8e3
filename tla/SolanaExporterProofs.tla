------------------------ MODULE SolanaExporterProofs ------------------------
(***************************************************************************)
(* Proofs about the Solana exporter: every gauge keeps its kind, and, for *)
(* an RPC URL served by one node, solana_tps is never negative, whatever  *)
(* the values of the constants.                                           *)
(***************************************************************************)
EXTENDS SolanaExporter, TLAPS

USE ExporterAssumption

\* The inductive invariant: last_tx_count was read from the cluster, so
\* it is at most its count, and an answer in flight was read after it.
\* Only then is the next difference at line 103 non-negative.  The
\* published count is last_tx_count: lines 98-99 and 106 set both.
EInv ==
    /\ TypeOK
    /\ gauge["tx"] = last_tx_count
    /\ last_tx_count <= chain
    /\ co["tx"] = "served" => txAnswer <= chain
    /\ ~NodeCanLag =>
          /\ co["tx"] = "served" => last_tx_count <= txAnswer
          /\ tps.num >= 0

LEMMA InitEInv == Init => EInv
BY DEF Init, EInv, TypeOK, Zero, Gauges

\* Every step keeps the variables typed.
LEMMA NextTypeOK == TypeOK /\ [Next]_vars => TypeOK'
<1> SUFFICES ASSUME TypeOK, [Next]_vars PROVE TypeOK'
  OBVIOUS
<1>1. ASSUME NEW c \in Collectors, Answer(c) PROVE TypeOK'
  BY <1>1 DEF Answer, Finish, TypeOK, Gauges, Collectors
<1>2. ASSUME NEW c \in Collectors, Fail(c) PROVE TypeOK'
  BY <1>2 DEF Fail, Failed, HealthDone, Latency, Finish, TypeOK, Gauges
<1>3. ASSUME NEW c \in Collectors, TimedOut(c) PROVE TypeOK'
  BY <1>3 DEF TimedOut, Failed, HealthDone, Latency, Finish, TypeOK, Gauges
<1>4. CASE ServeTx
  BY <1>4 DEF ServeTx, Answers, TypeOK, Collectors
<1>12. CASE AnswerValidators
  BY <1>12 DEF AnswerValidators, Finish, TypeOK, Gauges, Collectors
<1>5. CASE DeliverTx
  <2>1. tps' \in [num : -MaxCount..MaxCount, den : 1..TimeCap]
    BY <1>5 DEF DeliverTx, Rate, TypeOK
  <2>2. QED
    BY <1>5, <2>1 DEF DeliverTx, Finish, TypeOK, Gauges, Collectors
<1>6. CASE HealthAnswered
  BY <1>6 DEF HealthAnswered, HealthDone, Latency, Finish, TypeOK, Gauges,
             Collectors
<1>7. CASE Gathered
  BY <1>7 DEF Gathered, TypeOK
<1>8. CASE Wake
  BY <1>8 DEF Wake, TypeOK
<1>9. CASE Tick
  BY <1>9 DEF Tick, TypeOK
<1>10. CASE UNCHANGED vars
  BY <1>10 DEF vars, TypeOK
<1>11. QED
  BY <1>1, <1>2, <1>3, <1>4, <1>5, <1>6, <1>7, <1>8, <1>9, <1>10, <1>12
  DEF Next

LEMMA NextEInv == EInv /\ [Next]_vars => EInv'
<1> SUFFICES ASSUME EInv, [Next]_vars PROVE EInv'
  OBVIOUS
<1>1. TypeOK'
  BY NextTypeOK DEF EInv
<1>2. ASSUME NEW c \in Collectors, Answer(c) \/ Fail(c) \/ TimedOut(c)
      PROVE EInv'
  <2>1. UNCHANGED <<chain, txAnswer, tps, last_tx_count>>
    BY <1>2 DEF Answer, Fail, TimedOut
  <2>2. co' = [co EXCEPT ![c] = "done"]
    BY <1>2 DEF Answer, Fail, TimedOut, Failed, HealthDone, Finish
  <2>3. co'["tx"] \in {co["tx"], "done"}
    BY <2>2 DEF EInv, TypeOK, Collectors
  <2>4. co'["tx"] = "served" => co["tx"] = "served"
    BY <2>3
  <2>5. gauge'["tx"] = gauge["tx"]
    BY <1>2 DEF Answer, Fail, TimedOut, Failed, HealthDone, EInv, TypeOK,
                Gauges
  <2>6. QED
    BY <1>1, <2>1, <2>4, <2>5 DEF EInv
<1>11. CASE AnswerValidators
  <2>1. UNCHANGED <<chain, txAnswer, tps, last_tx_count>>
    BY <1>11 DEF AnswerValidators
  <2>2. co'["tx"] = co["tx"] /\ gauge'["tx"] = gauge["tx"]
    BY <1>11 DEF AnswerValidators, Finish, EInv, TypeOK, Gauges
  <2>3. QED
    BY <1>1, <2>1, <2>2 DEF EInv
<1>3. CASE ServeTx
  <2>1. txAnswer' <= chain /\ (~NodeCanLag => last_tx_count <= txAnswer')
    BY <1>3 DEF ServeTx, Answers, EInv, TypeOK
  <2>2. QED
    BY <1>1, <1>3, <2>1 DEF ServeTx, EInv
<1>4. CASE DeliverTx
  <2>1. txAnswer <= chain /\ (~NodeCanLag => last_tx_count <= txAnswer)
    BY <1>4 DEF DeliverTx, EInv
  <2>2. ~NodeCanLag => tps'.num >= 0
    BY <1>4, <2>1 DEF DeliverTx, Rate, EInv, TypeOK
  <2>3. co'["tx"] = "done"
    BY <1>4 DEF DeliverTx, Finish, EInv, TypeOK, Collectors
  <2>4. gauge'["tx"] = last_tx_count'
    BY <1>4 DEF DeliverTx, EInv, TypeOK, Gauges
  <2>5. QED
    BY <1>1, <1>4, <2>1, <2>2, <2>3, <2>4 DEF DeliverTx, EInv, TypeOK
<1>5. CASE HealthAnswered
  <2>1. co'["tx"] = co["tx"] /\ gauge'["tx"] = gauge["tx"]
    BY <1>5 DEF HealthAnswered, HealthDone, Finish, EInv, TypeOK, Gauges
  <2>2. QED
    BY <1>1, <1>5, <2>1 DEF HealthAnswered, EInv
<1>6. CASE Gathered
  BY <1>1, <1>6 DEF Gathered, EInv
<1>7. CASE Wake
  <2>1. co'["tx"] = "wait"
    BY <1>7 DEF Wake, Collectors
  <2>2. QED
    BY <1>1, <1>7, <2>1 DEF Wake, EInv
<1>8. CASE Tick
  <2>1. chain <= chain' /\ UNCHANGED <<co, txAnswer, gauge, tps, last_tx_count>>
    BY <1>8 DEF Tick, EInv, TypeOK
  <2>2. QED
    BY <1>1, <2>1 DEF EInv, TypeOK
<1>9. CASE UNCHANGED vars
  BY <1>9 DEF vars, EInv, TypeOK
<1>10. QED
  BY <1>2, <1>11, <1>3, <1>4, <1>5, <1>6, <1>7, <1>8, <1>9 DEF Next

\* For every bound, interval and timeout, last_tx_count and an answer in
\* flight never exceed the cluster's count, and with one node the answer
\* in flight is never below last_tx_count and solana_tps never negative.
THEOREM EInvHolds == Spec => []EInv
BY InitEInv, NextEInv, PTL DEF Spec

\* The exporter's gauges and counters always hold values of their kind:
\* in particular solana_tps is only ever set by a division by a positive
\* time_diff (lines 101-104).
THEOREM ExporterTypeCorrect == Spec => []TypeOK
<1>1. Init => TypeOK
  BY InitEInv DEF EInv
<1>2. QED
  BY <1>1, NextTypeOK, PTL DEF Spec

\* For an RPC URL served by one node, the rate collect_transaction_count
\* sets at line 104 is never negative: each getTransactionCount is sent
\* after the previous one was applied, so the counts it subtracts grow.
THEOREM TpsNonNegativeHolds == ~NodeCanLag => (Spec => []TpsNonNegative)
<1> SUFFICES ASSUME ~NodeCanLag PROVE Spec => []TpsNonNegative
  OBVIOUS
<1>1. EInv => TpsNonNegative
  BY DEF EInv, TpsNonNegative
<1>2. QED
  BY <1>1, InitEInv, NextEInv, PTL DEF Spec
-----------------------------------------------------------------------------
(* Refinement: with one node, the exporter implements TxSamplerAbstract.  *)
(* The published count is the solana_transaction_count gauge and the rate *)
(* is the numerator of solana_tps.                                         *)

Smp == INSTANCE TxSamplerAbstract WITH count <- gauge["tx"], rate <- tps.num

\* solana_transaction_count is only ever set to a count the cluster has
\* reached and never moves back, and solana_tps is only ever set from the
\* growth between two successive published counts, however the five
\* collectors, their timeouts and the sleeps interleave.
TxSampling == Smp!Spec

LEMMA InitSamples == Init => Smp!Init
BY DEF Init, Smp!Init, Zero, Gauges

LEMMA NextSamples ==
    ASSUME ~NodeCanLag, EInv, [Next]_vars PROVE [Smp!Next]_Smp!svars
<1> USE DEF EInv
<1>0. gauge \in [Gauges -> Nat] /\ tps \in [num : Int, den : Int]
  BY DEF TypeOK
<1>1. CASE DeliverTx
  <2>1. txAnswer \in gauge["tx"]..chain
    BY <1>1 DEF DeliverTx, TypeOK
  <2>2. gauge'["tx"] = txAnswer /\ chain' = chain
    BY <1>1, <1>0 DEF DeliverTx, Gauges
  <2>3. tps'.num \in {tps.num, txAnswer - gauge["tx"]}
    BY <1>1 DEF DeliverTx, Rate
  <2>4. Smp!Sample
    BY <2>1, <2>2, <2>3 DEF Smp!Sample
  <2>5. QED
    BY <2>4 DEF Smp!Next
<1>2. CASE Tick
  <2>1. UNCHANGED <<gauge, tps>> /\ chain' \in {chain, chain + 1}
    BY <1>2 DEF Tick
  <2>2. CASE chain' = chain + 1
    BY <2>1, <2>2 DEF Smp!Next, Smp!Advance
  <2>3. CASE chain' = chain
    BY <2>1, <2>3 DEF Smp!svars
  <2>4. QED
    BY <2>1, <2>2, <2>3
<1>3. ASSUME NEW c \in Collectors, Answer(c) \/ Fail(c) \/ TimedOut(c)
      PROVE  UNCHANGED Smp!svars
  BY <1>3, <1>0 DEF Answer, Fail, TimedOut, Failed, HealthDone, Gauges,
                    Smp!svars
<1>4. CASE AnswerValidators \/ ServeTx \/ HealthAnswered \/ Gathered \/ Wake
  BY <1>4, <1>0 DEF AnswerValidators, ServeTx, HealthAnswered, HealthDone,
                    Gathered, Wake, Gauges, Smp!svars
<1>5. CASE UNCHANGED vars
  BY <1>5 DEF vars, Smp!svars
<1>6. QED
  BY <1>1, <1>2, <1>3, <1>4, <1>5 DEF Next

\* For an RPC URL served by one node, and every bound, interval and
\* timeout, the exporter implements TxSamplerAbstract: the published
\* transaction count is monotone and never ahead of the cluster, and the
\* published rate is the growth between two successive published counts.
THEOREM ExporterRefinesSampler == ~NodeCanLag => (Spec => TxSampling)
<1> SUFFICES ASSUME ~NodeCanLag PROVE Spec => TxSampling
  OBVIOUS
<1>1. EInv /\ [Next]_vars => [Smp!Next]_Smp!svars
  BY NextSamples
<1>2. QED
  BY <1>1, InitSamples, EInvHolds, PTL DEF Spec, TxSampling, Smp!Spec

=============================================================================
