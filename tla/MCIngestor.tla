----------------------------- MODULE MCIngestor -----------------------------
(***************************************************************************)
(* Model values and chain shapes for checking Ingestor with TLC.           *)
(***************************************************************************)
EXTENDS Ingestor

CONSTANTS Seawater, Other

MCEmitters == {Seawater, Other}

\* Every chain the node could serve.
AnyChain(c) == TRUE

\* A chain on which IngestPolling never polls a range without a tracked log
\* while a later tracked log exists: from the checkpoint (0 or a block with a
\* log) the next Min(Paginations) blocks hold a log whenever a later block does.
NoEmptyRangeBeforeALog(c) ==
  \A s \in {0} \cup { b \in Blocks : c[b] # NoLog } :
    (\E b \in Blocks : b > s + Min(Paginations) /\ c[b] # NoLog)
      => \E b \in s + 1 .. s + Min(Paginations) : b \in Blocks /\ c[b] # NoLog
=============================================================================
