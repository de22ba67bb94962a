---------------------------- MODULE IngestMirror ----------------------------
(***************************************************************************)
(* What the log ingestor promises, with no process, crash or transaction   *)
(* in sight: the database is a mirror of the chain's wanted logs up to a   *)
(* checkpoint, and the checkpoint only ever moves forward, to a block the  *)
(* chain has produced, adding each wanted log of the blocks it passes      *)
(* exactly once.  Ingestor refines this specification.                     *)
(***************************************************************************)
EXTENDS Naturals

CONSTANTS
  MaxBlock,     \* the chain produces blocks 1..MaxBlock
  LogValues,    \* what a block may hold (a log or the absence of one)
  Wanted(_)     \* whether the log value held by a block belongs in the database

VARIABLES chain, head, checkpoint, db

Blocks == 1..MaxBlock

Init ==
  /\ chain \in [Blocks -> LogValues]
  /\ head = 0
  /\ checkpoint = 0
  /\ db = [b \in Blocks |-> 0]

\* The chain produces its next block.
Produce ==
  /\ head < MaxBlock
  /\ head' = head + 1
  /\ UNCHANGED <<chain, checkpoint, db>>

\* The mirror moves its checkpoint forward to a produced block c, recording
\* every wanted log of the blocks it passes, each of them for the first time.
Advance ==
  \E c \in checkpoint + 1 .. head :
    /\ \A b \in checkpoint + 1 .. c : db[b] = 0
    /\ checkpoint' = c
    /\ db' = [b \in Blocks |->
                IF b \in checkpoint + 1 .. c /\ Wanted(chain[b]) THEN 1 ELSE db[b]]
    /\ UNCHANGED <<chain, head>>

Next == Produce \/ Advance

Spec == Init /\ [][Next]_<<chain, head, checkpoint, db>>
=============================================================================
