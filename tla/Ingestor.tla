------------------------------ MODULE Ingestor ------------------------------
(***************************************************************************)
(* The log ingestor (cmd/ingestor.logs.ethereum): one process that loops   *)
(* forever reading the durable checkpoint, fetching the tracked logs of    *)
(* the next block range, routing and decoding them, and storing them with  *)
(* the new checkpoint in one database transaction, then pulsing its        *)
(* heartbeat and sleeping.  Any error ends the process (setup.Exitf); a    *)
(* supervisor starts it again and it resumes from the durable checkpoint.  *)
(*                                                                         *)
(* The chain is a function from block numbers to the one tracked log a    *)
(* block holds (or NoLog); a log is abstracted to its topic0, its emitter  *)
(* and whether its topics and data decode.  The database keeps the         *)
(* checkpoint row and, per block, how many times that block's log was      *)
(* inserted into its events table.                                         *)
(***************************************************************************)
EXTENDS Naturals, FiniteSets, FiniteSetsExt, Topics

CONSTANTS
  MaxBlock,            \* the chain produces blocks 1..MaxBlock
  DefaultPaginationBlockCountMin,  \* main's bounds on the width of a polled range
  DefaultPaginationBlockCountMax,
  Topics,              \* the topic0 values of FilterTopics present in the model
  Emitters,            \* contract addresses that emit logs
  SeawaterAddr,        \* config.SeawaterAddr
  ThirdwebAddr,        \* SPN_THIRDWEB_ACCOUNT_FACTORY_ADDR
  LeoAddr,             \* SPN_LEO_ADDR
  BadPayloadEmitters,  \* emitters that may emit a log its decoder rejects
  BadPayloadTopics,    \* the topics such a log may carry
  NoLog,               \* a block without a tracked log
  MaxCrashes,          \* bound on the process exits that no log forces
  CallsMayHang,        \* whether a network call may never return
  ChainAllowed(_)      \* which chains the model explores

ASSUME
  /\ MaxBlock \in Nat \ {0}
  /\ DefaultPaginationBlockCountMin \in Nat
  /\ DefaultPaginationBlockCountMin < DefaultPaginationBlockCountMax
  /\ Topics \subseteq FilterTopics
  /\ {SeawaterAddr, ThirdwebAddr, LeoAddr} \subseteq Emitters
  /\ BadPayloadEmitters \subseteq Emitters
  /\ BadPayloadTopics \subseteq Topics
  /\ MaxCrashes \in Nat
  /\ CallsMayHang \in BOOLEAN

\* The values main's rand.Intn(DefaultPaginationBlockCountMax -
\* DefaultPaginationBlockCountMin) + DefaultPaginationBlockCountMin takes.
Paginations == DefaultPaginationBlockCountMin .. (DefaultPaginationBlockCountMax - 1)

\* Entry, then IngestPolling's check of the pagination: a width of 0 or
\* less panics and the process is down again; otherwise the loop starts.
IngestPollingStart(p) == IF p <= 0 THEN "down" ELSE "read"

Blocks == 1..MaxBlock

Logs ==
  { l \in [topic : Topics, emitter : Emitters, decodes : BOOLEAN] :
      ~l.decodes => l.topic \in FallibleTopics \cap BadPayloadTopics /\ l.emitter \in BadPayloadEmitters }

VARIABLES
  chain,       \* the logs of every block the chain will produce
  head,        \* the latest block the node has
  checkpoint,  \* ingestor_checkpointing_1.block_number (durable)
  db,          \* per block, the number of rows its log has in the events tables (durable)
  pc,          \* where the ingestor process is in its loop, or "down"
  from, to,    \* the block range of the current iteration
  fetched,     \* the blocks whose logs FilterLogs returned
  crashes,     \* how many exits not forced by a log have happened
  pagination   \* ingestorPagination, drawn by main at every start

vars == <<chain, head, checkpoint, db, pc, from, to, fetched, crashes, pagination>>
\* IngestBlockRange's locals are gone once it returns or the process exits.
ForgetRange == from' = 0 /\ to' = 0 /\ fetched' = {}

-----------------------------------------------------------------------------
(* Routing and decoding of one log (handleLogCallback, func.go).            *)

\* Whether a decoded log passes the emitter check and is handed to
\* databaseInsertLog; a log from the wrong emitter is skipped with a warning.
Accepted(l) ==
  /\ l.topic \in ThirdwebTopics => l.emitter = ThirdwebAddr
  /\ l.topic \in LeoTopics => l.emitter = LeoAddr
  /\ l.topic \in SeawaterTopics => l.emitter = SeawaterAddr

\* The unpack function for the log's topic returns no error.
Decodes(l) == l.decodes

\* The loop of IngestBlockRange's transaction: the biggest block number seen,
\* starting from `from`, and whether any log set it.
BiggestBlockNo(lo, blocks) == Max({lo} \cup blocks)
WasChanged(lo, blocks) == \E b \in blocks : lo <= b

\* Mutant: the decoded log is inserted whoever emitted it.
InsertedNoEmitterCheck(blocks) == blocks

\* The fetched blocks whose log handleLog inserts.
Inserted(blocks) == { b \in blocks : Accepted(chain[b]) }

\* Mutant: the checkpoint is saved as the end of the polled range.
NewCheckpointRangeEnd(lo, hi, blocks) ==
  IF WasChanged(lo, blocks) THEN hi ELSE checkpoint

\* Mutant: only a log that was inserted marks the checkpoint as changed.
NewCheckpointOnlyInserted(lo, hi, blocks) ==
  IF WasChanged(lo, Inserted(blocks)) THEN BiggestBlockNo(lo, Inserted(blocks))
                                      ELSE checkpoint

\* The checkpoint after the transaction over the range [lo, hi] that saw the
\* logs of `blocks`: updateCheckpoint runs only if a log was seen.
NewCheckpoint(lo, hi, blocks) ==
  IF WasChanged(lo, blocks) THEN BiggestBlockNo(lo, blocks) ELSE checkpoint

-----------------------------------------------------------------------------
Init ==
  /\ chain \in { c \in [Blocks -> Logs \cup {NoLog}] : ChainAllowed(c) }
  /\ head = 0
  /\ checkpoint = 0        \* an empty checkpoint table reads as block 0
  /\ db = [b \in Blocks |-> 0]
  /\ pc = "read"
  /\ from = 0 /\ to = 0 /\ fetched = {}
  /\ crashes = 0
  /\ pagination \in Paginations

\* The node imports the next block.
Produce ==
  /\ head < MaxBlock
  /\ head' = head + 1
  /\ UNCHANGED <<chain, checkpoint, db, pc, from, to, fetched, crashes, pagination>>

\* IngestPolling: read the checkpoint and compute the next range.
ReadCheckpoint ==
  /\ pc = "read"
  /\ from' = checkpoint + 1
  /\ to' = checkpoint + pagination
  /\ pc' = "filter"
  /\ UNCHANGED <<chain, head, checkpoint, db, fetched, crashes, pagination>>

\* Mutant: the range starts at the checkpoint's own block.
FilterLogsFromCheckpoint ==
  /\ pc = "filter"
  /\ fetched' = { b \in from - 1 .. to : b \in Blocks /\ b <= head /\ chain[b] # NoLog }
  /\ pc' = "commit"
  /\ UNCHANGED <<chain, head, checkpoint, db, from, to, crashes, pagination>>

\* IngestBlockRange: FilterLogs over [from, to] returns the tracked logs of
\* the blocks the node has.
FilterLogs ==
  /\ pc = "filter"
  /\ fetched' = { b \in from..to : b <= head /\ chain[b] # NoLog }
  /\ pc' = "commit"
  /\ UNCHANGED <<chain, head, checkpoint, db, from, to, crashes, pagination>>

\* IngestBlockRange: the db.Transaction.  Every fetched log is decoded in
\* order; one that fails rolls the whole transaction back and the process
\* exits.  Otherwise the accepted logs are inserted and, if any log was
\* seen, the checkpoint is saved as the biggest block number, all in one
\* commit.
Commit ==
  /\ pc = "commit"
  /\ IF \E b \in fetched : ~Decodes(chain[b])
       THEN /\ pc' = "down"
            /\ ForgetRange
            /\ UNCHANGED <<checkpoint, db>>
       ELSE /\ db' = [b \in Blocks |-> IF b \in Inserted(fetched) THEN db[b] + 1 ELSE db[b]]
            /\ checkpoint' = NewCheckpoint(from, to, fetched)
            /\ pc' = "sleep"
            /\ ForgetRange
  /\ UNCHANGED <<chain, head, crashes, pagination>>

\* IngestPolling: heartbeat.Pulse, then sleep before polling again.
PulseAndSleep ==
  /\ pc = "sleep"
  /\ pc' = "read"
  /\ UNCHANGED <<chain, head, checkpoint, db, from, to, fetched, crashes, pagination>>

\* setup.Exitf on a failed checkpoint read, FilterLogs or transaction, or the
\* process killed from outside: nothing volatile survives, and an open
\* transaction is rolled back.
Exit ==
  /\ pc # "down"
  /\ crashes < MaxCrashes
  /\ pc' = "down"
  /\ ForgetRange
  /\ crashes' = crashes + 1
  /\ UNCHANGED <<chain, head, checkpoint, db, pagination>>

\* A network call that never returns: FilterLogs runs with
\* context.Background() over HTTP, and heartbeat.Pulse's http.Get (when a
\* heartbeat URL is set) uses the default client; neither has a timeout.
\* The process neither exits nor moves on.
Hang ==
  /\ CallsMayHang
  /\ pc \in {"filter", "sleep"}
  /\ pc' = "hung"
  /\ UNCHANGED <<chain, head, checkpoint, db, from, to, fetched, crashes, pagination>>

\* main's features.Get, with SPN_FEATURES unset, fetches the features bucket
\* with http.Get and no timeout: a start can hang before the loop begins
\* (a failed fetch is setup.Exitf, which leaves the process down).
StartHang ==
  /\ CallsMayHang
  /\ pc = "down"
  /\ pc' = "hung"
  /\ UNCHANGED <<chain, head, checkpoint, db, from, to, fetched, crashes, pagination>>

\* The supervisor starts the process again: main draws a new pagination
\* and Entry enters IngestPolling.
Restart ==
  /\ pc = "down"
  /\ pagination' \in Paginations
  /\ pc' = IngestPollingStart(pagination')
  /\ UNCHANGED <<chain, head, checkpoint, db, from, to, fetched, crashes>>

Next ==
  \/ Produce
  \/ ReadCheckpoint
  \/ FilterLogs
  \/ Commit
  \/ PulseAndSleep
  \/ Exit
  \/ Restart
  \/ Hang
  \/ StartHang

\* The loop never blocks for ever (the heartbeat URL answers, the sleep
\* ends), the supervisor restarts an exited process, and the chain keeps
\* producing blocks.  Exits are not fair: they may happen, never must.
Fairness ==
  /\ WF_vars(Produce)
  /\ WF_vars(ReadCheckpoint)
  /\ WF_vars(FilterLogs)
  /\ WF_vars(Commit)
  /\ WF_vars(PulseAndSleep)
  /\ WF_vars(Restart)

Spec == Init /\ [][Next]_vars /\ Fairness

-----------------------------------------------------------------------------
(* Properties.                                                              *)

\* The blocks whose log belongs in the database.
WantedBlocks == { b \in Blocks : chain[b] # NoLog /\ Accepted(chain[b]) }

TypeOK ==
  /\ head \in 0..MaxBlock
  /\ checkpoint \in 0..MaxBlock
  /\ db \in [Blocks -> Nat]
  /\ pc \in {"read", "filter", "commit", "sleep", "hung", "down"}
  /\ fetched \subseteq Blocks \cap from..to
  /\ crashes \in 0..MaxCrashes
  /\ pagination \in Paginations

\* Exactly-once mirror: whatever exits, restarts and polls have happened,
\* the events tables hold every accepted log of the blocks up to the durable
\* checkpoint exactly once, and nothing beyond it (IngestBlockRange's
\* transaction with the checkpoint computed from the logs seen).
MirrorsChain ==
  \A b \in Blocks :
    db[b] = IF b \in WantedBlocks /\ b <= checkpoint THEN 1 ELSE 0

\* The ingestor implements the abstract mirror: its checkpoint only moves
\* forward, never past the node's head, and each move stores exactly the
\* accepted logs of the blocks passed.
Mirror == INSTANCE IngestMirror
            WITH LogValues <- Logs \cup {NoLog},
                 Wanted <- LAMBDA l : l # NoLog /\ Accepted(l)
MirrorSpec == Mirror!Spec

\* Every accepted log of the chain is eventually stored (the ingestor does
\* not stall, IngestPolling's loop keeps advancing).
EventuallyIngested ==
  \A b \in Blocks : b \in WantedBlocks ~> db[b] = 1
=============================================================================
