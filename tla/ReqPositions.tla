---------------------------- MODULE ReqPositions ----------------------------
(***************************************************************************)
(* reqPositions (cmd/snapshot.ethereum/rpc.go): the batched JSON-RPC       *)
(* fetcher.  A producer goroutine cuts the requests into batches of a      *)
(* randomly chosen size and hands them over the unbuffered channel         *)
(* chanReqs to a pool of worker goroutines; each worker makes one HTTP     *)
(* call per batch and sends every decoded item to the coordinator over     *)
(* chanResps, or the first failure over chanErrs.  The coordinator (the    *)
(* calling goroutine) returns after len(reqs) results, on the first error, *)
(* or on cancellation of its context; on an error it starts sleepRoutines, *)
(* a goroutine that sends on chanDone for ever.                            *)
(*                                                                         *)
(* Unbuffered channel operations are rendezvous: a send and the receive    *)
(* it meets are one step.  A Go select is one action per ready case.       *)
(***************************************************************************)
EXTENDS Naturals, Sequences, SequencesExt, FiniteSets, FiniteSetsExt

CONSTANTS
  Keys,          \* the correlation keys (encodeId(pool, id)) of the requests
  MinBatchLimit, \* the bounds of the randomly chosen batch size
  MaxBatchLimit,
  WorkerCount,   \* the WorkerCount floor of the worker pool
  FailingKeys,   \* keys whose item the node may answer with an error or a bad hex result
  CallsMayFail,  \* whether an HTTP call may fail as a whole
  CallsMayHang,  \* whether an HTTP call may never return
  NodeFaults,    \* how the node's batch reply may differ from one item per
                 \* request: "drop" an item, or "repeat" one in place of another
  CtxKind        \* the caller's context: "background" (never done), "cancel"
                 \* (the caller may cancel it) or "deadline" (it expires)

ASSUME
  /\ MinBatchLimit \in Nat \ {0} /\ MinBatchLimit < MaxBatchLimit
  /\ WorkerCount \in Nat \ {0}
  /\ FailingKeys \subseteq Keys
  /\ CallsMayFail \in BOOLEAN
  /\ CallsMayHang \in BOOLEAN
  /\ NodeFaults \subseteq {"drop", "repeat"}
  /\ CtxKind \in {"background", "cancel", "deadline"}

\* The values rand.Intn(MaxBatchLimit-MinBatchLimit) + MinBatchLimit takes.
BatchLimits == MinBatchLimit .. (MaxBatchLimit - 1)

\* The requests in the order packRpcPosData put them (map order).
Reqs == SetToSeq(Keys)

\* One item of a JSON-RPC batch response: its id and whether its error
\* field is null and its result parses as hex.
Items == [key : Keys, ok : BOOLEAN]

VARIABLES
  batchLimit,  \* the batch size chosen for this call
  next,        \* index of the next batch the producer sends
  pst,         \* the producer goroutine: "run" or "exit"
  wst,         \* per worker: "idle", "call", "hung", "send", "err" or "exit"
  wbatch,      \* per worker: the batch it is requesting
  wq,          \* per worker: the response items it has still to forward
  cst,         \* the coordinator: "wait", or returned "ok" or "err"
  got,         \* the results the coordinator has received, in order
  ret,         \* the slice reqPositions returned (<<>> for nil)
  stopping,    \* sleepRoutines is running and offers chanDone
  ctxDone      \* ctx.Done() is closed

vars == <<batchLimit, next, pst, wst, wbatch, wq, cst, got, ret, stopping, ctxDone>>
workerVars == <<wst, wbatch, wq>>

-----------------------------------------------------------------------------
(* The producer goroutine's cutting of reqs into batches.                   *)

\* Mutant: the last, partial batch is never sent.
RECURSIVE BatchesNoRemainder(_, _)
BatchesNoRemainder(s, n) ==
  IF Len(s) < n THEN <<>>
  ELSE <<SubSeq(s, 1, n)>> \o BatchesNoRemainder(SubSeq(s, n + 1, Len(s)), n)

\* Full batches of n requests, then the remainder if there is one.
RECURSIVE Batches(_, _)
Batches(s, n) ==
  IF Len(s) <= n THEN (IF s = <<>> THEN <<>> ELSE <<s>>)
  ELSE <<SubSeq(s, 1, n)>> \o Batches(SubSeq(s, n + 1, Len(s)), n)

\* frames := len(reqs) / batchLimit; workerCount := max(frames, WorkerCount)
NumWorkers(n) == Max({Len(Reqs) \div n, WorkerCount})

Workers == 1..NumWorkers(batchLimit)

\* The decoded response array of a batch: one item per request, any of
\* those for FailingKeys possibly failed.
Responses(b) ==
  { r \in [1..Len(b) -> Items] :
      \A i \in 1..Len(b) : r[i].key = b[i] /\ (~r[i].ok => b[i] \in FailingKeys) }

\* The array json.Decode gives for batch b: one item per request, or, from
\* a faulty node, one item fewer, or one item's id repeated in place of
\* another's.  The worker forwards the items as they come, unchecked.
NodeReplies(b) ==
  LET rs == Responses(b)
  IN rs
     \cup (IF "drop" \in NodeFaults
             THEN UNION { {RemoveAt(r, j) : j \in 1..Len(r)} : r \in rs } ELSE {})
     \cup (IF "repeat" \in NodeFaults
             THEN UNION { {[r EXCEPT ![k] = r[j]] : <<j, k>> \in (1..Len(r)) \X (1..Len(r))} : r \in rs }
             ELSE {})

\* Mutant: the loop stops one result early.
CompleteOneEarly(g) == Len(g) = Len(Reqs) - 1

\* for i := 0; i < len(reqs); i++ has ended.
Complete(g) == Len(g) = Len(Reqs)

-----------------------------------------------------------------------------
Init ==
  /\ batchLimit \in BatchLimits
  /\ next = 1
  /\ pst = IF Batches(Reqs, batchLimit) = <<>> THEN "exit" ELSE "run"
  /\ wst = [w \in Workers |-> "idle"]
  /\ wbatch = [w \in Workers |-> <<>>]
  /\ wq = [w \in Workers |-> <<>>]
  /\ cst = IF Complete(<<>>) THEN "ok" ELSE "wait"
  /\ got = <<>>
  /\ ret = <<>>
  /\ stopping = FALSE
  /\ ctxDone = FALSE

\* The producer's `chanReqs <- c` meets worker w's `r := <-chanReqs`.
ProducerSend(w) ==
  LET bs == Batches(Reqs, batchLimit) IN
  /\ pst = "run"
  /\ wst[w] = "idle"
  /\ wst' = [wst EXCEPT ![w] = "call"]
  /\ wbatch' = [wbatch EXCEPT ![w] = bs[next]]
  /\ next' = next + 1
  /\ pst' = IF next + 1 > Len(bs) THEN "exit" ELSE "run"
  /\ UNCHANGED <<batchLimit, wq, cst, got, ret, stopping, ctxDone>>

\* The producer's select takes chanDone instead and returns.
ProducerStop ==
  /\ pst = "run"
  /\ stopping
  /\ pst' = "exit"
  /\ UNCHANGED <<batchLimit, next, workerVars, cst, got, ret, stopping, ctxDone>>

\* Mutant: the request batch is handed on as if it were the response.
WorkerCallNoDecode(w) ==
  /\ wst[w] = "call"
  /\ wq' = [wq EXCEPT ![w] = wbatch[w]]
  /\ wst' = [wst EXCEPT ![w] = "send"]
  /\ UNCHANGED <<batchLimit, next, pst, wbatch, cst, got, ret, stopping, ctxDone>>

\* Worker w encodes its batch, posts it (makeReq) and decodes the JSON
\* array.  A failed request, a nil body or an undecodable body is an error
\* to report; an empty array sends the worker back to its select.
WorkerCall(w) ==
  /\ wst[w] = "call"
  /\ \/ /\ CallsMayFail
        /\ wst' = [wst EXCEPT ![w] = "err"]
        /\ UNCHANGED wq
     \/ \E r \in NodeReplies(wbatch[w]) :
          /\ wq' = [wq EXCEPT ![w] = r]
          /\ wst' = [wst EXCEPT ![w] = IF r = <<>> THEN "idle" ELSE "send"]
  /\ UNCHANGED <<batchLimit, next, pst, wbatch, cst, got, ret, stopping, ctxDone>>

\* httpPost's http.Post has no timeout and is not bound to the context:
\* a node that accepts the connection and never answers blocks worker w
\* in makeReq for ever.
WorkerHang(w) ==
  /\ CallsMayHang
  /\ wst[w] = "call"
  /\ wst' = [wst EXCEPT ![w] = "hung"]
  /\ UNCHANGED <<batchLimit, next, pst, wbatch, wq, cst, got, ret, stopping, ctxDone>>

\* The next item has a non-nil error or a result NumberFromHex rejects.
WorkerItemFails(w) ==
  /\ wst[w] = "send"
  /\ ~Head(wq[w]).ok
  /\ wst' = [wst EXCEPT ![w] = "err"]
  /\ UNCHANGED <<batchLimit, next, pst, wbatch, wq, cst, got, ret, stopping, ctxDone>>

\* Worker w's `chanResps <- r` meets the coordinator's receive; the
\* coordinator returns the results once it has len(reqs) of them.
WorkerSendResp(w) ==
  /\ wst[w] = "send"
  /\ Head(wq[w]).ok
  /\ cst = "wait"
  /\ got' = Append(got, Head(wq[w]).key)
  /\ wq' = [wq EXCEPT ![w] = Tail(@)]
  /\ wst' = [wst EXCEPT ![w] = IF Tail(wq[w]) = <<>> THEN "idle" ELSE "send"]
  /\ cst' = IF Complete(got') THEN "ok" ELSE "wait"
  /\ ret' = IF Complete(got') THEN got' ELSE ret
  /\ UNCHANGED <<batchLimit, next, pst, wbatch, stopping, ctxDone>>

\* Worker w's select (waiting for a batch, or sending a result) takes
\* chanDone and the worker returns.
WorkerStop(w) ==
  /\ stopping
  /\ \/ wst[w] = "idle"
     \/ wst[w] = "send" /\ Head(wq[w]).ok
  /\ wst' = [wst EXCEPT ![w] = "exit"]
  /\ UNCHANGED <<batchLimit, next, pst, wbatch, wq, cst, got, ret, stopping, ctxDone>>

\* Worker w's `chanErrs <- err` meets the coordinator's receive: the
\* coordinator starts sleepRoutines and returns nil and the error.
WorkerSendErr(w) ==
  /\ wst[w] = "err"
  /\ cst = "wait"
  /\ wst' = [wst EXCEPT ![w] = "exit"]
  /\ cst' = "err"
  /\ stopping' = TRUE
  /\ UNCHANGED <<batchLimit, next, pst, wbatch, wq, got, ret, ctxDone>>

\* The caller cancels the context, or its deadline passes.
Cancel ==
  /\ CtxKind # "background"
  /\ ~ctxDone
  /\ cst = "wait"
  /\ ctxDone' = TRUE
  /\ UNCHANGED <<batchLimit, next, pst, workerVars, cst, got, ret, stopping>>

\* Mutant: the coordinator's select has no ctx.Done() case.
CoordCancelledNoCtxCase == FALSE

\* Mutant: on cancellation the results received so far are returned too.
CoordCancelledPartial ==
  /\ cst = "wait"
  /\ ctxDone
  /\ cst' = "err"
  /\ ret' = got
  /\ stopping' = TRUE
  /\ UNCHANGED <<batchLimit, next, pst, workerVars, got, ctxDone>>

\* The coordinator's select takes ctx.Done(): sleepRoutines starts and
\* reqPositions returns nil and ctx.Err().
CoordCancelled ==
  /\ cst = "wait"
  /\ ctxDone
  /\ cst' = "err"
  /\ stopping' = TRUE
  /\ UNCHANGED <<batchLimit, next, pst, workerVars, got, ret, ctxDone>>

Next ==
  \/ \E w \in Workers :
       \/ ProducerSend(w)
       \/ WorkerCall(w)
       \/ WorkerHang(w)
       \/ WorkerItemFails(w)
       \/ WorkerSendResp(w)
       \/ WorkerStop(w)
       \/ WorkerSendErr(w)
  \/ ProducerStop
  \/ Cancel
  \/ CoordCancelled

\* Every goroutine that can take a step eventually takes it: the Go
\* scheduler runs runnable goroutines, and select picks uniformly among its
\* ready cases.  A call that does not hang returns.  Cancellation is the
\* caller's choice and is not fair; a deadline passes as long as the
\* coordinator waits.  A hang is the node's choice and is not fair.
Fairness ==
  /\ \A w \in 1..Max({NumWorkers(n) : n \in BatchLimits}) :
       /\ WF_vars(w \in Workers /\ ProducerSend(w))
       /\ WF_vars(w \in Workers /\ WorkerCall(w))
       /\ WF_vars(w \in Workers /\ WorkerItemFails(w))
       /\ WF_vars(w \in Workers /\ WorkerSendResp(w))
       /\ WF_vars(w \in Workers /\ WorkerStop(w))
       /\ WF_vars(w \in Workers /\ WorkerSendErr(w))
  /\ WF_vars(ProducerStop)
  /\ WF_vars(CoordCancelled)
  /\ WF_vars(CtxKind = "deadline" /\ Cancel)

Spec == Init /\ [][Next]_vars /\ Fairness

-----------------------------------------------------------------------------
(* Properties.                                                              *)

TypeOK ==
  /\ batchLimit \in BatchLimits
  /\ pst \in {"run", "exit"}
  /\ wst \in [Workers -> {"idle", "call", "hung", "send", "err", "exit"}]
  /\ wbatch \in [Workers -> Seq(Keys)]
  /\ wq \in [Workers -> Seq(Items)]
  /\ cst \in {"wait", "ok", "err"}
  /\ got \in Seq(Keys)
  /\ ret \in Seq(Keys)
  /\ stopping \in BOOLEAN
  /\ ctxDone \in BOOLEAN

\* A successful reqPositions returns every request's correlation key
\* exactly once, however the batches were cut and the workers interleaved.
ResultExact ==
  cst = "ok" => Len(ret) = Len(Reqs) /\ ToSet(ret) = Keys

\* reqPositions refines the all-or-nothing fetch: it returns once, and an
\* error comes with no results.
Fetch == INSTANCE BatchFetch
           WITH status <- IF cst = "wait" THEN "pending" ELSE cst,
                result <- ret
FetchSpec == Fetch!Spec

\* The producer's batches, concatenated, are the requests in order, each
\* batch holding 1..batchLimit of them: the final partial batch is sent.
BatchesCoverReqs ==
  LET bs == Batches(Reqs, batchLimit)
  IN /\ FoldLeft(LAMBDA acc, c : acc \o c, <<>>, bs) = Reqs
     /\ \A j \in 1..Len(bs) : Len(bs[j]) \in 1..batchLimit

\* reqPositions eventually returns, whatever the node does (spec: a
\* cancellation or timeout must make the coordinator return).
Terminates == <>(cst # "wait")

\* Once reqPositions has returned, every worker goroutine eventually stops
\* (the coordinator's stop signal reaches all in-flight workers).
WorkersStop ==
  cst # "wait" ~> \A w \in Workers : wst[w] = "exit"
=============================================================================
