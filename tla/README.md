# TLA+ models of the indexer and the position snapshot

This directory holds TLA+ models of the two core subsystems of this repository. All of them are checked with TLC:

- the **event ingestion pipeline**, `cmd/ingestor.logs.ethereum`;
- the **position snapshot**, `cmd/snapshot.ethereum` together with `lib/math`.

`PROJECT.json` records the following, and this file explains them:

- every component;
- every run and the mutant that shows each property can fail;
- the map from each definition to the source lines it models;
- the findings;
- the hazards.

## The system

| Part | Source | State it keeps | Operations |
|---|---|---|---|
| IngestionLoop | `ingestor.logs.ethereum/func.go` `IngestPolling`, `IngestBlockRange`; `main.go` | `from`/`to` of the current range; `ingestorPagination`, drawn at random in `main` on every start | read the checkpoint, `FilterLogs`, the DB transaction, `heartbeat.Pulse`, sleep, `setup.Exitf` |
| CheckpointStore | `polling-db.go` | `ingestor_checkpointing_1.block_number` (durable) | `getLastBlockCheckpointed`, `updateCheckpoint` (inside the transaction) |
| TopicRouter | `func.go` `handleLogCallback` | none | switch on topic0, decode, emitter check for Thirdweb, Leo and Seawater, insert |
| EventDecoders | `lib/events/*` | none | `Unpack*`: ABI decoding, topic conversions and the Leo packed words; most can fail |
| Heartbeat | `lib/heartbeat` | none | `Pulse`: an `http.Get` with no timeout |
| BatchRpcClient | `snapshot.ethereum/rpc.go` `reqPositions` | channels `chanReqs`, `chanResps`, `chanErrs`, `chanDone`; a producer goroutine, `max(len/batch, 100)` workers, the coordinator, `sleepRoutines` | cut into batches, HTTP call per batch, forward items, first error or cancellation wins |
| LiquidityMath | `lib/math/concentrated-liq.go` | none | `GetAmountsForLiq`, `GetAmount0ForLiq`, `GetAmount1ForLiq`, `GetSqrtRatioAtTick` |
| SnapshotReconciler | `snapshot.ethereum/main.go`, `database.go` | the preallocated `pools`, `ids`, `amount0s` and `amount1s` slices, and the counter `i` | load positions and pools, fetch, reconcile loop, `storePositions` |

How the parts interact:

- **Ingestor.** The ingestor is one sequential process. An external supervisor restarts it after every `Exitf`. Its only durable state is the database, and each iteration commits one transaction that holds both the decoded logs and the new checkpoint.
- **Snapshot.** The snapshot is a one-shot program. It calls `reqPositions`, which is the only concurrent code in the repository, and then `GetAmountsForLiq` for each result.

## Modules

### Ingestor

`IngestMirror.tla` is the **abstract spec** of ingestion. It has:

- a chain that grows;
- a durable checkpoint that moves forward only, and never past the head;
- a move that stores the wanted logs of the blocks it passes, exactly once.

`Ingestor.tla` is the **detailed model**.

The chain is a function from a block to at most one tracked log. Each log is a record `[topic, emitter, decodes]`.

Variables:

| Variable | Code it stands for |
|---|---|
| `checkpoint`, `db` | durable state; `db` counts the rows per block |
| `pc` | where the process is in its loop |
| `from`, `to`, `fetched` | `IngestBlockRange`'s locals |
| `pagination` | drawn again by every `Restart` |
| `crashes` | bounds the exits that are not forced |

Actions:

| Action | Code |
|---|---|
| `ReadCheckpoint` | `func.go:69-81` |
| `FilterLogs` | `95-102` |
| `Commit` | the whole transaction, `103-126`: the decode of each log, `Inserted` (the emitter check of `handleLogCallback`) and `NewCheckpoint` (`biggestBlockNo`/`wasChanged`) |
| `PulseAndSleep` | `82-87` |
| `Hang` | `FilterLogs` or `heartbeat.Pulse` never returning |
| `StartHang` | `features.Get`'s bucket fetch never returning at start-up |
| `Exit` | `setup.Exitf`, or a kill from outside |
| `Restart` | `main` draws a pagination from `Paginations` (`DefaultPaginationBlockCountMin..Max-1`); `IngestPollingStart` is `Entry` and `IngestPolling`'s `ingestorPagination <= 0` panic |
| `Produce` | the node |

The topic sets of `handleLogCallback`'s switch (`FilterTopics`, the unscoped, Thirdweb, Leo and Seawater topics, and `FallibleTopics`, the topics whose decoder can fail) are in `Topics.tla`, shared with `EventDecoders`.

`MCIngestor.tla` gives the emitters as model values and restricts the chains that `Init` may pick.

### ReqPositions

`BatchFetch.tla` is the **abstract spec** of `reqPositions`. The call ends once, in one of two ways:

- every key exactly once, in any order;
- an error and no result.

`ReqPositions.tla` is the goroutine-level model:

- A send on an unbuffered channel and the receive it meets are one step. For example, `ProducerSend(w)` is `chanReqs <- c` meeting worker `w`.
- A Go `select` is one action per ready case: `WorkerStop`, `ProducerStop` and `CoordCancelled`.
- `WorkerCall` covers encoding, the HTTP call and JSON decoding. A failed call, a nil body or a decode error sends the worker to `"err"`. An empty reply sends it back to `"idle"`.
- `WorkerItemFails` is an item with an error, or a bad hex result.
- `WorkerSendErr` is the coordinator taking the error. It starts `sleepRoutines`, which is `stopping`.
- `Batches` is a RECURSIVE operator. It gives the producer's full batches and then the remainder. `BatchLimits` is `MinBatchLimit..MaxBatchLimit-1`, the range of the random draw.
- `WorkerHang` is a call through `httpPost` that never returns (`http.Post` has no timeout).
- `NodeReplies` is what the node may answer for a batch: every key once in any order, plus, for each fault in the constant `NodeFaults`, a reply with one item dropped (`"drop"`) or one item's id repeated in place of another's (`"repeat"`). The workers forward the items unchecked (`rpc.go:130-135`).
- The constant `CtxKind` is the caller's context. `"background"` is never done, which is what `main` passes. With `"cancel"` the caller may cancel, and with `"deadline"` the context expires. `Cancel` is enabled only for the last two.

### EventDecoders and CorrelationKey

`EventDecoders.tla` translates every `Unpack*` function of `lib/events`:

- the topic conversions `hashToAddr`, `hashToNumber` and `hashToInt`;
- Leo's packed words `unpackDetails`, `unpackTimes` and `unpackExtras`;
- the `int64`/`uint32` reinterpretations.

The bit widths are the constants `W256`, `W160`, `W64` and `W32` (12, 2, 3 and 2 in the run). TLC's integers are 32 bits, so every shift, mask and sign extension is taken at these widths, and the field order is kept. `abi.Unpack` (go-ethereum) is abstracted to its outcome: the unpacked values, or `Malformed`.

The module's `Spec` enumerates the logs that a reference encoder builds (`PackDetails`, `PackTimes`, `PackExtras`, `SignFill`). The ticks include negative ones at the edges of the `int32` range, and each log carries malformed data too.

`CorrelationKey.tla` models three functions of `rpc.go` over strings that are sequences of characters. Addresses have `AddrDigits = 2` hex digits, words have 2 bytes, and ids are below 2^6.

- `encodeId` is `%s%x`.
- `decodeId` does the length check, the slice and `strconv.ParseInt(.., 16, 64)`.
- `getCalldata` is the selector, then `LeftPadBytes` of the address and of `big.Int.Bytes()`, then `hex.EncodeToString`.

### Numbers

`Numbers.tla` models `lib/types`' `Number` (a `*big.Int` that may be nil), with strings as sequences of characters:

- `Text` and `SetString` are `big.Int`'s, by what they do: sign, digits of the base, `"<nil>"`.
- `Value` and `Scan` are the database conversions, and `NumberBig` is `Number.Big` (0 for a nil number).
- `UnscaledValue` and `UnscaledScan` are `UnscaledNumber`'s: `Scan` goes through `Number.Scan` into a fresh `Number` and then `Big`.
- `DbRead` is what a column gives back: NULL, the text, or an `int64` from an integer column.
- `DeltaOf` is the snapshot worker's `NumberFromHex(strings.TrimPrefix(result, "0x"))`, and `WordResult` the node's one-word answer.

### Addresses

`Addresses.tla` models `lib/types`' string wrappers `Hash`, `Address` and `Data`:

- the constructors and `String` lower-case the text, and `Value` writes `String`'s text;
- a text column is read back into the wrapper as it is (`DbText`);
- `DataFromBytes` is `"0x"` and `hex.EncodeToString`, and `Data.Bytes` is `hex.DecodeString` of the text without `"0x"` (odd lengths and non-hex characters fail).

### Codecs

`Codecs.tla` composes the pure modules (EventDecoders, CorrelationKey, LiquidityMath, Numbers and Addresses) into one run. A behaviour picks one input of one module; the others stay at a fixed input.

### LiquidityMath

`LiquidityMath.tla` gives `GetAmount0ForLiq`, `GetAmount1ForLiq` and `GetAmountsForLiq` as operators over exact integers and rationals:

- A `big.Rat` is a record `[num, den]`.
- A nil operand is the model value `Nil`.
- `Trunc` is `mulRatToInt`.
- The constant `Q96` stands for 2^96. TLC's integers are 32-bit, and the code only multiplies and divides by `Q96`. So a small power of two keeps every case split and every truncation point of the code.

The module's own `Spec` enumerates the inputs and checks the operators against `RefAmounts`. `RefAmounts` is the contract library's integer `getAmountsForLiquidity`: mulDiv rounding down.

`GetSqrtRatioAtTick` is the code's loop, with `SqrtLoop` a RECURSIVE operator over the bits of `|tick|`. The 128-bit accumulator becomes `FracBits` bits, the final shift by 32 becomes `OutShift`, and the magic constants become `Ratio0 = 2^FracBits / step` and `OddFactor = 2^FracBits / sqrt(step)` for a price step of 1.1 instead of 1.0001 (at 14 bits, steps of 1.0001 are below the resolution). The inversion of positive ticks and the rounding after the shift are kept as the code has them.

### Snapshot

`Snapshot.tla` is `main` of the snapshot:

- **`Load`.** Both scans, `poolMap` and `positionMap`. Either scan may fail.
- **`Fetch`.** Uses `reqPositions` through `BatchFetch`, which `ReqPositions` is checked to refine. It either fails, or returns every key once in some order, with a liquidity from `Liqs`.
- **`Reconcile`.** One loop iteration: the amounts, the zero skip, and the write of row `i`.
- **`Store`.** The `len(ids) == 0` check and `storePositions(pools[:i], ...)`. The call may fail.

Square-root prices come from LiquidityMath's `GetSqrtRatioAtTick` at the scaled widths (`FracBits = 14`, `OutShift = 4`, so `Q96 = 2^10`), as `main` calls it for the final tick and both boundaries. A pool without a final-tick row gives `curPrice` nil, exactly as in `main`. A row's `final_tick` is an `int64` or NULL, read through `Number.Scan` (`ScannedTick`) and `Number.Big`, so a NULL tick becomes tick 0.

`MCSnapshot.tla` has four positions:

- `p1` straddles pool A's price;
- `p2` lies above it;
- `p3` is in pool B, which has no final tick;
- `p4` is in pool C, whose row has a NULL final tick. It is priced at tick 0 and stored with non-zero amounts, while spec.md says an absent math operand gives (0, 0). This is a hazard in `PROJECT.json` and not a separate run, because whether the view's `final_tick` can be NULL is decided by the database schema, which is not in the repository.

## Runs

| Run | Expect | What it shows |
|---|---|---|
| `ingest_safety` | pass | `MirrorSpec`: the ingestor refines `IngestMirror`, whose state is the events tables holding each accepted log up to the checkpoint exactly once; this holds across exits at any step and decode failures from any emitter. |
| `ingest_live` | pass | `EventuallyIngested`: every accepted log is eventually stored, on chains where no empty range of `Min(Paginations)` blocks precedes a log and no log fails to decode. |
| `ingest_empty_range` | violation | An empty range at least as long as the pagination is polled for ever. The checkpoint is saved only when a log was seen (`func.go:117`). |
| `ingest_foreign_payload` | violation | A foreign contract's undecodable log carrying a Seawater-scoped selector (`MintPosition`) kills every iteration, so a wanted log in the same range is never stored. The decode (`func.go:270`) comes before the emitter check. |
| `ingest_hang` | violation | `EventuallyIngested` fails when `FilterLogs`, `heartbeat.Pulse` or the start-up features fetch never returns. None of them has a timeout, and the process neither exits nor moves on. |
| `reqpositions_safety` | pass | The run has a deadline context, failing items, failing calls, calls that never return, node replies with an item dropped, batch sizes 1 and 2, and 2 or 3 workers. It checks `BatchesCoverReqs`: the batches are the requests, and the last partial batch is sent. It checks `FetchSpec`: `reqPositions` refines `BatchFetch`, whose result holds each requested key exactly once with its own outcome. |
| `reqpositions_leak` | violation | `WorkersStop` fails: workers stay blocked after the call returns. |
| `reqpositions_repeat` | violation | `ResultExact` fails when the node repeats one id in place of another: the coordinator counts `len(reqs)` results without looking at their ids (`rpc.go:198`), so a key appears twice and another is missing, against spec.md's "every key exactly once". |
| `reqpositions_hang` | violation | `Terminates` fails with the `context.Background()` that `main` passes, once one `httpPost` never returns. |
| `snapshot_safety` | pass | `StoredExact`: exactly the non-zero positions are stored, with their pools and amounts, for every response order. |
| `snapshot_empty_store` | violation | `NoEmptyStore` fails: when all amounts are zero, `storePositions` gets empty arrays (`main.go:137`). |
| `codecs_reference` | pass | `DecodeExact`: every decoder returns exactly the event the reference encoder packed. It fails exactly on malformed data or an id beyond an `int64`. `KeyRoundTrip`: `decodeId(encodeId(pool, id))` gives back the pair. `CalldataExact`: the calldata is the selector and two padded words, including id 0. `AmountsMatchReference`: the amounts equal the contract library's on all liquidity inputs. `NumberDbRoundTrip`: a `Number` written and read back is the same, nil and negatives included. `UnscaledDbRoundTrip`: the same for an `UnscaledNumber` through its own `Scan`. `ResultDecodesLiquidity`: the worker's delta is the liquidity of the result word. `SqrtRatioMonotonic`: `GetSqrtRatioAtTick` is strictly increasing. `DataDbRoundTrip`: a stored `DataFromBytes` value gives its bytes back. |

Each property of a passing run has a mutant in `PROJECT.json`. The mutant is a plausible bug in the mapped code, and TLC finds the property violated under it.

## Bounds

- **Ingestor.**
  - The bounds are 4 blocks, pagination bounds 2 and 4 (so `Paginations = {2, 3}`), two topics (one unscoped, one Seawater), two emitters and one voluntary exit.
  - With these bounds the model reaches: ranges that end past the head, ranges with several logs, a log from the wrong emitter, an exit inside a transaction and a restart with another pagination.
  - Every chain of 4 blocks over those logs is explored.
- **ReqPositions.**
  - The bounds are 3 keys and `MinBatchLimit = 1`, `MaxBatchLimit = 3` (batch limits 1 and 2), so both a full batch and a remainder occur.
  - With 2 or 3 workers, two workers can hold batches at the same time. That makes the two-error race reachable.
- **LiquidityMath.** The scale is `Q96 = 8`, with square-root prices 4..12 (prices from 1/4 to 9/4). This gives every case, equal boundaries and non-zero remainders. `GetSqrtRatioAtTick` runs with `FracBits = 14`, `OutShift = 4` and ticks -12..12: up to four loop rounds, both parities and signs. At these widths the post-shift rounding differs from the contract's pre-shift rounding at ticks -11, -1 and 1, so that case is inside the check.
- **Numbers.** Numbers -120..120 (one to three digits, both signs), nil, and every 2-digit result word.
- **Addresses.** Every text of up to 3 characters over `{0, a, A, x, X}` (both cases and the prefix letter), and every string of up to 2 bytes over `{0, 10, 171, 255}` (one- and two-digit hex bytes).
- **EventDecoders.** `W64 = 3` and `W32 = 2` keep `int32` narrower than `int64`. The 12-bit word leaves room above both packed Leo words for sign-filled bits, so both the zero-filled and the sign-filled encodings of a negative tick occur.
- **CorrelationKey.** Ids of one and two hex digits occur. Every string of up to 5 characters over `{0, f, x, -}` is also built, which reaches the 2- and 3-character lengths where `decodeId`'s check is short.
- **Snapshot.** Ticks -1..2 give square-root prices 976, 1024, 1075 and 1127 at `Q96 = 1024`. Liquidities `{0, 5, 100}` give zero, truncated-to-zero and non-zero amounts. Pools A, B and C give a known tick, no row and a NULL tick.

## Fairness

| Model | Fairness and its justification |
|---|---|
| Ingestor | Weak fairness on every step of the loop, on `Restart` (the supervisor) and on `Produce`. `Exit`, `Hang` and `StartHang` are not fair. |
| ReqPositions | Weak fairness on every goroutine's steps, because the Go scheduler runs runnable goroutines and `select` picks among ready cases at random. Cancellation is the caller's choice and is not fair. A deadline is: `WF(CtxKind = "deadline" /\ Cancel)`, because the timer fires. `WorkerHang` is not fair, and a hung call stays hung. |
| Snapshot | Needs no fairness: only safety is checked. |

The liveness run that passes, `ingest_live`, turns hangs off (`CallsMayHang = FALSE`). The `*_hang` runs show what the code's missing timeouts do.

## Not modelled

- `abi.Unpack` itself, which is in go-ethereum, and Leo's `hashToBytes8Data` identifier (its `DataFromBytes` is in `Addresses`).
- `GetPriceAtSqrtRatio` and `ExponentiateDecimals`, used only by the GraphQL price. `ExponentiateDecimals` uses `big.Int.Exp`, which returns 1 for a negative exponent, so a pool token with fewer decimals than fUSDC is priced 10^k too high; this is a hazard in `PROJECT.json`.
- The GraphQL API (read-only resolvers and mocked data), the faucet (request handlers around external HTTP and chain calls; the resolvers that handle its requests are not in `src/`), config (environment variables become model constants), features other than the start-up fetch, and the selector miner. spec.md treats all of these as external collaborators.
- Chain reorganisations: the model's chain is fixed.
- `UnscaledNumber.Value` has no nil check (`types.go:172`): a nil value is written as the text `"<nil>"`. The model has `UnscaledValue`, but no caller in the modelled programs writes a nil one.
- `UnscaledNumber.Scale`/`ScaleStr` (display only) and the row structs of `lib/types/seawater` and `lib/events/seawater/types.go`, which are plain field lists.
- `decodeId`'s length check is two short of its `x[:42]` slice, so a 40- or 41-character string panics. The model's `decodeId` returns `Panic` there. No run checks it, because only `rpc_test.go` calls `decodeId`.

`mulRatToInt` ignores its decimals argument. The model keeps that behaviour, as the code does.
