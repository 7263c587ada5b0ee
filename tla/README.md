# TLA+ models of the rapid_chain coordinator

This directory holds TLA+ specifications of the coordinator process in
`src/coordinator.go`. It also holds the TLC configurations that model-check
them and TLAPS proofs of some of their invariants.

## The system and its parts

`src/main.go` parses flags and starts either the coordinator or a node.
The coordinator (`launchCoordinator`, `src/coordinator.go`) runs in two phases.

1. **Bootstrap** (lines 145-424).
   - The main goroutine accepts `n` TCP connections. It spawns
     `coordinatorHandleConnection` for each one, then waits on `wg_done`.
   - Each connection goroutine runs the handshake:
     1. It decodes the node's identity.
     2. It sends the identity on `chanToCoordinator`, a channel with
        capacity `n`.
     3. It calls `wg.Done()`.
     4. It blocks on its own unbuffered `chanToNodes[i]`.
     5. It encodes the response it receives.
     6. It calls `wg_done.Done()`.
   - The coordinator goroutine runs the other side:
     1. It waits on `wg`.
     2. It closes and drains the channel.
     3. It shuffles the node list.
     4. It assigns committees and verifies the assignment (lines 311-389).
     5. It sends the response to every connection in order, then starts the
        transaction generator.
2. **Debug/telemetry** (lines 426-580). The main goroutine accepts debug
   connections forever and runs one `coordinatorDebugStatsHandleConnection`
   goroutine per connection. Each goroutine decodes one tagged message and
   dispatches on its tag:
   - The route-tx tags update the `routetxresults` map: `addStart`, `add`
     (under its own mutex) and `addEnd`.
   - The IDA tags update the `idagossipresults` map: the `start` write and
     `addReconstructed`.
   - The first handler to see a completed record flushes it to the results
     file.
   - `finalblock` forwards the block on `finalBlockChan` (capacity `2m`),
     which the transaction generator drains; the send blocks while it is
     full.
   - `pocverify`, `pocadd` and `consensus_accept_fail` append one line to a
     results file of their own; an accept/fail blob whose length is not 88
     is fatal.
   - `IDASuccess` and `consensus` only type-check their payload: their
     tracker calls are commented out.
   - An unknown tag is fatal.

The two phases touch disjoint state. Within each phase, goroutines interact
through a channel, two WaitGroups, rendezvous channels, and `sync.Mutex`es
guarding shared maps.

## Modules

| Module | Code | State | Actions |
|---|---|---|---|
| `Bootstrap` | lines 145-424 | `mainPc`, `accepted`; per-connection `hpc`; the channel contents `chan` and `closed`; the counters `wg` and `wgDone`; the coordinator's `cpc`, `nodeInfos` and `sendIdx`; the received `resp` and `delivered`; `exited` (log.Fatal or panic) | `AcceptConn`, `MainWaitDone`, the handshake steps `Decode`/`DecodeFail`, `SendIdentity`, `SignalRegistered`, `Encode`/`EncodeFail` and `SignalDone`, and the coordinator steps `CoordClose`, `DrainOne`, `DrainEnd`, `Assign`/`AssignAbort` and `SendResponse` |
| `CommitteeAssign` | lines 311-389 | flags `n`, `m`; loop `pc`, `i`, `c`; per node `cid`, `honest`; recount `lastCommittee`, `iCommittee`, `infoNpm`, `infoF`; `checkTotalF` | one action per loop iteration (`AssignStep`, `RecountStep`, `CheckStep`), the loop exits, and `TotalCheck` |
| `Telemetry` | lines 15-143 and 426-573 | per-handler `pc` and `msg`; the route map (`rStart`, `rEnd`, the `rMux` owner); the IDA map (`idaStart`, `idaRec`); the written route and IDA lines; the blocks in `finalBlockChan` (`finalQ`); the line counts of the three log files (`logLines`); `exited` | `Accept` and `Received`, plus one action per tag handler: `RouteTxStart`, `FindNodeAdd`, `TxReceivedEnd`/`TxReceivedFlush`, `StartIdaGossip`, `ReconstructedAdd`/`ReconstructedFlush`, `InertTag`, `FinalBlockForward`, `LogDuration`, `AcceptFailReport` and `UnknownType`; the generator's `TxGenTake` |
| `RouteStore` | lines 63-101, 505-523 | `start`, `end`, `lines` | the abstract route tracker: `MarkStart`, `MarkEnd` (first write wins) and `Flush` (one line per id, after its end) |

`MCBootstrap`, `MCCommitteeAssign` and `MCTelemetry` give the constants their
values for TLC. `TelemetryProofs`, `BootstrapProofs` and
`CommitteeAssignProofs` hold the TLAPS proofs.

`Telemetry` instantiates `RouteStore` as `Route` with the refinement mapping
`start <- rStart`, `end <- rEnd`, `lines <- routeLines`. `RouteStoreSpec`
(`Route!Spec`) is checked as a property of `Telemetry`'s `Spec` and proved.

`txGenerator`, the consumer of `finalBlockChan`, is not in the repository.
`TxGenTake` models it from the spec: it takes the oldest block, at any time
or never, and carries no fairness.

### Abstractions

- **Identities and payloads.** A node's identity is its connection index.
  Each node is taken to send a key of its own. The loop counts connections,
  not distinct keys (line 205), but spec 4.1 asks only for `n` connections. The
  genesis block and the reconfiguration block are reduced to the node list
  they carry. Telemetry messages keep only their tag, their id (from a set of
  two) and their time (from a set of two, plus `Zero`, the zero `time.Time`
  that an unset field holds). A final block is its id. A log line is
  counted, not formatted. The accept/fail blob's length is a choice between
  88 and not 88.
- **Maps.** Go maps become total functions over the id set. A missing key is
  the zero value.
- **Critical sections.** A critical section under a mutex is one atomic step
  when nothing inside it blocks. Where the code locks a held mutex
  (`add` → `init`, lines 41-60), the owner is explicit (`rMux`) and the second
  lock blocks forever.
- **Unsynchronised writes.** `ida.start = bat.T` (line 531) is an
  unsynchronised write. It is modelled as an atomic write that may happen in
  any order relative to the other handlers. Go's memory model allows that
  ordering, and it allows torn reads too; these are not modelled.
- **Committees.** The committee loops see positions, not identities: the
  shuffle only permutes identities. Committee ids (a hash of `rand.Intn`)
  are taken to be distinct. The chance that two collide is a hazard with a
  note, not a modelled case.
- **Process end.** log.Fatal and panics end the whole process: `exited`, or a
  terminal `pc`.
- **Accept errors.** The `ifErrFatal` after `listener.Accept()` (lines 209
  and 240) is not modelled. It only ends the process when the OS refuses a
  connection, and no property is about that.

## Runs

| Run | Expect | What it shows |
|---|---|---|
| `telemetry_safety` | pass | With 3 handlers, 2 ids, 2 times and all tags: every route record is flushed at most once, and a written line carries the record's end and start. Every IDA record is flushed at most once, and its line is a non-empty prefix of the reconstruction list. The route tracker implements `RouteStore` (`RouteStoreSpec`). |
| `telemetry_live` | pass | Under weak fairness of the handlers, every IDA record that received a reconstruction report is eventually flushed (`IdaEventuallyFlushed`). |
| `telemetry_hop_deadlock` | violation | A `find_node` handler never returns (`HandlersReturn`): `add` locks `r.mux`, then `init` locks it again. |
| `telemetry_ida_start` | violation | The IDA start time is not first-write-wins: a second `start_ida_gossip` report overwrites it. |
| `telemetry_ida_late` | violation | A reconstruction report that comes after the IDA line was written never reaches the file (`IdaLineComplete`). |
| `committee_verify` | pass | For every `n ≤ 17` and `1 ≤ m ≤ n`, the loops stay well typed (`TypeOK`). The committee index stays below `m` until the index panic. The recount's `iCommittee` never indexes past `committeeInfos`. Every count and `checkTotalF` stays in `0..n`. Each recount iteration counts its node in its own committee's entry and in no other (`RecountCountsOwnCommittee`). |
| `committee_index_panic` | violation | At `n=5`, `m=3`, the loop indexes `committees[m]`. |
| `committee_divzero` | violation | At `n=2`, `m=1`, the aggregate check divides by a zero adversary total. |
| `committee_aggregate` | violation | At `n=5`, `m=1`, a run completes with more than `n/totalF` adversaries: `1/int(totalF)` is 0. |
| `committee_abort` | violation | At `n=17`, `m=3`, the verification pass calls log.Fatal (`AssignPassesVerification`). The remainder committee gets 4 adversaries of 7, and `4 ≥ ceil(7/2)`. |
| `bootstrap_safety` | pass | With 3 nodes (deadlock checked): the coordinator's node list, once drained, is a permutation of all connections. The debug phase starts only after every connection has been sent and has encoded its response. |
| `bootstrap_live` | pass | Under weak fairness of every goroutine step, bootstrap ends: main reaches the debug phase or the process exits. |

Each property of a passing run has a mutant in `PROJECT.json`: a plausible bug
in the mapped code under which TLC finds the property violated. The mutants
are:

- a channel with no buffer;
- an off-by-one in the accept loop;
- the barriers passed one signal early;
- a recount that never updates `lastCommittee`;
- a recount that updates `lastCommittee` before comparing with it;
- a route end that is overwritten (it breaks both `RouteLineFaithful` and
  the refinement `RouteStoreSpec`);
- IDA flush conditions that are dropped or reset.

### Bounds

- **Telemetry.** Three handlers and two ids are enough for two handlers to
  race on one record while a third touches another. Two times are enough to
  tell an overwrite from the first write. `FinalCap = 2` (the channel of
  `m = 1`) lets three `finalblock` handlers fill the channel and block.
  `telemetry_live` uses only the six tracker tags: the liveness property is
  about the IDA tracker, and leaving out the other tags keeps the run short.
- **CommitteeAssign.** `MaxN = 17` covers every `(n, m)` with `1 ≤ m ≤ n ≤ 17`.
  That includes every relation between `rest` and `npm` (`rest > npm`,
  `rest = 0`, `npm = 1`) and both parities of the committee index. `n = 17`
  is the smallest node count at which the verification pass aborts, so a
  smaller bound would make `AssignPassesVerification` hold vacuously.
  `CommitteeF = 2` and `TotalF = 3` are small flag values.
- **Bootstrap.** `N = 3` gives a buffer of 3, three handshakes that interleave,
  and 6 shuffles.

### Fairness

Each `FairSpec` assumes weak fairness of every goroutine step. The Go
runtime eventually schedules a goroutine that stays runnable, and no lock is
held across steps except the one a `find_node` handler never releases.

The two modules differ in what they assume of the environment:

- **`Telemetry`** assumes nothing of it. `Accept` (a new debug client
  connecting) is not fair.
- **`Bootstrap`** does assume the environment behaves, because
  `BootstrapCompletes` is about a bootstrap in which every node takes part:
  - `AcceptConn` is fair, so all `n` nodes connect;
  - `Decode` is fair, so every node sends its identity;
  - `Encode` is fair, so every response write completes.

  Without these assumptions, a node that connects and stays silent blocks
  the bootstrap forever (a hazard listed without a property).

The decode and encode failures carry no fairness in either module.

## Proofs (TLAPS)

Every safety property that a passing run checks is also proved for all
values of the constants. Each proof follows the same pattern:

- state an inductive strengthening `Inv`;
- check `Inv` with TLC as an invariant first;
- prove `Init => Inv` and `Inv /\ [Next]_vars => Inv'`, with one step per
  action;
- finish with a `PTL` step.

### Telemetry (`TelemetryProofs`)

The only assumption is `TelemetryAssumption`: `Zero` is not a time, `Free`
is not a handler, the tags are known ones, and `FinalCap` is positive.

- **`TypeCorrect`**: `Spec => []TypeOK`.
- **`RouteFlushedOnce`**: `Spec => []RouteFlushOnce`. No route record is ever
  written twice to the results file.
- **`IdaFlushedOnce`**: `Spec => []IdaFlushOnce`. No IDA record is ever
  written twice.
- **`RouteLinesFaithful`**: `Spec => []RouteLineFaithful`. A routing line
  carries its record's end, and either its record's start or zero.
- **`IdaLinesArePrefixes`**: `Spec => []IdaLineIsPrefix`. An IDA line lists a
  non-empty prefix of its record's reconstruction list.
- **`RouteRefinement`**: `Spec => RouteStoreSpec`. The route tracker
  implements `RouteStore`.

`RouteFlushOnce` alone is not inductive. A handler at `te_flush` has not yet
appended its line, so the invariant does not say that a second handler cannot
also reach `te_flush`. The strengthening `RouteInv` adds:

- every written line's record has its end set;
- a flushing handler's record has its end set;
- a flushing handler's record has no line yet;
- at most one handler flushes a given id.

These facts are preserved because `TxReceivedEnd` sends a handler to
`te_flush` only when it is the one that set `rEnd` from `Zero`.

`IdaFlushOnce` is strengthened the same way by `IdaInv`. A written line, or
a handler at `ir_flush`, implies that its record's list is non-empty, so no
later `addReconstructed` reports "first". A flusher has no line yet and no
rival. The step for `ReconstructedAdd` splits on whether the list was empty.

`RouteLineFaithful` is proved through `FaithInv` (`RouteInv` plus the
property). A written line's end is set, so `addEnd` never changes it again.
`addStart` only replaces a zero start.

`IdaLineIsPrefix` is proved through `PrefixInv`. It is `IdaInv` plus the
property plus one more fact: a written list is never longer than its
record's list. Later appends only extend the record, so the written list
stays a prefix of it.

`RouteRefinement` rests on `RouteInv` and on the lemma `RouteStep`. Under the
mapping, each step of `Telemetry` is a step of `RouteStore` or a stutter:

- `RouteTxStart` is `MarkStart` when the start was zero, and a stutter
  otherwise;
- `TxReceivedEnd` is `MarkEnd` when the end was zero, and a stutter
  otherwise;
- `TxReceivedFlush` is `Flush`, because `RouteInv` says a flushing handler's
  end is set and its id has no line yet;
- every other step leaves `rStart`, `rEnd` and `routeLines` alone.

### Bootstrap (`BootstrapProofs`)

These theorems hold for every `N` under `BootstrapAssumption` (`N` is a
positive natural).

- **`DebugAfterResponses`**: `Spec => []DebugAfterAllResponses`.
- **`BootstrapTypeCorrect`**: `Spec => []TypeOK`. Neither WaitGroup counter
  goes negative, which would be a Go panic, and `sendIdx` stays within the
  list.
- **`RegistryCompleteHolds`**: `Spec => []RegistryComplete`.

`DoneInv` says:

- `wgDone` equals the number of goroutines not yet `finished` (`Pending`);
- a goroutine at `signal_done` or `finished` has `delivered` set;
- once main is in `debug`, every goroutine is `finished`.

`MainWaitDone` needs `wgDone = 0`, so `Pending` is empty. `SignalDone` removes
one member (`FS_RemoveElement`).

`RegInv` extends `DoneInv` with the following:

- `wg` counts the goroutines that have not yet signalled (`Unsignalled`);
- `closed` holds exactly when the coordinator has passed `wg.Wait()`;
- until the drain ends, the node list and the channel buffer together hold
  exactly the identities sent (`Sent`), one per slot (set and length);
- once past the wait, every identity has been sent, so nothing is sent on
  the closed channel;
- from `assign` on, the list is a permutation of the connections and the
  channel is empty;
- every response received is a permutation.

The drain moves the channel's head to the list's tail (`ElemsHeadTail`,
`ElemsAppend`). The shuffle keeps a permutation because rand.Shuffle's
permutations are onto (`PermsOnto`).

### Committees (`CommitteeAssignProofs`)

- **`CommitteeTypeCorrect`**: `Spec => []TypeOK`, for every `n ≥ m ≥ 1` and
  every flag value under `CommitteeAssignAssumption`.
- **`RecountCountsOwn`**: `Spec => RecountCountsOwnCommittee`, an action
  property. Every recount step adds its node to its own committee's entry
  and leaves the other entries alone. The lemma `RecountEntry` shows, from
  `CInv`, that the entry the loop writes (`RecountIc`) is `cid[i]`. Lemma
  `NextRecountOwn` shows that a recount step that advances `i` is
  `RecountStep`.

`TypeOK` is not inductive. It does not say why `iCommittee + 1` stays below
`m`, or why `checkTotalF + f` stays below `n`. The strengthening `CInv` says:

- during the assignment, the committee ids of the first `i` nodes start at 0,
  stay below `m` and step by at most one (`Chain`). `c` is the last node's id,
  and `committeeInfos` is untouched;
- during the recount, `iCommittee = lastCommittee` is the last node's id.
  Because of `Chain`, a change of id along the list moves it by exactly one,
  so it indexes the node's own committee (`RecountIc = cid[i]`). Each
  `infoNpm[k]` counts the members of committee `k` so far (`Members`), and
  `infoF[k] ≤ infoNpm[k]`;
- during the check, `checkTotalF` is at most the number of nodes in the
  committees already checked (`Before`). Committees are disjoint
  (`BeforeStep`, `FS_Union`), so this is at most `n`.

### What stays with TLC

- **Liveness.** `IdaEventuallyFlushed` and `BootstrapCompletes` hold under
  weak fairness. Proving them needs reasoning about `ENABLED` and the
  fairness conditions, which the installed backends (SMT, Zenon, LS4 for
  propositional temporal logic) do not discharge.
- **Violated properties.** The properties of the violation runs are false
  of the code, so TLC's counterexamples are the result. For
  `AssignPassesVerification`, the abort depends on the arithmetic of
  `i % t_npm` for a particular `(n, m)`. TLC shows that it fails first at
  `n = 17`.
- **Small instances only.** Every model-checked result holds only on the
  instances in *Bounds*, except where a theorem above states it for every
  instance.

## Findings

1. **Hop self-deadlock** (`src/coordinator.go:54`, `code_bug`). `add` holds
   `r.mux` and calls `init`, which locks `r.mux` again. Every `find_node`
   handler blocks forever.
2. **IDA start overwrite** (`:531`, `spec_code_divergence`). The start time is
   written without the mutex and is overwritten by later reports.
3. **Index-out-of-range panic** (`:324`) when `n % m > n / m`.
4. **Division by zero** (`:385`) when no node is flagged adversarial and
   `n/m ≠ 1`.
5. **Dead aggregate check** (`:385`). `1/int(totalF)` is 0 in integer
   arithmetic, so the check never fires.
6. **Verification abort** (`:343`, `code_bug`). Nodes are flagged
   adversarial by their global index (`i % t_npm < f`), so the remainder
   committee's count is not spec 4.2's formula for its size. At `n = 17`,
   `m = 3`, its 7 members get 4 adversaries, and `4 ≥ ceil(7/2)` trips the
   check on line 378: log.Fatal aborts the bootstrap. No `n ≤ 16` fails.
7. **Late reconstruction reports are lost** (`:542`, `spec_gap`). The first
   appender writes the list once, after a fixed sleep. Reports that arrive
   later stay in memory only. Spec 4.4 asks for the full list.

## Not modelled

- The CLI and node launcher in `src/main.go`. They are pure configuration and
  I/O.
- The consensus and IDA-success counters, whose calls are commented out (the
  tags themselves are dispatched, by `InertTag`).
- The content of blocks and hashes, and the text of the log lines.
- The transaction generator's own work: only its receive from
  `finalBlockChan` is modelled, from the spec.

## Plan for further work

- Action properties of the trackers (a written line is never removed or
  changed), stated and proved as `[][A]_vars`.
- A closed-form statement of the remainder committee's adversary count,
  to replace the per-instance TLC run.
- A model of `txGenerator`, if it is brought into the repository, to decide
  whether blocked `finalblock` handlers are released (line 475).
