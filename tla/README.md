# Verification of Solana Storm

TLA+ models of Solana Storm, the TLC runs that check them on small instances,
and TLAPS proofs of the most important properties for every value of the
constants. Paths below are relative to the repository's root.

## 1. Inventory of the system

### A. `storm-collector` (Rust): the survival-data collector

*State.* One SQLite store: `graduations` (with a status), `feature_snapshots`
and `outcomes` (one row per graduation at most, by a UNIQUE constraint), and
`collector_state` (discovery cursor, heartbeat). A cycle keeps nothing in
memory for the next one.

*Operations.* `run_cycle` = `discover_phase` (read the slot, read the cursor,
page through `getProgramAccountsV2` with `changedSinceSlot`, insert what was
found, advance the cursor), `snapshot_phase` (features of every pending
graduation whose observation window elapsed), `outcome_phase` (label of every
snapshotted one whose outcome window matured), heartbeat. `run_daemon` repeats
it; `--once` runs it once.

*Interaction.* Through the store only: a daemon and any number of `--once`
runs share it, with no transaction wider than a statement. The chain moves on
its own between the RPC calls.

*Hard.* Idempotency guards that are read before and used after slow RPC calls;
a row and the status announcing it written apart; a scan whose pages are
read at different slots; restarts anywhere.

*Correct when* no graduated pool is skipped, features come before labels, each
once, after its window, and every matured graduation ends labelled.

### B. Account stream (`crates/storm-solana/src/ws.rs`, Rust)

*State.* A socket, the subscription ids of this connection, a reconnect delay,
a bounded channel to the consumer. *Operations.* `subscribe_accounts`: connect,
ask for one subscription per account, forward notifications, start over when
the connection ends, until cancelled or without a receiver. *Interaction.*
Frames from the RPC node, the channel, a cancellation token. Nothing in the
repository calls it yet. *Hard.* Confirmations in any order, ids that mean
something else in the next connection, a full channel, and awaits without a
timeout: a handshake, a write or a read that never returns. *Correct when*
updates arrive in order under the right account, and the task stops or comes
back.

### C. The fund, SMAF (`predictions/fund`, Python)

*State.* `account.json` (cash, holdings with stop, take-profit, peak, entry
consensus, running totals), the journals `trades.jsonl`, `equity.jsonl`,
`stop_triggers.jsonl`, `closed_trades_audit.jsonl`, `bugs.jsonl`,
`probe_log.jsonl`; for what it learns, `universe_price_history.jsonl`,
`reflection_inputs.jsonl`, `reflector_runs.jsonl`, `lessons_reflections.jsonl`
and `lessons.md` with scoreboards, rules and risk parameters.

*Operations.* `execute_pm_orders` at the end of a tick (orders, audits of
closes, stop updates, save), `mark_to_market_all` at its beginning and from the
`mark` and `status` commands, `audit_close` with its tuning, the phase-6
orchestrator (record the universe, compare, stage, persist the Reflector's
answer, refresh `lessons.md`), the checks of `healthcheck.py` and
`auto_audit.py`.

*Interaction.* Through files, each rewritten whole through a temporary file.
No locks.

*Hard.* Journals written at once and the account at the end; a copy of the
account held across HTTP calls by another command; the history of a closed
position surviving into the next one; wrong quotes; programs killed between any
two files and run again.

*Correct when* the account is what its journal makes of the deposit, a close
is audited once, risk levels belong to the position they guard, triggers
happened, rules are earned, and self-tuning stays in bounds.

### D. Pump predictions (`predictions/`): agents, audit queue, paper portfolio

*State.* `pending.jsonl`, `shadow_watches/`, `outcomes/`, `lessons.md` with hit
rates, a decision file per specialist, a table of curve snapshots.
*Operations.* `enqueue`, a specialist's run, `audit_tick`, the allocation of
the fund manager, the paper portfolio. *Interaction.* Cron jobs and shared
files. *Hard.* Queue and statistics are read, processed over slow lookups and
rewritten one after the other. *Correct when* each pick is judged and counted
once and the sizes that follow fit the book.

### E. `bootstrap/`: historical ETL from Dune

*State.* A cache file per stage and batch, two SQLite tables. *Operations.*
`run.py` (list, sample, six stages of batches, load) and `run_snapshots.py`
(a stage per day). *Hard.* Runs that end anywhere, queries that time out and
cost credits, batches found by their number. *Correct when* labels and features
are those of the token and of its time, and a re-run pays for nothing twice.

### F. `model/`: survival model and backtest

*State.* None between runs; in a run, folds, baskets, the bankroll with its
slots. *Operations.* load, filter, train, score, backtest each arm, report and
gate. *Hard.* What is known when; events of one instant; money that recycles.
*Correct when* no capital appears or is stranded, stops and labels agree with
the fills, models see only the past, and a passed gate was earned.

### G. Outside the verification

Account-byte parsing and price math, configuration, `storm-cli`, fetchers,
sentiment and news, indicators and prompt assembly, plotting, docs, CI.
`PROJECT.json` lists every component with its reason; see also section 7.

## 2. Plan

The most important behaviour first. Done:

1. Collector (`Collector`, abstract `LabelledDataset`) with proofs.
2. Fund account and order execution (`Fund`) with proofs.
3. The fund's files (`AtomicFile`, abstract `AppendLog`) with proofs.
4. Audit of the predictions (`Predictions`, abstract `AuditQueue`) with proofs,
   and the sizing that rests on it (`FmAllocation`).
5. Bootstrap (`Dune`, `Etl`) with proofs about its credits and its data.
6. Phase 6 (`Phase6`, `Reflections`, `RiskCalibration`) with proofs of all its
   properties.
7. Backtest (`Costs`, `Graduations`, `Backtest`, `Walkforward`) with proofs of
   all its properties.
8. Account stream (`AccountStream`, abstract `AccountFeed`) with proofs.

Left: a tick of the fund as one composition of `Fund` and `Phase6` (they share
`audit_close`, which each models with the part of the state it writes); the
staging of prompts and the indicators, which keep no state.

## 3. Modules

| module | models | source |
|---|---|---|
| `Collector` | one action per SQL statement or RPC call of a cycle, per process; the chain | `src/bins/storm-collector`, `src/crates/storm-store` |
| `LabelledDataset` | what the collector promises: track, observe, judge, each once | |
| `Fund` | `execute_pm_orders`, `audit_close`, `mark_to_market_all`, one action per file operation | `src/predictions/fund/{runner,account,audit,fees_model}.py` |
| `AtomicFile` | `_atomic_write` and `_append_jsonl` down to inodes | `src/predictions/fund/account.py` |
| `AppendLog` | what readers of a JSONL file rely on | |
| `FmAllocation` | scores and sizes of the fund manager, as operators | `src/predictions/agents` |
| `Predictions` | specialists, queue, `audit_tick`, portfolio | `src/predictions/audit`, `src/predictions/diary`, `src/predictions/runner.py` |
| `AuditQueue` | a pick leaves the queue only counted | |
| `Dune` | the queries, as operators on trades | `src/bootstrap/queries.py` |
| `Etl` | the two programs, their cache and tables | `src/bootstrap/*.py` |
| `Reflections` | rules from the rows about them | `src/predictions/fund/lessons_io.py` |
| `RiskCalibration` | the tuning rules | `src/predictions/fund/risk_calibration.py` |
| `Phase6` | closes, ledger, what-ifs, Reflector, refresh | `src/predictions/fund/{phase6_orchestrator,universe_price_history,stage_phase6,audit}.py` |
| `Costs`, `Graduations` | fills; data set, filter, label, folds, baskets | `src/model/*.py` |
| `Ranks` | sorting, and the rows that a mask selects, as operators | `sort_values`, `sorted`, `df[mask]` in `src/model/*.py` |
| `Backtest` | the event loop of one backtest | `src/model/backtest.py` |
| `Walkforward` | the whole run, report and gate | `src/model/{run,walkforward,report}.py` |
| `AccountStream` | the task, await by await; node, consumer, canceller | `src/crates/storm-solana/src/ws.rs` |
| `AccountFeed` | a feed without gaps or mix-ups | |

`XProps` has the properties of `X`, `MCX` its instances for TLC, `XProofs` its
proofs; `LogProofs` has those of `AtomicFile` and of the account stream, and
`SetLemmas` what the proofs need of sums over finite sets and of sets in the
order of a rank.

### Collector

`cursor`, `heartbeat`, `status`, `detectedAt`, `snapshotAt`, `outcomeAt`,
`verdict` are columns of the store; `None` stands for a missing row. `pc[p]` is
the statement process `p` executes next and `cycle[p]` the locals of its cycle.
`time` stands for slots and for Unix time at once; `changes` (the slots a pool
was created and traded in) and `quote` are the chain. `ScanLag` is how far
behind the slot that `getSlot` returned the state may be that a page of the scan
is read from: the scan names no commitment (`gpa_v2.rs:56-61`), so it is the
distance between the node's default and the client's `confirmed`
(`rpc.rs:37`). `reached`, the slots the cursor was moved to, is history.
`Abort` is a crash or an error carried out of the cycle by `?`; `ItemFails` is
an error in one item of the loops, which is logged and skipped.

### Fund

`account` is `account.json`; `state` is the copy `execute_pm_orders` works on,
`view[v]` the copy of a viewer, that is a process running `mark`, `status` or
`prepare`. `trades`, `audits`, `triggers` are the journals, `scored` the
counter in `lessons.md`, `unstopped` the entries of `bugs.jsonl` about buys
without a stop. Dollars and units are small integers, and the enumerated orders
are those whose units come out whole. A stop, a take-profit, a peak, a first
buy and an entry consensus are represented by the trade (its place in the
journal) they were set by or for: the properties ask which position they belong
to, not how high they are. `position`, `applied`, `swept` and `residue` (what
the units are worth that a sale leaves) are history. The snapshot of the entry
consensus may fail, which is logged and leaves what an earlier buy put there, or
nothing (`runner.py:257`).
Orders that change nothing (malformed, above the slippage cap, beyond the cash,
sales of nothing) are disabled actions.

### AtomicFile

`file` and `tmp` are the inodes the two names lead to, `data` the content of
every inode, `fd[w]` the inode a writer has open. `WriteTmp` lets any prefix
reach the inode. A writer that crashed starts over with what it left.

### Predictions

`pending`, `shadows`, `outcomes`, `lessons`, `decisions` are files; `pc[t]`,
`due[t]`, `kept[t]`, `fm[t]` the step and the copies of audit tick `t`.
`JudgePick` and `JudgeWatch` look one entry up and write its outcome, or leave
it for later; `WriteLessons` and `RewritePending` are the two rewrites at the
end. Reserves are small naturals and a pool answers any of them, or fails;
whether a pick won follows from them as in `audit_outcome.py`. What a
specialist says is one of a few decision files. `counted`, and `torn`, the
ticks that were killed between the two rewrites, are history. The portfolio
counts outcomes of kind "pick", which the processor never writes
(`processor.py:255-257`), so nothing of the queue comes into it; what its
docstring says of it is in section 6.

### Etl

`cache` maps a stage and a batch number to a file, which holds rows, says
"timed out", or is torn. `proc[p]` is a program with its locals; `Query` may
answer, time out (NULL columns in the stages that survive it) or fail, also
when the execution is done and charged for and only fetching its result fails;
`WriteCache`, of the rows or of the timeout's marker, is the step after it, so
that a crash in between wastes the execution or tears the file. Dune is, for
each token, its trades, the balances of its holders, and whether its creation
was decoded and its mint authority revoked; each query is an operator on that
which sees what happened until now. Columns of one stage are
represented by one value; `todo` is the set of tokens a program works on, which
each stage sorts in an order of its own. `spent` counts the executions Dune
charges for. What is assumed of the parameters: tokens graduate at different
times and no two trades of a token are at one time (Dune's `ROW_NUMBER` may
decide between such trades either way); tokens, and trades of a token, are
finitely many; batches are not empty; and a token is followed for at most the
14 days of `_NUM_SNAPSHOT_DAYS`, which end before its outcome window does, so
that all its snapshots can be had once it is settled.

### Phase6

`ledger`, `staged`, `payload`, `answer`, `runs`, `reflections`, `audits`,
`lessons` are files, `pc` the step of the program that runs; the programs of
the fund's session run one after the other, so there is one `pc`. A `World`
says what the universe is, which quotes a round may bring (the feed's price
beside the true one), what the Reflector may answer, under which ticks a caller
may file it and how trades may close. An order the account refuses leaves
`holdings` alone and is tagged as executed all the same; phase 6 may be run any
number of times for one round. The Reflector proposes rules unnamed or under
names of its own (`OwnName`), judges any it was told of or just named, and may
leave out the tick. A name of its own is assumed to differ from the names that
the code makes. The `origin` of a ledger row (of which the file has only whether
the price was carried forward), `by` of a run (who said which tick it is of) and
`run` of a reflection row are history.
`Reflections!Aggregate` is stated on the rows as a set, the code folds them one
after the other. The payload keeps the last 50 rows, and a world has fewer.

### Backtest and Walkforward

`tables` and `frame` are what is loaded and kept, `months` the folds to come,
`basket` the model's choice (any set its scores allow), `arms` the backtests to
come, `results` and `report` what comes of them. In a backtest `pending` are
the events, of which any of the earliest may be next since the code sorts a
list filled from a Python set. Amounts are whole units and rounded down. Rows
are sorted by their rank, which counts the rows before them; the rank of a row
of the table breaks ties by the place in it, since the sort is stable. What the
code fixes by constants is assumed of the parameters: the entry lies within the
first day (`backtest.py:31`, 12 hours) and the filter's liquidity is positive.

### AccountStream

`pc` is where the task waits. `requests`, `subs`, `refused`, `wire` and
`connected` are the node's side; `channel` counts, and `fed` lists, the updates
sent to the consumer. `link` is the way between the two: open, deaf (nothing
comes of it any more, as of a half-open connection), or full (nor does a write
return). No await of the task has a timeout, so it hangs as long as the link is
so. Cancellation is looked at where the code selects on it: while reading, while
waiting to reconnect and at the top of the loop, and not while it connects,
subscribes, answers a ping, says goodbye or sends to the consumer. The list of
accounts has no duplicates, and changes have one order.

## 4. Runs

| run | shows | bounds |
|---|---|---|
| `collector_pair` | two processes, a crash or failed item at any statement: `StatusBacked`, `RowsAreFinal`, the refinement `IsLabelledDataset`, and `MaturedIsSettled` | 1 token, 2 ticks, no observation window, 1 fault |
| `collector_solo` | two tokens graduating and trading during the paged scan, whose pages may be two slots old: what discovery may lose and no more, `NoGraduationLost`; windows at their boundary and beyond: `WindowsRespected` | 1 process, 3 ticks, 1 fault |
| `stream_feed` | the refinement `IsAccountFeed` and `StopsOrFollows`, against a node that answers in any order, refuses, breaks off and goes dead | 2 accounts, 2 ids, 2 changes, channel of 1, 2 faults |
| `fund_faulty` | order execution against a viewer, crashes, failed audits and failed snapshots: cash, journal, levels, audits | 1 token, 3 trades, 1 viewer, 1 fault |
| `fund_alone` | exact totals and audits without faults, dear tokens included | 2 tokens, 5 trades, 3 depths, 2 prices |
| `fund_phantom` | a comment the code does not keep | 4 trades |
| `file_one` | one writer is atomic and appends | 4 rows, any number of crashes |
| `predictions_audit` | counts against outcome files across kills and failed lookups, sizes, queue, watches, and that queued picks are counted at last | 2 specialists, 2 picks, 1 watch, 1 fault |
| `etl_resume` | labels, features, credits, sample and snapshots, and that the sample is loaded at last | 4 tokens, 2 days, 2 faults |
| `etl_pilot` | a statement of the bootstrap's README the code does not keep | no fault, samples of 1 and 3 |
| `phase6_learn` | ledger, triggers, silence, rules, calibration, refresh | 7 worlds of up to 8 ticks, 1 kill |
| `backtest_report` | money, stops, labels, folds, gate | 3 worlds, 2 slots, up to 2 tested months |

Why the bounds suffice. For the collector, every interleaving that matters is
between two statements of two processes on one row, so two processes and one
token show the races, and two tokens the scan and the item loops. Without an
observation window the races over the feature row and over the outcome fit into
two ticks, in which `collector_pair` can also check liveness; the three ticks of
`collector_solo` let a window elapse at its boundary and beyond it, and with a
lag of two slots a pool both be lost and be found again when it trades; the
proofs cover every size, of the lag too. For the fund, three trades are the
shortest history in which a position is opened, closed and opened again, five
make room for two tokens and for adds and trims, and a price of 3 makes units
dear enough for a close that leaves more than dust. One fault puts a crash at
every point of every such history; where two can matter (a timeout and then a
kill, a refusal and then a lost connection) there are two. In `stream_feed` two
ids for two accounts are enough for an id to change its account between
connections, and two changes for one to wait behind another in a full channel.
In `predictions_audit` two picks of different kinds and owners and one watch
fall due in one tick or in two; one tick runs at a time there, as it does while
a tick ends within the ten minutes between two (`processor.py:316`; section 6
says what happens otherwise), while the theorems `PredictionTypes` and
`WatchesAreKept` hold for any number. In `etl_resume` batch sizes differ by
stage, two months do not divide the sample, tokens live, die, and settle only in
the second of two times, owners come and go, and a mint authority is given up
before the graduation, after it, or never. `phase6_learn` separates what does
not interact into worlds (bad feeds, silence, trading, several symbols, judging,
filing, closing); it has `RejectAt = 2` and `MinObservations = 2` where the code
has 3 and 10, so that histories stay short. `backtest_report` has more tokens
than slots, abandoned tokens, missing snapshots, entries and exits of one
instant, a month too thin to test and too few months.

*Symmetry* is used for tokens (`collector_solo`, `fund_alone`), rows and inodes, never
where liveness is checked. `CHECK_DEADLOCK FALSE` is said where the system
really stops: a full file, the last hour or round, a program that is done, a
task that was cancelled.

*Fairness.* `Collector`: weak fairness of each process's `Step`, because the
daemon's loop starts a cycle after every sleep and a cycle awaits only calls
with timeouts; and of time. `Predictions`: of time, of the cron job that starts
a tick and of its steps, since lookups time out. `Etl`: of time, of starting
the program again and of its steps. `AccountStream`: weak fairness of the task,
which the runtime polls, and of the node's answers to requests, both of which are
disabled while the link is dead; and strong fairness of the cancelled branch of
the `select!`, which tries its branches in a random order, so that no flood of
frames keeps the task from seeing the cancellation. Nothing is assumed of a dead
link, which may stay so for ever, nor of the consumer, which may never receive.
Nowhere is fairness assumed of graduations, trades, crashes or failures, and
faults are finitely many: a graduation whose extraction failed for ever would
stay pending for ever, since the code has no give-up path.

What the liveness properties leave open is in them. `StopsOrFollows` excepts a
task that is `Blocked` on a full channel or `Hung` in a connect or a write, for
cancellation does not reach it there, and promises nobody an update while the
link is dead, which the task does not notice. `Resumable` assumes that no cache
file was torn, since a torn file ends every later run until it is deleted.

## 5. Proofs

For any number of processes, tokens, writers, picks and rows, without bounds.

`CollectorProofs`: `TypeCorrect`; then `Backed`, the inductive invariant behind
`StatusBacked`, `WindowsRespected` and `RowsAreFinal`. These are not inductive
alone because a process acts on a queue and on a guard it read long ago.
`Justified(p)` says what it may still rely on: that a queued graduation is
tracked and due, that one it is about to mark has its row. None of these facts
is ever taken back by another process, which is the heart of the proof.

Of the discovery: `DiscoveryLeavesNoGap`, whatever the lag of the scan: a pool
is lost only if all that happened to it fell within the last `ScanLag` slots
before a slot that the cursor was moved to (`Missable`), and only until it is
traded again. The invariant `Covered` says that while a scan runs every pool
changed before the slot it will move the cursor to is tracked, found, on a page
still to be fetched, or changed too late for this scan to be sure of; it needs
that slots never run ahead of the chain (`ClockAhead`). One slot of lag loses
nothing because `changedSinceSlot` is inclusive; section 6 says what the code's
lag loses.

And `StoreIsLabelledDataset`, the refinement of `LabelledDataset`, step by step.

`LogProofs`, of the files: `FileTypeCorrect` for any number of writers;
`OneWriterIsAtomic` and `OneWriterAppends` for one, from the invariant
`Exclusive`: the writer's inode is the temporary one and never the file's, and
holds exactly the intended content when it is renamed. `ExclusiveStep` uses two
lemmas on what a partial write over an older content leaves.

`LogProofs`, of the account stream: `FeedIsKept`, the refinement of
`AccountFeed`, for any accounts, ids, capacity and number of faults. What is
due to the consumer is the update in the task's hand and what is notified on
the wire under the account the node means. The invariant `Attributed` says that
the task is right about every subscription it knows (`Attribution`), and that a
notification comes after the confirmation of its subscription, which is on the
wire or was taken note of (`Told`; `Heard` for those yet to be notified of), so
that no notification is ever thrown away as unknown. A new connection empties
the wire and forgets the ids together, which is what lets the node give them to
other accounts. The rest is what the recursion over the frames makes of a frame
more, a frame less and a wire that is cut (`NotifiedMore`, `NotifiedLess`,
`NotifiedBroken`), by induction up to the length of the wire (`CountedUp`).

`FundProofs`: `FundTypes`, `FundSolvent`, `FundHistoryIsOwn`,
`FundUnprotectedIsReported` and `FundAuditsAreCloses`, all from `FundInv`. Any
copy of the account may be saved arbitrarily late over newer ones, so an
invariant of `account.json` alone is not inductive: every copy in memory must
satisfy it too. `Sound(h, t)` says of one holding what the journals must back,
and mentions them only through what stays true as they grow (`Grows`), so that
a copy which was sound when it was loaded is sound whenever it is saved
(`SoundCarried`). What an order does to the numbers is proved apart
(`CostBounds`, `ShareBounds`, `SoldType`, `BoughtType`): costs never exceed the
trade because the pool fee and the slippage cap stay below 100 percent together,
and a partial sale releases less than the whole basis. `AuditInProgress` is
needed because an audit row is appended two steps after its trade. The proofs
use that the dust threshold is positive: with none, a position sold out could
not be told from dust and would pass its history on to the next one.

The totals: `FundAccountIsJournalled` (part of `FundInv`) says that every copy
of the account is, in cash, costs and number, what some of the journalled
trades make of the deposit; `applied`, the trades a copy has seen, is history.
`FundLedgerBalances` and `FundClosesAreAudited` assume `Alone`, no viewer and no
fault, since section 6 shows that they fail otherwise; then `NothingIsLost`
says that the copy in use has seen every trade, and `ClosesInv` that every close
was audited, or is being audited, and that a position which is still open after
that is one whose sale left more than dust (`LeftOpen`). For any prices: what
such a sale leaves is stated and not assumed away.

`PredictionProofs`: `PredictionTypes` and `WatchesAreKept` for any number of
ticks at once; `QueueLosesNothing`, the refinement of `AuditQueue`, for one tick
at a time with nothing queued meanwhile (`AloneAndUndisturbed`). Its invariant
`QueueInv` says of the tick in progress that what it judged is counted in its
copy, that what it will leave in the queue together with what is still to judge
is the queue, and, between its two rewrites, that what it drops is counted on
disk. `StatisticsAgree`, for any number of ticks: every copy of the statistics
is of one series of audits, the total with each share. `CountsHold`, again for
one tick and `AloneAndUndisturbed`: statistics, outcome files and queue tell one
story whatever is killed and whichever lookups fail. A settled pick is counted,
and counted once but for each tick killed between its two rewrites (`torn`). The
invariant `Tallied` says it of the copies on the way: what the tick has judged
is counted in its own, of which `lessons.md` knows nothing until it is
rewritten, and a tick that dies before takes its copy with it and leaves only
outcome files, which are written again. `BookFits`: whatever
the statistics and the decisions, the sizes fit the book; it is a theorem about
the operators of `FmAllocation` (`SizesAreFair`: scaling down by a common factor
keeps the sum within the book and the order of the sizes).

`Phase6Proofs`: every property of `phase6_learn`, for any worlds.
`CalibrationStaysBounded`, from `Calibrated` (every parameter within its bounds,
the tally balanced) and `Earned` (nothing moved before enough closes were
logged, of its own bucket for a penalty, whatever step of a close a kill left
out); `RejectionIsFinal`, from `RulesOfFile`: the rules in `lessons.md` are those
of some rows that are still in the file, which only grows, and disconfirmations
of a prefix are disconfirmations of the whole. `RefreshAlwaysHeals`, from
`Healing`: what is between the refresh of the counters and the end agrees with
the file.

`RulesStayEarned` has three parts. `FiledOnce`: the guard of
`persist_reflector_output` reads the last row only, so an answer without a tick
is filed again whenever the ledger has moved on, and a caller's tick in between
reopens even one that has a tick; that is all. The invariant `Filing` says how
ticks and times of the runs go together. `RunsAreWhole` (`Whole`): a run has no
more rows than its answer, and fewer only if it is being persisted or was
killed. `ValidatedEarned`: a validated rule has a row that proposed it and a
later one that confirmed it, and, if the code named it, from a later answer,
because the Reflector can only judge a name it was told of; one the Reflector
named itself may be confirmed in the very answer.

`SilenceStaysBounded` speaks of `payload`, the ticks for which the Reflector's
input was really written, and not of the flag: after a kill between the two the
tick passes for asked. From `Spaced` (a stretch of rows is no longer than a
period of `ForceAfter` for each row that passes for asked, and the time since
the last) and `Asking` (of those, no more than there were kills have no input)
follows that every kill adds one more period and no more.

`LedgerStaysSound` rests on `Ledger`: the rows of a tick are together
(`InOrder`), a run that is recording has the last tick and a row for each symbol
that is done (`Recording`), and no two consecutive prices of a symbol jump
(`Unbroken`). It and `SilenceStaysBounded` assume `UniverseIsNeverEmpty`: with
nothing to record `snapshot_tick` writes no row and the next run has the same
tick; the scouts that hand over the universe are outside the repository.

`TriggersStayReal` assumes nothing of the quotes. The property itself names the
case in which a trigger may be false, that a wrong price near enough to the last
was recorded for the symbol (`NeverFooled`); otherwise every price recorded is
true or carried forward from a true one, so that a wrong quote is out of all
proportion to the price of the tick before, and the clamp of the what-ifs sorts
it out (`Real`, `Covered`, `Traced`, which trace a price row by row to the
genuine one it comes from).

`EtlProofs`: `NothingIsPaidTwice`. The bound on the credits is not inductive
alone: `WritesAreFresh` adds that a program writes only files that are not
there, because it looked before it queried and the other program's files have
other names (`OwnFiles`), so that no answer on disk is ever overwritten.

The data: `EveryLabelIsTrue`, `EveryFeatureIsKnowable`, `EverySampleIsSound` and
`EverySnapshotRunCompletes`, for any tokens, trades, batch sizes, timeouts,
kills and re-runs. They assume `OneSize`, that all runs ask for one sample size,
since with two the first of them is false (section 6). None is inductive: a row
is made of what a program has got in many steps, from files that other runs
wrote. `ResumeInv` says where it all comes from. The list is fixed by its file
(`IsListed`), the sample by the list (`Selected`), the batches by the sample
(`BatchesOf`), and a file of a batch holds what Dune said of these tokens once
the last of their windows had closed (`Filed`, `AnswerTo`); a program has got
exactly what is in the files of the batches before the one it is at (`Reading`,
`Taken`), and the days that a run of the snapshots has done are complete
(`DaysDone`). Nothing of this is taken back as files are added (`FiledKept`),
and that a file is added and never overwritten is the invariant of the credits
again. A timed-out marker is filed under the same conditions as rows, so that a
missing feature leads back to a batch its stage gave up on (`GivenUp`), to a
token Dune has nothing on, or, for the holders, to a run that skipped them. A
program works on the whole sample or, since the table is loaded in one
transaction, on nothing, so its batches are those of the sample
(`BatchIsOfSample`), which is what a second size breaks. At the end of a stage
the answers of its batches are put together for each token: batches are a
partition (`BatchesCover`), and what a settled window says of a token depends
neither on the batch nor on the moment it was asked (`SettledWindow`,
`AnswersTell`). That a sample is stratified is arithmetic: the first of the
months in order get one more until the rest of the division is used up
(`SampleFits`, `SampleIsStratified`, by `SetLemmas`' ranks).

`WalkforwardProofs`: `CapitalIsKeptAtWork`, `ProfitsAreLabelled`, `StopIsKept`,
`ModelsAreTrainedOnThePast` and `ReportsAreEarned`, for any tables, slots, stop,
costs and baskets.
The inductive invariant has two parts, which `BacktestIsSound` proves together.
`Folding`, of the run: the frame is in the order of time with one row a token
(`FrameIsLoaded`, `FoldsAreFrames`), and the model and its basket are those of
the month being tested. `BacktestInv`, of the event loop. `Scheduled`: a token
whose entry is to come has its exit to come and was never held; what is open or
was sold is so at the times and amounts of its row. `Chronological`: whatever
was opened or sold, it was not after what is to come. `Balanced` and `Drawn`:
slots, SOL and curve add up. `SkippedForCause`: when a token was passed over,
the slots taken and the SOL idle at its entry left nothing for it. The property
says this of the round trips at the end, among which are positions that were
still open then; `HeldAt` and `IdleSoFar` count both, so that a sale later on
moves a position from one to the other and changes neither, as long as it is
later than the entry that was passed over (`CloseIsForCause`). That fails for
the entries of one instant, so the invariant adds that what is left of that
instant are entries, which find nothing either: exits sort before entries, and
an exit is later than its own entry, which is why the code moves a horizon that
is not. `GainNeedsPrice` shows that buying and selling in a constant product
pool, with fees and rounding, gains only if the price of the label rose; and
`SplitParts` that a calibration slice is never everything. For the report,
`Reporting` adds that every curve begins with the bankroll and that the arms have
been through equally many folds (`FoldsDue`), so that their equities are scaled
alike and can be compared. `ChainEnds`: the folds' curves, each scaled to begin
where the last one ended and put one after the other, begin at the scaled
bankroll and end at the product of the folds' factors; `ProductOfParts`: however
the folds are parted into regimes, the products of the parts multiply up to it.

Sums (`SetLemmas`) are folds, which the library defines by recursion over
subsets. What they compute is proved by taking a smallest subset for which it
fails (`MinimalSubset`): first that the recursion has a solution
(`SummationExists`), then what adding, leaving out or changing one summand does
to a sum. `Ranked` and `SubsequenceLists` say what sorting by rank and selecting
rows by a mask return: every member once, in order. Products, and lists put
together by `FlattenSeq`, are treated the same way where the report needs them
(`ProductByChoice`, `FlatEnds`).

Assumed: the named `ASSUME`s of the modules, which TLC evaluates in the runs,
and the premises named above: `AloneAndUndisturbed`, `Alone`, `OneSize`, and
`UniverseIsNeverEmpty`, which `MCPhase6` has TLC evaluate for its worlds.

Model-checked only: liveness (`MaturedIsSettled`, `QueuedIsCounted`,
`Resumable`, `StopsOrFollows`), which is out of the prover's reach. Every safety
property of a run is also a theorem.

## 6. What the code does not keep

Two runs find a violation of a statement in the repository; `PROJECT.json`
quotes it. `fund_phantom`: a position closed to exactly zero leaves its stop and
take-profit to the next position of the token. `etl_pilot`: a full run after
the pilot run reads the pilot's cache files as answers to its own batches, and
labels those tokens abandoned.

### With a model to reproduce it

- *`src/crates/storm-store/src/lib.rs:63`, "terminal state".* A process that
  read a graduation before another labelled it can set it back to
  snapshotted: `OutcomeDoneIsTerminal` as a PROPERTY of `MCCollector` with two
  processes, `ScanLag = 0`, `MaxTime = 3`, `MaxFaults = 1`.
- *`cycle.rs:76-78`, "the live collector starts fresh from here".* Old pools
  that trade after the cold start are inserted as graduations too:
  `OnlyNewGraduations` as an INVARIANT with one process.
- *The cursor passes pools that no scan has seen.* `cycle.rs:70-74` takes the
  slot at the client's `confirmed` (`rpc.rs:37`), while the scan's parameters
  name no commitment (`gpa_v2.rs:56-61`, `149-154`), so that the node reads it at
  its default, `finalized`, some thirty slots behind. A pool created and last
  traded in between is on no page of this scan nor of the next one, and is
  missing from the data until it is traded again. `NoGraduationLost` without
  `~Missable(x)` in `Owed` is violated in `collector_solo`, where the lag is two.
- *`src/predictions/fund/healthcheck.py:69`, fee totals are the sum of
  trades.* Not after an overlapping `status`, which saves an old copy:
  `LedgerBalances` with one viewer and four trades; nor after a crash.
- *`src/predictions/fund/account.py:7`, "atomic write".* The temporary name is
  fixed, so that two processes write into one inode: `WritesAreAtomic` with
  `Writer = {w1, w2}`, four inodes, `MaxRows = 2`.
- *Closes and dust.* Dust is swept below one cent while a close is recognised
  below 1e-4 units: what an audited close of a dear token leaves stays open and
  its sale is audited as a second close. `AuditedOnce` without `LeftOpen` is
  violated in `fund_alone`.
- *`paper_portfolio.py:12`, "one continuous audit ledger".* It counts outcomes
  of kind "pick" (`:92`, `:132`), which the processor never writes
  (`processor.py:255-257` writes "standard" and "curve_stage"), so no pick of the
  second version is ever in it: `PortfolioIsComplete` as an INVARIANT in
  `predictions_audit`.
- *`queries.py:316`, the mint authority "revoked by graduation".* The query puts
  no bound on the time, so that the flag is of the day it was asked:
  `FlagsAreOfGraduation` as an INVARIANT in `etl_resume`.
- *`lessons_io.py:360`, "the rule to keep holding in a later live tick".* A rule
  is validated by any confirming row, and ticks are not compared (`:335-337`,
  `:377-382`): one that the Reflector named itself (`phase6_orchestrator.py:77`
  keeps the name) may be confirmed by the answer that proposed it.
  `ValidatedEarned` without `Made(id) =>` is violated in `phase6_learn`.
- *Enqueueing during an audit tick* loses the entry when the queue is
  rewritten: `IsAuditQueue` with `EnqueueBusy = TRUE`. Nothing in the
  repository enqueues by itself yet.
- *Two audit ticks at once* count a pick that both read twice: `IsAuditQueue` with
  `Tick = {t1, t2}` and no fault. Nothing in the code keeps a slow tick and the
  next one apart.
- *`ws.rs:38`, reconnects "until `cancel` fires".* Cancellation does not end a
  task that waits for room in the channel (`ws.rs:122`), nor one that waits for
  the handshake (`:52`), for a request, a pong or a Close frame to be written
  (`:105`, `:114`, `:128`), none of which has a timeout: `StopsOrFollows` is
  violated without `[]Blocked`, and without `[]Hung`. A consumer that waits for
  the task before it drains the channel waits for ever.

### Met while modelling, without a run

*Collector.* `extract_features` reads mint, curve, pool, reserves, holders and
signatures in separate calls at different slots, and the row is stamped with
the time the cycle began.

*Account stream.* The task sends no pings of its own, so a half-open connection
is never noticed while it is read from, and its accounts are not followed until
the node says something. A dropped receiver is noticed only at the next update or
reconnection. A refused subscription is skipped silently. Changes during a
reconnection are not fetched. The delay is reset by the handshake, so a node
that accepts and closes is retried every second.

*Fund.* `check_audit_coverage` counts partial sales as closes, so it reports a
gap after every trim. When the snapshot of an entry consensus fails
(`runner.py:257`) the position keeps that of an earlier buy, or has none and
its close is never audited.

*Predictions.* A crash between `lessons.md` and the queue counts the tick's
picks twice. An entry that always raises blocks the queue. A failed RPC call is
judged as a loss of 100 %. `hit_rate_last_30d` is never written. A SKIP with a
convergence bonus gets a size. A comment announces lower-case booleans and the
file has Python's.

*Bootstrap.* A cache file is written in place, and a torn one ends every later
run. Holders are counted twelve hours after the earliest graduation of a batch
ordered by mint, when most of its tokens did not exist, so that most have none.
`intraperiod_snapshot_sql` says that the
orchestrator inserts NULL rows, which it does not.

*Phase 6.* `phase6_orchestrator.py:13` says "re-running on the same tick is a
no-op"; each run takes the next tick. `:41` says that persisting an answer is
idempotent, for which only the last row is looked at: an answer without a tick
is filed again under each new one, and one filed under a caller's tick in
between is filed twice (`FiledOnce` names both). Persisting appends the run's
row first: a kill after it loses the answer for good. A kill between the staged
row and the Reflector's input leaves a tick that counts as asked. The price
guard believes the first price it sees for ever, lets pass what is wrong by less
than a hundredfold, and carries prices forward, so that a 6-hour change can span
more; a wrong price that the guard rejects may still be near enough to the price
of a day ago to pass the clamp of the 24-hour triggers. An order the account
refused is recorded as executed (`universe_price_history.py:136-143`). A symbol
bought and sold within a day can still be an "enterable missed winner". A
confirming row whose count is null makes every later aggregation raise, which is
swallowed, and `lessons.md` is never refreshed again (`RefreshHeals` excludes it
by `Aggregable`). Every close tunes every parameter again on the cumulative
rates. The close counter does not heal while the audit log is missing. Nothing
calls `update_slippage_calibration`.

*Model.* Labels of the last two weeks before a test month are decided after it
began, though `walkforward.py:6` says there is no leakage (the features have
none). An abandoned token has its graduation as its horizon
(`transform.py:158`), so it is closed one second after it was entered: its slot
recycles at once, where `backtest.py:8` says it is held, and which tokens
are entered later depends on the outcome, against `test_backtest.py:167`. With
a stop, an abandoned token can be sold at a later snapshot. Months outside
`TRUE_MONTHLY_GRADUATIONS` have a regime NaN that counts towards the two
regimes the gate asks for, and the gate asks for regimes spanned, not beaten in
each. A basket is a Python set, whose order decides between entries of one
second. A launch with an unknown deployer is dropped by the filter.

## 7. Not modelled, and what is abstracted

*Left out.* RPC decoding, account parsing, price math and configuration are
pure functions of bytes. `storm-cli` and the pools and prices tables are
single statements nobody reads. The fetchers, the universe and curve history of
the predictions, `stage_phase2.py` to `stage_phase4.py`, sentiment, regime,
goals, performance, `report.py`, baskets and prompts compute text and numbers
that keep no state; the checks of `healthcheck.py` and `auto_audit.py` appear as
properties. `reflector.py` appends to a log that prompts quote. In `Fund`:
`equity.jsonl`, `probe_log.jsonl` and the peak equity, which only reports and
prompts read, and the `halted` flag, which no code sets. In `Phase6`: the
slippage coefficient, the scoreboards of the specialists and the regime label.
In `Walkforward`: fitting and calibrating, Sharpe ratio, calibration table,
outcome distribution and plots. In `Predictions`: the language models.

*Abstracted.* Contents of features and indicators; SQL below the statement;
amounts, prices and scores as small integers, rounded down where the code has
floats; the scores of a model and the answers of an agent as any of a few.
