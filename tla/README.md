# TLA+ models of the regen-ledger ecocredit accounting core

These modules model the part of `x/ecocredit` that changes credit
balances: the `Send`, `Retire` and `Cancel` message handlers, an abstract
specification they implement, and the genesis audit `ValidateGenesis`,
which checks an imported snapshot. They also cover the record and message
format checks, the basket CLI commands, and the `Projects` query, which is
called on the state a genesis import produces. Test code is not modelled
(see "Not modelled").

## 1. Inventory

### Components and their state

| Component | Source | State it reads or changes | Operations |
|---|---|---|---|
| Decimal engine | `types/math`, `utils.GetNonNegativeFixedDecs` (not under `src/`; modelled from spec.md 4.1) | none | parse at a precision (refusing `""`), `Dec.String`, `SafeSubBalance`, `Add`, unchecked `Dec.Sub` |
| Transfer | `x/ecocredit/server/core/send.go` | `BatchBalance` rows of sender and recipient, `BatchSupply` row | `Send` → `sendEcocredits` for each entry |
| Retirement | `src/unnamed/part_001` lines 1-105 (`retire.go`) | the owner's `BatchBalance` row, `BatchSupply` | `Retire` |
| Cancellation | `x/ecocredit/server/core/cancel.go` | the owner's `BatchBalance` row, `BatchSupply` | `Cancel` |
| Genesis audit | `x/ecocredit/core/genesis.go` | reads every table of an imported snapshot | `ValidateGenesis`, `calculateSupply`, `validateSupply` |
| Message shapes | `proto/regen/ecocredit/v1/tx.proto` | none | `MsgSend`, `MsgRetire`, `MsgCancel` |
| Record and message validation | `genesis.go` `validateMsg` and `Class`/`ClassIssuer`/`Project`/`Batch` `.Validate`, `msg_create_project.go`, `origin_tx.go`, `unnamed/part_000` (group messages) | none | `Validate` on every imported row, `ValidateBasic` on messages |
| Basket CLI | `client/basket/tx.go` | none; builds and broadcasts a message | `create-basket`, `put-in-basket`, `take-from-basket` |
| Project query | `x/ecocredit/server/core/query_projects.go` | reads `Project`, `Class` | `Projects`, one page per call |
| Simulation helpers, tests, release config | `unnamed/part_001` (utils, basket test), `unnamed/part_002`, `*_test.go`, `.goreleaser.yml` | none | none |

`BatchSupply` has one row per batch: `tradable`, `retired` and `cancelled`
amounts. `BatchBalance` has one row per holder and batch: `tradable`,
`retired` and `escrowed` amounts. A row does not exist until its first
`Save`. All amounts are decimal strings. A batch's credit type fixes its
precision, the number of decimal places allowed.

### How the components interact

Every handler walks the `credits` list of its message in order. For each
entry it:

1. resolves the batch by denom and its precision;
2. loads the rows it needs;
3. parses them with the decimal engine;
4. computes the new amounts;
5. writes the rows back;
6. emits events.

Later entries read what earlier entries wrote. When an entry fails, the
handler returns the error and the Cosmos SDK throws away every write of the
message. Messages run strictly one after another. The genesis audit runs
once, on a snapshot, before the chain starts from it. Its result decides
which stores the handlers can start from. The `Projects` query reads the
`Project` and `Class` tables that the import filled. A client pages through
it, one call per page, until a page comes back without a next key.

### What is hard here

There is no concurrency inside the core, so the hazards come from other
places:

- **Rows that alias.** `sendEcocredits` reads the recipient and sender rows
  separately. It saves the recipient row, then updates the sender row from
  a copy read earlier.
- **Fields dropped on write.** Every handler writes a `BatchBalance` row
  without `EscrowedAmount`.
- **Unchecked arithmetic.** The supply's tradable amount goes through
  `Dec.Sub`, which has no sign check.
- **Entries that interact.** Several entries of one message can name the
  same batch.
- **Partial failure.** Entry k can fail after entries 1..k-1 were written.
- **An audit weaker than the protocols.** `ValidateGenesis` checks less
  than the invariant the handlers need.
- **Two checks of one record.** A project the chain creates from a
  `MsgCreateProject` must pass `Project.Validate` again when exported state
  is imported as genesis.
- **A query that depends on the audit.** `Projects` fails the whole page
  when one project's class is missing. Whether a client can ever list all
  projects depends on what `ValidateGenesis` checked before the chain
  started.
- **Empty strings.** The audit skips an empty amount and counts it as
  zero. The handlers parse the same string and refuse it.
- **Unit conversions.** The CLI turns a number documented as seconds into a
  `time.Duration`, which counts nanoseconds.

PROJECT.json `hazards` lists each one at the line where it bites.

### Properties that make each component correct

- **Handlers.**
  - Double-entry bookkeeping: tradable supply equals the holders' tradable
    and escrowed credits plus basket credits, and retired supply equals the
    holders' retired credits.
  - Every tradable and retired amount a handler stores is a decimal
    string, never `""`.
  - No stored amount is negative.
  - Events agree with balances.
  - Retirement and cancellation are permanent.
  - Credits stay usable: a holder can always retire or cancel the tradable
    credits it holds.
  - Together with conservation, these are what the abstract `CreditPools`
    specification states; the handlers must implement it.
- **Genesis audit.** It accepts exactly the consistent snapshots. The
  runs check this only where it fails (see `genesis_supply_only` and
  `genesis_basket_only`).
- **Record validation.** What the chain creates, genesis import accepts.
- **Project query.** A client that pages through `Projects` on an imported
  state eventually holds every project once, in id order, each with its
  class.
- **Basket CLI.** The message carries what the flags ask for.

## 2. Modules

| Module | Models | State / actions |
|---|---|---|
| `Decimal` | decimal engine (spec-modelled) | operators only. A decimal is an integer number of tenths. A decimal string is a literal `[val, frac, empty]`: the value, the number of digits written after the point, and whether it is `""`. `DecString` is `Dec.String()`. |
| `CreditPools` | abstract specification of the handlers | variables `pools` (holder and batch → tradable, retired and escrowed amounts) and `cancelled` (batch → amount). One action, `Settle(h)`: one accepted operation signed by `h`. It conserves each batch's credits (holders, baskets and cancelled), decreases only `h`'s tradable pools, never decreases a retired or cancelled pool and leaves escrow alone. |
| `Ecocredit` | `Send`, `Retire`, `Cancel` | rows hold decimal strings, as the ORM tables do. Variables `supply` (batch → row), `balance` (partial function from ⟨address, batch⟩ → row; its domain is the set of stored rows), `retiredLog`, `cancelledLog` (sums of emitted Retire and Cancel event amounts). `SendEntry`, `RetireEntry` and `CancelEntry` translate one loop iteration each, with a `CASE` over the early returns in code order. Each action runs the loop as a `FoldLeft` that stops at the first error. The actions `Send`, `Retire` and `Cancel` commit the result only when every entry succeeded. |
| `GenesisValidator` | `ValidateGenesis` | variables `genesis` (a document: the tables as functions keyed by primary key) and `result`. One action, `Validate`. `ImportErr` is ImportJSON's `validateMsg` hook: it runs `RecordValidation`'s `Class`, `Project` and `Batch` checks on every row, before the audit. `AmountErr` skips an empty amount. `SpecValid` is the reference audit of spec.md 4.5. It is written from the spec's steps and uses none of the code's operators except the amount parser. |
| `MC_Ecocredit` | instance of `Ecocredit` | two holders. Batch `b1` has precision 0 and batch `b2` has precision 1, with half a `b2` credit in a basket. Literals are "0", "0.5", "1", "1.0" and "-1". Messages have up to 2 entries, with batch denoms that include an unknown one. |
| `MC_GenesisValidator` | instance of `GenesisValidator` | two credit types, classes, projects and batches. There are variants with a class of an unknown credit type, with a batch of an unknown project, and with a batch of project key 0, which `Batch.Validate` refuses during the import. Supply rows and balance rows over 3 tradable × 2 retired (× 2 escrowed) literals, with or without a basket balance. There are three document sets (aligned, supply-only, basket-only). |
| `MC_LedgerGenesis` | `Ecocredit` composed with `GenesisValidator` | the initial stores are exactly the stores of documents that `ValidateGenesis` accepts, with their rows as imported. `AcceptedEmptyStores` draws amounts from "0", "1" and `""`, and keeps documents whose supply splits its credits as the holders do. |
| `RecordValidation` | `validateMsg` and the four row `Validate` methods of `genesis.go`, `OriginTx.Validate`, `MsgCreateProject.ValidateBasic` | variables `rec` (one record) and `verdict`. One action, `Validate`. A string is its length plus the character classes of its first and later characters. Checks the package calls but does not define (bech32, id and denom formats, jurisdiction, Ethereum address) are Boolean fields of the record. `ProjectRowOf` is the row the keeper stores for an accepted `MsgCreateProject`. |
| `MC_RecordValidation` | instance of `RecordValidation` | records of every kind with lengths 0, the maximum and one more, keys 0 and 1, nil, equal and ordered dates, and strings over three character classes (17,172 records). |
| `BasketCLI` | the three basket commands | variables `input` (command and flags of the last run), `built` (the message it built) and `out` (broadcast, or the error returned). One action per command. Each `CASE` arm is an early `return`, in code order. The client context, `ParseDate`, `parseBasketCredits` and `ValidateBasic` are not in `src/`, so their outcomes are choices. |
| `ProjectQuery` | `Keeper.Projects` and a client paging through it | variables `projects` (key → key, id, class key), `classes` (key → class id), and the client's `cursor`, `listed`, `done` and `qerr`. `Page` is the id-index page of `Limit` rows from the key on (the ORM paging is not in `src/`, so it is modelled from the request and response types). `Projects` returns the page's infos, or `NotFound` for the first project whose class is missing. One action, `QueryPage`: one client call. After an error the client keeps its key. |
| `GenesisProjects` | `GenesisValidator` composed with `ProjectQuery` | instantiates `ProjectQuery` with the `Project` and `Class` tables of the audited document. `ImportNext` is the audit step or, once the audit has accepted the document, a client call. |
| `MC_GenesisProjects` | instance of `GenesisProjects` | the aligned documents of `MC_GenesisValidator` with three projects whose key order (1, 2, 3) differs from their id order (20, 10, 30); page size 2. A variant has a project of a class key no class has. |
| `MC_BasketCLI` | instance of `BasketCLI` | one name, credit type and class id (padded or not), start-date windows 0 and 86400, one valid date and fee, plus absent and malformed date and fee flags. |

### Correspondence with the code

- The `err` `CASE` arms follow the order of the `return` statements.
- `Ecocredit` instantiates `CreditPools` with the refinement mapping
  `Pools` (a missing row counts as all zero) and `cancelled` ← the cancelled
  amount of each supply row. `ImplementsCreditPools` is `CP!Spec`.
- The written rows follow the struct literals. A field the literal omits
  (`EscrowedAmount`) is `""`. A field the code copies from the row it read
  (`Cancel`'s retired amounts, the supply's cancelled amount in `Send` and
  `Retire`) is copied as the string it was.
- `SaveRow` and `UpdateRow` are the ORM `Save` and `Update`. The recipient
  row is saved first and the sender row is updated after it, as in the code.
- Every amount a handler reads is parsed from the stored string, and every
  amount it computes is written back with `DecString`. A negative or empty
  stored amount therefore makes every later parse of it fail, as it does in
  the code. The properties read `""` as zero, as the audit does.
- `ProjectQuery.ClientCall` is the client's call of `Keeper.Projects`.
  `ClassKeyOf` and `Info` follow the loop body of `query_projects.go`. The
  query never writes, so the store variables are unchanged by every step.
- Gas metering and event marshalling are left out. Either one only adds
  ways for a message to fail, and a failed message changes nothing.

## 3. Runs

| Run | Expect | What it shows |
|---|---|---|
| `ledger` | pass | Send between distinct accounts, Retire and Cancel, with 1–2 entries each, starting from an issued store without escrow. The run keeps `TypeOK`, `SupplyMatchesBalances`, `NonNegativeAmounts`, `EventsMatchBalances` and `CreditsUsable` over all 506 reachable stores. Every parse error, unknown-denom, missing-row and insufficient-balance path is enumerated. |
| `ledger_refines_pools` | pass | The same behaviours implement `CreditPools`. Every accepted message conserves each batch's credits, decreases only one holder's tradable credits, and never lowers a retired or cancelled pool or touches escrow. |
| `ledger_self_send` | violation | With sender = recipient, `Send` loses the sent credits: the sender row's `Update` overwrites the row just saved for the recipient. |
| `ledger_escrow` | violation | A zero-amount `Send` from a holder with escrowed credits erases them. `Retire` and `Cancel` do the same. |
| `ledger_from_genesis` | violation | `ValidateGenesis` accepts supply {tradable 0, retired 1} against a holder with 1 tradable credit. A `Send` that retires on receipt then stores tradable supply −1. |
| `genesis_audit` | pass | The audit runs on 63,510 documents whose supply and balance tables name the same batches, with precision errors, escrow, baskets and dangling class and project references. On every document the audit accepts, a client paging through `Projects` eventually lists all three projects once, in id order, with their classes (`ImportedProjectsListed`, under weak fairness). |
| `genesis_supply_only` | violation | A batch with declared supply and no balance rows passes when another batch has rows. So does a supply row for batch key 4, which no batch has; it is parsed at the default precision 0. |
| `genesis_basket_only` | violation | A consistent document whose batch is held only by a basket is rejected. |
| `query_after_genesis` | violation | `ValidateGenesis` accepts a document whose project 3 names a class key no class has: the project loop never looks the class up. The client lists ids 10 and 20, then every call for the second page fails with `NotFound`, so it never holds project 30. |
| `ledger_empty_amount` | violation | `ValidateGenesis` accepts a holder row {tradable "1", retired ""}. `Retire` and `Send` parse the retired string and fail, so the holder can only cancel the credit. |
| `records_reimport` | pass | Over 17,172 records, every `MsgCreateProject` that passes `ValidateBasic` yields a `Project` row that `Project.Validate` accepts at genesis import. The run also evaluates every other validator. |
| `cli_window_seconds` | violation | `--start-date-window 86400`, documented as seconds, becomes a window of 0 s and 86,400 ns. |

PROJECT.json `findings` records what each violation means for the code.
Every property of a passing run has a mutant: a plausible bug in one mapped
definition that the property catches. The mutants are:

- a balance row written without `RetiredAmount`, which Go stores as `""`
  (breaks `TypeOK`);
- retirement that does not debit tradable supply;
- `SafeSubBalance` without its sign check;
- cancellation that does not record the cancelled amount;
- a `Save` that keeps the row already stored (breaks `ImplementsCreditPools`);
- the `Projects` loop reading the class with the project's own key
  (breaks `ImportedProjectsListed`);
- `MsgCreateProject.ValidateBasic` without its metadata length check;
- `Dec.String` writing one decimal place, so that a precision-0 row it
  wrote no longer parses (breaks `CreditsUsable`).

`Batch.Validate` requires the end date strictly after the start date, as
spec.md 3 does. Its error message says "must be the same as or after". Only
the message is wrong, and the model leaves error wording out, so no run
checks this.

### Bounds and why they are enough

- **Two holders** are enough for a sender, a recipient and a bystander row.
- **Two batches of different precision** let an amount of "0.5" be valid for
  one batch and fail with `PrecisionExceeded` for the other.
- **Two entries per message** produce the interaction between entries of the
  same batch, and a failure of the second entry after the first succeeded.
- **Amounts of 0, ½, 1 and 2 credits** reach every boundary: zero amounts,
  which skip the subtraction but still rewrite the rows, exact-zero results,
  and insufficiency by one step.
- **State space.** Total supply is fixed except for cancellation, so the
  reachable state space is finite without a counter bound.

- **Records.** Each length is tried at 0, at the maximum and one past it.
  Dates are nil, equal or ordered. A string's characters fall into three
  classes: alphanumeric, allowed punctuation and other. That is every case
  the `Validate` methods tell apart.
- **Query.** Three projects with page size 2 give a full first page and a
  partial last one, and a next key that must skip project keys: key order
  and id order differ. Two projects share a class.
- **CLI.** One valid and one malformed value per parsed flag reach every
  early return. A window of 86400 is the one-day value a user following the
  help text would write. TLC integers are 32-bit, so a `uint64` window past
  2^63 cannot be represented. The wrap of `time.Duration(uint64)` to a
  negative window is therefore not explored.

### Fairness and deadlock

The handlers need no liveness property. Each message is a single
synchronous step that either completes or is discarded, and the core has no
waiting, retry or timeout (spec.md 5).

`ImportedProjectsListed` is a liveness property. It assumes weak fairness of
`ImportNext`, for two reasons. First, a node runs `ValidateGenesis` at
`InitChain` before it serves anything. Second, the client pages until it
receives a page without a next key. That is the only waiting in the model.
After an error, the client's retry asks for the same page again. So the
violation in `query_after_genesis` is a state that stutters forever with
`qerr = NotFound`. Deadlock is checked for
the ledger runs, where a zero-amount `Send` is always possible. The genesis
runs and the record runs use `CHECK_DEADLOCK FALSE` because they check
one document or record in one step and stop. Each CLI command is one
synchronous run, and a new command is always possible. The refinement
needs no fairness: `CreditPools` is a safety specification, since the core
promises nothing that must eventually happen.

## 4. Not modelled

- The group module's `ValidateBasic` methods (`unnamed/part_000`). Their
  messages' handlers are not in `src/`, so no property reads their result.
- `CreditType.Validate` and `Params.Validate` are not in `src/`. The rows
  `validateMsg` checks during the import are well-formed in every field
  except the keys they refer by. Format errors are checked separately, in
  `RecordValidation`.
- Empty strings in the audit documents of `genesis_audit`. spec.md 4.5
  does not say how `""` is read, so the reference audit has no verdict on
  it. Their effect on the handlers is checked in `ledger_empty_amount`.
- The ORM's paging of the `Projects` query (`ormlist`, `ormutil`) is not
  in `src/`. `Page` models it from the request and response, by id order.
  Changes to the store between two calls of the client are not modelled:
  the chain state a query reads is a committed block, and the property is
  about the imported state.
- Simulation helpers, tests and release configuration.
- The handlers that create credits or set escrow (`CreateBatch`,
  `MintBatchCredits`, `SealBatch`, `Bridge`, marketplace sell orders). They
  are not in `src/`. The models start from stores those handlers, or a
  genesis import, produce.
- Gas metering (for example the `ConsumeGas` after each entry of `Send`).
  Running out of gas fails the message like any other error, and the SDK
  discards its writes. The `cancel.go:50` partial-failure hazard covers it.
  `Ecocredit` takes that discard as given. The SDK's cached store, which
  does the discard, is not in `src/`. A model of it would restate the
  assumption, not check it.
- The decimal engine itself. `types/math` is not in `src/`, and `Decimal`
  is written from spec.md 4.1. A check of it against a reference written
  from the same text would be circular.
- A batch whose balance rows are all zero and which has no supply row.
  `validateSupply` rejects it with `NotFound` (genesis.go:365). spec.md
  4.5 step 8 fails a key that only one side has only when the other side
  is non-zero, and `SpecValid` accepts it. Each genesis violation run shows
  one divergence, and neither run's documents contain this case. It was
  traced by hand and is listed as an unchecked hazard.
- The agreement of `ValidateGenesis` with `SpecValid` on consistent
  documents. On documents where the two audits cannot differ, the check
  would show nothing the violation runs do not, so no passing run states
  it.
- Whether a `MsgSend.ValidateBasic` outside `src/` rejects sender =
  recipient is not known here. The self-send finding is stated with that
  caveat.

## 5. Plan

Done:

1. `Decimal` and `Ecocredit`, with the `ledger` run and the self-send and
   escrow violations.
2. `GenesisValidator` checked against spec.md 4.5, with the audit
   violations.
3. `MC_LedgerGenesis`, which composes the audit with the handlers.
4. The abstract `CreditPools` specification and the refinement
   `ImplementsCreditPools`.
5. Supply rows for unknown batch keys in the audit documents.
6. `RecordValidation`, with the reimport property and the batch date
   check.
7. `BasketCLI`, with the seconds versus nanoseconds violation. The date
   criterion run, which restated the command's `if`, was removed.
8. `ProjectQuery` and its composition with the audit (`GenesisProjects`).
   This adds the first liveness property, under weak fairness, and the
   violation for a project whose class is missing.
9. Amounts stored as decimal strings in `Ecocredit`, with `CreditsUsable`
   and the empty-amount violation `ledger_empty_amount`.
10. `validateMsg` composed into `GenesisValidator` (`ImportErr`). The batch
    date check now compares `Batch.Validate` with spec.md 3, in a passing
    run, instead of with its error message.
11. Review: `TypeOK` now also requires that tradable and retired amounts
    are never `""`, and its mutant is a Go struct literal that omits a field.
    The batch date property, which restated `Batch.Validate`'s guards, was
    removed. So was the audit agreement check on consistent documents,
    which could not show a divergence. `SpecValid` no longer reuses the
    code's operators.

Nothing more of `src/` is planned. What is left out, and why, is listed in
section 4.
