# Verification of the perpetual contracts and their order-book server

This directory holds TLA+ models of the repository beside it: the dYdX-style
perpetual contracts (`contracts/protocol`) and the Node server that matches
signed orders and submits them (`src/`). Paths below are relative to the
repository's root; in `PROJECT.json` they start with `src/`.

`PROJECT.json` says, definition by definition, which lines are modelled, and
lists runs, seeded faults, hazards, findings and theorems. An operator whose
comment begins with `Fault:` is such a seeded fault: it is used nowhere, except
to replace the definition after it when one asks whether a property would notice.

## The system

| Part | State it keeps | Operations | Calls |
|---|---|---|---|
| `P1Settlement`, `P1Margin`, `P1Trade` | balances, local indexes, global index, margin tokens held | `deposit`, `withdraw`, `trade`; every one first loads the context (price, index) and settles the accounts it touches | oracle `getPrice`, funder `getFunding`, trader contracts, the margin token |
| `P1FinalSettlement`, `P1Admin`, `P1Operator`, `PerpetualV1` | final price and flag, oracle, funder, requirement, global and local operators | `enableFinalSettlement`, `withdrawFinalSettlement`, setters, `initializeV1` | as above |
| `P1BalanceMath`, `SignedMath`, `BaseMath`, `SafeCast` | none: magnitudes with sign flags, fixed point of 10^18 | add, subtract, compare, multiply with rounding, narrow | |
| `P1Orders`, `P1InverseOrders` | order status, filled amount | `trade` (asked by the ledger), `approveOrder`, `cancelOrder` | the ledger's getters, in the middle of a trade |
| `P1Liquidation`, `P1Deleveraging` | marks with a timestamp | `trade`, `mark`, `unmark` | the ledger's getters |
| `P1FundingOracle`, `P1InverseFundingOracle`, `FundingOracle` (client) | rate and its time, provider; what the client was told a rate would become | `setFundingRate`, `setFundingRateProvider`, `getBoundedFundingRate` | |
| `P1MirrorOracle`, other oracles | price, signers, bar | `poke`, `lift`, `drop`, `setBar`, `checkSynced` | the Maker oracle |
| Proxies (`P1LiquidatorProxy`, `P1SoloBridgeProxy`, converters) | insurance fund and fee; signatures used | liquidate with a fee, bridge transfers, convert currencies | ledger, Solo, exchanges |
| `OrderBookService` and its handlers | database rows of orders with filled amounts, rows of trades; per request what a handler holds across its awaits | post (match, submit, wait, save, record, add, tell), cancel, quote, and queries of orders and trades | the database, the ledger through a transaction, events |
| `WebsocketService` | subscriptions by request id, sockets by request id, which sockets answered the last ping | subscribe, first page, update, ping, close, stop | `OrderBookService`, events |
| `TradeOperation` (client) | trade arguments, `committed` | `fillSignedOrder`, `liquidate`, `deleverage`, `commit` | the ledger through a transaction |
| `Orders`, `api`, the order helpers | none: an order on its way from a client to the contract | create, sign, serialize, save, match, encode | wallets, `P1Orders` |
| Deployment script, address book | the file of addresses, transactions in flight | deploy, set up, save; load | the chain |
| HTTP application, other client calls, demos | none that other parts read | | |

What is hard to test there: a transaction is atomic, but inside one `trade` the
ledger and several trader contracts call each other and read each other's state;
rounding and sign flags; the order in which accounts settle and are paid; and on
the server, handlers that interleave at every `await`, transactions that revert
or whose answer is lost, rows written one by one, restarts.

What makes each part correct:

- ledger: positions cancel out; claims never exceed the tokens held; no trade
  leaves an account worse collateralized; settlement may be skipped only when
  nothing is due; final settlement is final and pays what is due;
- numbers: flags and magnitudes behave as integers, zeros included;
- orders: nobody's order is filled beyond its amount, its limits, its
  cancellation or its decrease-only flag, in any combination of fills;
- server: the book never claims a fill the chain has not made, the operator is
  left with no position, matching takes the best price, posts are answered;
- liquidation and deleveraging: what is left of an account is covered no worse, only
  accounts under water are deleveraged, and whoever takes over knows what it gets;
- oracles: rate and funding bounded in every second, the price one of the market
  although some signers are not to be trusted;
- websocket: subscribers miss nothing and get nothing they did not ask for, and
  nothing is left of those who went;
- client: what is committed is accepted, once; an order that is valid where it is
  made is valid where it is filled;
- deployment: a saved book of addresses is one that can be used.


## The modules

| Module | What it is |
|---|---|
| `BaseMath` | fixed-point products and their rounding |
| `P1Math` | the arithmetic of one balance: values, collateralization, the improvement test, the funding settlement |
| `Totals`, `TotalsProofs` | sums over accounts as a recursive function; what proofs need of them, and of sums over any finite set |
| `Tables` | rows of a database and entries of a map, as functions |
| `PerpetualV1` | the ledger: one action per entry point, `trade` in steps |
| `IntegerBalance` | abstract: a margin and a position that are integers |
| `SignedBalance`, `SignedBalanceProofs` | the stored representation, and that it implements `IntegerBalance` |
| `OrderFills` | what the two order contracts accept as a fill and the trade they make of it |
| `PerpetualOrders` | the ledger composed with both order contracts as its traders |
| `PerpetualCloseouts` | the ledger composed with liquidation, deleveraging, the liquidator proxy and a trader that stands for orders |
| `PerpetualProofs` | type correctness, solvency, final settlement and the other theorems of the ledger, and on top of them those about these two |
| `FundingOracle`, `FundingOracleProofs` | the rate, who sets it, and the index the ledger makes of it and of the price; that rate, change and index are bounded |
| `P1MirrorOracle`, `P1MirrorOracleProofs` | the mirror, its original and the messages of signers; that the median is honest |
| `OrderBookService`, `OrderBookServiceProofs` | the server with its database, the pool of transactions and the chain's filled amounts; that it never gets ahead of the chain, keeps in step with it and matches best |
| `WebsocketService`, `WebsocketServiceProofs` | subscriptions and what each socket was sent; that nothing wrong is sent and nothing missed |
| `SignedOrders` | an order from the client through JSON, server and database to the contract |
| `TradeOperation` | the client's one-shot transaction of trade arguments |
| `Deployment` | the deployment script, the chain's queue of its calls, the file it writes and who loads it |
| `ClientLibraryProofs` | that these three send, sign and save what the contracts accept |
| `MCPerpetualV1`, `MCOrders`, `MCCloseouts`, `MCFundingOracle`, `MCMirrorOracle`, `MCOrderBook`, `MCWebsocket`, `MCSignedOrders`, `MCTradeOperation`, `MCDeployment` | instances for TLC |

`PerpetualOrders` and `PerpetualCloseouts` extend `PerpetualV1` and use its
`TradeStep`, so the ledger in them is the very one the theorems are about, and their
theorems cite the ledger's. The server's
modules are separate, because a property of one says little about another: the
events `OrderBookService` emits are the writes and events `WebsocketService` starts from;
the match it makes is the `Match` of `SignedOrders`, which says what becomes of its prices.

### PerpetualV1

Its variables are the fields of `P1Storage`, the token balance (`held`), what the
oracle answers (`oraclePrice`), the clock and `tx`. A transaction is atomic, so
each entry point is one action whose guard is the conjunction of its `require`s
and casts: where the code reverts, the action is not enabled. `trade` is the
exception, because its loop calls contracts that read the ledger: `BeginTrade`
is the part before the loop, `TradeStep` one iteration, `EndTrade` the final check,
`RevertTrade` a revert from anywhere in between, which restores what `tx.undo`
kept. All other actions wait while `tx` is active (`Idle`): that is the chain's
atomicity, and `nonReentrant` for calls a trader might make back.
`setLocalOperator` has no `nonReentrant`; a trader contract that called it for
itself in the middle of a trade is not modelled, since traders are contracts
without accounts here.

A trader contract is trusted by the admin; `TradeStep` lets it answer anything
of its type, so what is shown of the ledger holds for every trader. Oracles and
funders answer anything in `Feed` and `Funding`, which are per contract so that
`setOracle` and `setFunder` change what may be answered. The order of
`accounts` does not matter to `trade`, which requires them sorted, so they are a set.
Signed numbers are integers; `SignedBalance` is the reason that is right.
Checked intermediate overflows of 256-bit products (`SafeMath`) are not modelled:
magnitudes of 120 and 128 bits stay far from them, except in products of a price
with the square of the unit, where the code reverts.

Not in the model: a withdrawal whose destination is the contract itself,
tokens that charge fees or lie, logs.

### SignedBalance

A `P1Types.Balance` in memory with `SignedMath`'s operations and the branches of
`_settleAccount`, next to the integers it stands for. Flags of zero are kept.

### OrderFills and PerpetualOrders

`OrderFills` has the checks of `_verifyOrderRequest` and the amounts `trade`
returns, for both contracts: `order.isInverse` chooses, and `TraderOf` is the contract
whose domain the order's hash was made for. `PerpetualOrders` makes
`FillOrder` the only use of `TradeStep`: the order's maker, sender permission,
status, limits and the maker's position as read from storage at that moment. A
revert restores the filled amounts as well (`call`). Orders are known by hash;
a signature exists for the hashes in `Signed`; `approveOrder` and `cancelOrder`
can be sent for any order (by its maker). An order of an account with itself
fills without moving a position, as in the code.

### PerpetualCloseouts

`Liquidate` and `Deleverage` are `TradeStep` with the guards of the two `trade`
functions and the trade they return: a share of the maker's margin, assets rounded
down and debts up. `Mark` and `Unmark` look at the stored balance, as the code does, whatever
funding is due; a revert takes back the marks that `Deleverage` cleared (`pending.marked`).
`OtherTrade` is a trade of the trader that stands for orders (`OrdersTrader`), of any terms in `OrderTrades`.
`BeginLiquidation`, `ProxyTrade` and `EndLiquidation` are `liquidate` of the proxy
in three stretches, its call of the ledger's `trade` in the middle: the fee is withdrawn from the
liquidator, with the ledger's check of a withdrawal, and deposited for the fund. It
is the trade of a transaction of its own, so a revert between takes all of it back.
`PriceReader` says whom the price oracle answers: `P1ChainlinkOracle` answers one sender,
others whoever their owner sets.
States begin with some trading behind them (`Stock`): open positions, no more owed than
held. Deposits, withdrawals, administration and final settlement are in
`PerpetualV1` and not repeated.

### FundingOracle

`SetFundingRate` bounds the rate as `_boundRate` does, by the time since
the last one and absolutely; `LoadContext` is what any transaction of the ledger does
with the rate: funding for the seconds since the last one, times the price of now, is
rounded and added to `_GLOBAL_INDEX_`, which must stay within its width. `Simulate` is the client's call of `getBoundedFundingRate`, whose answer
may be set later (`SetSimulatedRate`). `Remember` keeps a state to compare with, at
any time, so that the bounds are about any two moments, with the highest price loaded
since.

### P1MirrorOracle

`Lift` and `Drop` take sets of signers, in one transaction each, with the `require`s of
every one. `Poke` picks messages of `bar` different signers with ages after the
last price: honest signers sign the market's price of a moment, faulty ones anything.
`BarsAssumption` says bars are odd, which is the Maker oracle's own check and not in this
repository. Who may read the price is left out.

### OrderBookService

A handler of `postOrderAsync` is cut at its awaits. `Post` is the stretch from the
answer of the query to the submitted transaction (stage `sent`); `Mine` and `Reject` are
what the chain does, also after the handler is gone; `SaveRow` is each of the concurrent
saves (`saving`), `Saved` their end with the events of the makers, `RecordTrade` each row
of the history with its event (`recording`), `Recorded` their end, `AddOrder` the
final upsert (`adding`), `TellOrder` its event (`telling`). A cancellation of several orders
finds each (`FindRow`, `finding`), deletes the rows found together (`DeleteRows`,
`deleting`) and tells of them (`TellCanceled`, `deleted`); one that is not found fails
all. `findBy` may list rows in any order (`Listings`), and the model sorts them the way
the comparators and V8's sort do. Of the chain it
keeps the filled amounts and P1Orders' bound on them; that fees, collateral or a
cancellation on chain make a transaction revert is `Reject`, which may happen to any.
`serial` is no variable of the code: it remembers whether every request so far came when
the one before it had been answered, no order was posted twice and nothing crashed. What
holds only then (`InStep`) says so.

### WebsocketService

The maps of `_requestIdToSocket` and `_requestIdToSubscriptionOpts`, the `isAlive` flag of a
socket, and what a client was sent. `Subscribe` registers and starts the read of a first page
(`Read`, `Respond`); `Write` and `Emit` are a handler's write and its event, other
things between. A write may save any fill, whatever the row holds, because posts and
matches save what they read before an await; a row deleted by several overlapping
cancellations is announced by each. The database begins with what an earlier process
left (`Stored`). `Cleanup` is the ping interval with what it terminates, `Close` the event
of a closed socket, `Destroy` the stop of the server. A query that fails ends the
process, because nothing catches it (`ReadFails`). `seen` is what the latest message
about each item said, and is gone with the socket. A first page is the first `PerPage` records
by hash, filled ones included, whatever the subscription filters. `beyond` is a history: the items
that were in the database and after the page when it was read, until they are written. The
trades of one transaction share its hash; that the database lists them in one order
is an abstraction.

### SignedOrders

A number keeps a sign of its own, as BigNumber does, and is counted in tenths of the
contract's unit, so that it may lie between two numbers the contract knows. `Create` is
`createPerpetualOrder` with the fee of `getFeeForOrder` and a signing method; `Post`
serializes and parses, `SaveRow` the row, `Match` what the server hands to the contract.
What a wallet prepends and how it numbers its signatures are anything in `NodePrepends` and
`NodeVs`. A hash is the record it is of; recovering a signer compares key and message.

### TradeOperation and Deployment

`Commit` is `commit` up to its `await`, with `Sent` and `SendFails` for how it ends; any
number of calls overlap. A send may fail after the network took the transaction: its call is then
"lost", and `commit` opens the operation again as after any failure. Texts are sorted as
JavaScript sorts them, capitals before small letters.

`Script` is the deployment as a sequence of deployments, awaited, and calls, not
awaited, which the chain mines in the order of their nonces (`Mine`). Each step may fail
(`Fail`). `Load` is a server or demo that reads the file. `Ready` says what a book is good
for: it has all that `contracts.ts` takes, on one chain, and the perpetual among it was
initialized with the book's own token and price oracle. The funder in force is the
book's `P1FundingOracle` except on Dev, where it is `Test_P1Funder`
(`helpers.ts:280`).

## The runs

All instances set the fixed-point unit `BASE` to 2, so that halves round.

| Run | Instance | What it shows |
|---|---|---|
| `perpetual` | 2 accounts, one the other's delegate, two oracles (one with price 0), two funders of opposite rates, requirements 50% and 150%, magnitudes up to 1, 2 seconds; about 513,000 states | type, zero sum, solvency, skipped settlement, payouts; no account endangered, final settlement final, while the admin changes everything: `TypeOK`, `ZeroSum`, `Solvent`, `SkipIsSound`, `PayoutsCovered`, `NoAccountEndangered`, `FinalIsFinal` |
| `signed_balance` | magnitudes up to 4, both flags; 486 states | the representation implements integers; the final check of a trade ignores the flags of zeros: `FinalCheckIgnoresZeroFlags`, `ImplementsIntegers` |
| `orders` | 2 accounts, 3 orders (open, reduce only, and one with a rebate for `P1InverseOrders`), fills of one second; about 204,000 states | positions backed by allowed fills, limits, cancellation, decrease-only: `PositionsBacked`, `CancelIsPermanent`, `DecreaseOnlyDecreases`, `MakersLimitKept` |
| `closeouts` | 3 accounts, four ways to be in trouble, prices 1/2 and 3/2, a positive rate, requirement 150%, three limits of liquidators, a fee of half the profit; about 332,000 states | closing out never leaves the rest covered worse, the ledger accepts it unless all the account has is worth nothing (only debts, or a long position at price 0), only accounts under water are deleveraged, deleveraging only closes, the proxy's liquidator is safe: `CloseoutNeverHurts`, `CloseoutsAccepted`, `DeleveragedWereUnderwater`, `DeleveragingCloses`, `LiquidatorIsSafe` |
| `funding_oracle` | bounds 4 and 3 per second, five rates asked for, prices 1/2 and 3/2, indexes up to 12, 4 seconds; about 676,000 states | the rate's change and the index's movement bounded; a simulated rate is the one set: `ChangeBounded`, `FundingBounded`, `SimulatedIsSet` |
| `mirror_oracle` | 4 signers, two of one first byte, one faulty, bars 1 and 3; about 82,000 states | synchronizing always works, the median is honest: `SyncWorks`, `MedianIsHonest` |
| `order_book` | 3 requests, overlapping or not, for 4 orders with repeated posts, cancellations of two at once, reverts, crashes; about 189,000 states | book, history and events never ahead of the chain, and in step where requests came one at a time; operator flat, best match, every post answered: `NothingIsAhead`, `InStep`, `OperatorFlat`, `MatchIsBest`, `Answered` |
| `quote` | the same instance | a disagreement, see Findings: `QuoteIsTheTrade` |
| `websocket` | 2 sockets and one id, two stored orders and a page of one: the first is open or filled and may expire, the second is written and deleted; up to two handlers about to tell of one row, peers that vanish, a failing database; about 361,000 states | the maps are live, nobody gets what it did not ask for, nothing the first page reached is missed, such rows reach subscribers, vanished peers are closed: `MapsAreLive`, `OnlyWhatWasAsked`, `NothingMissed`, `VanishedAreClosed`, `RowsReachSubscribers` |
| `signed_orders` | an ask and a bid, amounts, prices and fees that round, rebates, all signing methods, prefixes and numberings of wallets; about 437,000 states | signatures survive, client and contract agree on them, what is matched is fillable: `ValidStaysValid`, `MatchIsFillable`, `ClientCheckAgrees` |
| `trade_operation` | 2 trades, 3 overlapping commits, failed sends and lost answers; about 36,000 states | what is sent is accepted, and taken once, and once more per lost answer only: `PayloadsAreAccepted`, `TakenOnce` |
| `deployment` | 2 runs for 2 chains, one process that loads; about 69,000 states | a saved book has all that clients take, of one chain and in force, and traders get to work: `SavedIsReady`, `TradersGetToWork` |

Bounds: `MaxTime`, `TokenSupply`, `Amount`, `MaxUint120`, `MaxUint128` bound the
ledger. A width of 1 makes every operation reach the cast that refuses it, and
amounts of one unit against a unit of 2 make every product round; what larger widths and more
accounts could add is what the theorems are for. Three accounts in `closeouts` are the
smallest number where one of those who take over cannot take all; `Stock`,
`Parties`, `OrderTrades` and `MaxPosition` choose its states and who trades what. For the
server, three requests let two overlap and a third see what they left; a second of
clock suffices for one order to expire. The websocket's two orders are one more than its page: what is
beyond it is told only when it is written, and is reached when the first one expires; a write, its
event and a first page overlap in every order (`MaxNews`, `Written`, `Expiring` bound them), and two
sockets are enough for one id to be shared; `MaxReads` lets one page be read at a time. `MaxUint128` in
`funding_oracle` is reached, and refused. Four signers allow a bar of three with one
of them faulty. The runs of the ledger, the orders and the oracles check deadlock; a
quiet server with all requests answered, an operation that was sent, a script that has ended, an
order that was filled and accounts that nothing is wrong with may stop, so
theirs do not.

Fairness (weak, of each action) is assumed where liveness is checked. In
`OrderBookService`: a handler whose promise has settled is resumed, the database answers,
and a submitted transaction is mined or refused at some time. The first two are Node's
event loop and the pool; the third is what `txRes.wait()` relies on. In
`WebsocketService`: the ping interval fires while it is set, a socket that was
terminated emits its `close`, handlers emit what they wrote, and the database answers.
In `Deployment`: the chain mines what was sent. Nothing is assumed of clients, the clock, prices,
cancellations, crashes or failures.

## What is proved

TLAPS checks these for every number of accounts, orders, requests, sockets, signers, calls and
runs, and for every price, rate, width and amount, from the assumptions named in the modules:
`BaseAssumption`, `MathAssumption`, `ConstantsAssumption`, `AmountAssumption`, `OrdersAssumption`,
`CloseoutsAssumption`, `FundingAssumption`, `MirrorAssumption`, `BarsAssumption`,
`ServiceAssumption`, `WebsocketAssumption`, `OperationAssumption`, `SignedOrdersAssumption` and
`DeploymentAssumption`. They give constants their types and widths;
those with more content say that orders, requests and faulty signers are finite in number,
that traders are global operators with the flags their code returns, that the proxy's fee is
at most half, as `setInsuranceFee` requires, and that bars are odd. Every
run evaluates those of its modules.

### The ledger (`PerpetualProofs`)

- `TypeCorrect`: `TypeOK` is inductive by itself; one lemma per action.
- `ContractSolvent`: `Spec => []Solvent`. `Solvent` is not inductive: it says
  nothing of the state a revert returns to, and settling an account with the
  wrong local index could create value. `SolvencyInv` adds that the stored state
  and the one kept for a revert are `Sound` (local indexes not ahead of the global
  one and equal to it at equal timestamps, positions cancel out, exact claims at
  price 0 within the tokens), that the accounts of a transaction are settled to the global
  index, and that memory equals storage. Claims are counted without rounding
  (`ExactMargin`), so moving the index moves them by the index times the sum of
  positions, which is 0, and settling an account can only lower them
  (`SettlementRounds`). A trade moves margin and position between two accounts settled to
  the index; at final settlement the price enters by the same sum of positions.
  Sums are handled by `TotalsProofs`.
- `LongsAreShorts`, `SkippingLosesNoFunding`, `TradeMemoryIsStorage`: from
  `SolvencyInv`.
- `PayoutsStayCovered`: also from `SolvencyInv`. Payouts round down, account by account, so
  their sum is at most the exact claims at the final price, and these are `Sound`'s.
- `FinalStaysFinal`: an action property; each step that final settlement leaves possible
  either closes one account or touches none, and no trade is under way then.
- `CallersEndangerNobody`: `NoAccountEndangered` compares the end of a transaction with its
  beginning, which no single step sees. `TransactionInv` keeps what is needed in between: the
  price has not moved, what the trade remembers as initial is what was stored settled to the
  index, and the accounts it does not name are as they were. The final check then gives the
  account's promise, because settling is the same in both comparisons.

All of them are stated for `Spec` and proved for `LedgerSpec`, in which traders, oracles and
funders answer anything: so they hold of `PerpetualOrders` as well.

### Orders and closeouts (`PerpetualProofs`)

- `FillsKeepLimits`: a fill that passes the separate price and fee checks is no
  worse for the maker than one at both limits, in both contracts. It assumes a limit fee
  of at most the whole price, without which the limits themselves are not computable. The
  argument is that price and price less fee are monotone, roundings included
  (`NetMonotone`, `ShareMonotone`). `MakersLimitStaysKept` carries this from the numbers to the
  maker's stored balance, in every step.
- `OrdersKeepTheLedger`: every step with the orders traders is one of the ledger, so that its
  theorems hold there too (`OrdersStep`).
- `PositionsStayBacked` and `CancelStaysPermanent`: `OrdersInv`. That positions are backed by
  fills is not inductive without the same of the state a revert goes back to, where the filled amounts
  are the earlier ones; that a canceled order is never filled needs that one canceled before the
  transaction has not been filled in it, or a revert would change its amount.
- `DecreaseOnlyKept`: by the signs of the position before and after one fill.
- `CloseoutsHurtNobody`, `FirstCloseoutIsAccepted`: arithmetic of one account. Of a long
  position the debt that goes with a part is rounded up, and of a short the assets down
  (`PartUp`, `PartDown`); multiplying out, what is left is covered no worse (`LongIsCovered`,
  `ShortIsCovered`), which is the test the ledger applies to an account below the requirement
  (`LeftIsAccepted`). That the test compares with the same balance is `CloseoutInv`: until its first
  trade a transaction's initial balances are the stored ones.
- `OnlyUnderwaterDeleveraged`: also because of that part of `CloseoutInv`.
- `DeleveragingOnlyCloses`: the amount is no larger than either position, and signs are opposite.
- `LiquidatorStaysSafe`: `CloseoutInv` knows the proxy's order in progress (`ProxyOrder`): the
  amount asked for is the way to the position the liquidator named, and its only trade goes
  part of that way. A fee of at most half the profit, both roundings included, leaves half of
  it (`FeeIsHalf`); and either the ledger's check of a withdrawal has passed or no fee is due and
  its check of a trade has.
- `CloseoutsKeepSolvent`: every step but `EndLiquidation` is one of the ledger
  (`CloseoutsLedgerStep`), where `SolvencyInv` is known to hold on. The fee is a transfer between two
  accounts, of which the fund's is settled on the way, which can only lower claims
  (`FeeSound`).

### Numbers and oracles

- `SignedImplementsIntegers`: the refinement `Spec => Integers!Spec` by the map
  from flag and magnitude to integer; `GtComparesIntegers` for `gt`.
  `ZeroFlagsAreIgnored`: both flags of a zero give the same values, and so the same answer of
  the final check.
- `FundingOracleProofs`: `RateStaysBounded`, `ChangeStaysBounded` and `FundingStaysBounded` are
  inductive together with `TypeOK` (`Inv`). The rate at a remembered moment and the
  rate now differ by at most the change allowed between, because each bounded step uses up its
  own seconds. The index has moved by a sum of terms, each of a rate within the absolute
  bound times its seconds and a price, rounded down; no price is above the highest since, so that the
  terms add up to no more than the largest rate at that price for all seconds (the code's `baseMul(price)`
  is `Accrued`). `SimulatedStaysSettable` needs that a simulated rate stays within reach
  (`AnswerInReach`): until the rate is set again, time only widens what may be set.
- `P1MirrorOracleProofs`: `SlotsHoldSigners` and `SyncAlwaysWorks` need that the
  original's signers have different first bytes (`MakersDistinct`), as its own `lift`
  requires. `MedianStaysHonest` is a pigeonhole: with an odd bar, the messages up to the
  median are more than half of it, and so are those from it on; the faulty signers are
  fewer, so there is an honest message on either side of the median, and what it says is a price
  of the market since the last poke.

### The server

- `NothingGetsAhead`, `OperatorStaysFlat`: `BookInv`. The rows a handler is about to write, the
  trades it is about to record and the events it is about to tell must be no more than the
  chain has filled, from the moment its transaction is mined (`PostInv`, `Behind`); the history and
  all that is still to be recorded, summed over the requests, is at most what is filled
  (`HistoryInv`). A transaction fills its taker by the sum of its makers, so that sums over
  both sides stay equal.
- `StaysInStep`: `ServiceInv` adds, for servers whose requests came one at a time, that only one
  is in flight, that it is about an order nobody knew (`PostedInv`), and that each row or
  event that differs from the chain's is one this request has still to write or tell
  (`SerialInv`). When all are answered, nothing is left to differ.
- `MatchingIsBest`: the match is greedy in an order of price. There is a price that splits the
  rows: all that is cheaper is taken whole, and nothing that is dearer. Against that price, what
  any other choice of as much takes more of is dearer and what it takes less of is cheaper, so the sum
  is no smaller. That the sort gives such an order, whatever order the database lists rows in, is part
  of it.
- `MapsStayLive`, `OnlyAskedIsSent`, `NothingStaysMissed`: `PushInv`. `NothingMissed` speaks of moments
  when nothing is under way; `NothingLost` is the same at all times, with what has not been
  sent yet on its way in an event or in the first page of this very subscription, or in `beyond`.
  Only that is exempt: an item in the database that the page of this subscription did not
  reach when it was read, and that was not written since. Reads under
  way were asked for by their sockets (`ReadsAreAsked`).

### The client and the deployment (`ClientLibraryProofs`)

- `WhatIsSentIsAccepted`, `OperationTakenOnce`: `OperationInv`. At most one call is sending, and while
  it is, the flag is taken and no trade can be added: so its payload is still that of the trades
  (`OneAtATime`). That there is an ascending list of the accounts, whose texts are compared, needs
  that a finite set has one (`Insertion`, `Enumeration`) and that all accounts are in lower case,
  where the text knows the value (`LowerRanks`). What was taken is counted exactly
  (`TakenSoFar`): as many as answers were lost, and one more after an answer that arrived, when
  the flag is never given back.
- `ClientForetellsContract`, `ValidSignaturesStayValid`, `MatchesAreFillable`: `SignedInv`. What
  the client keeps, the server parsed and the database stored are the `SameTerms` as the draft:
  amounts are equal once rounded, because rounding what was rounded changes nothing
  (`Rounding`), and fees in everything but the sign of a zero, which writing drops. `HashIsKept`
  is that these terms are all that the contract hashes. A fill is of two orders as the server
  had them, though they may since be gone (`FillsAreKept`); that rounding is monotone carries the
  comparison of their prices and amounts to the contract. `ValidSignaturesStayValid` has the
  hypothesis `NoMinusZero`, that no fee a client chooses is −0: with one it is false (see
  below), and TLC finds that at once.
- `SavedBooksAreReady`: `DeploymentInv`. The script does not wait for its calls, but a deployment is
  awaited, and the chain mines a run's transactions in order: so once a later contract is deployed,
  every call before it is done (`WaitedSoFar`). The two calls a book depends on, the price
  of the aggregator and `initializeV1`, have deployments after them in the script of every network
  (`ScriptIsComplete`); approvals and operators come last and may be missing. Books are only
  saved by runs that did the whole script (`SavedSoFar`), under their own chain, and what clients have
  loaded is such a book, whatever is deployed and saved after. The token and the price oracle are the
  book's own; the funder is so off Dev.

### What is not proved

Every invariant and every action property of the runs is stated by a theorem. Proved and in no
run's list: `FillsKeepLimits`, `OrdersKeepTheLedger`, `TradeMemoryIsStorage`,
`GtComparesIntegers`, the oracles' `TypeCorrect`, `RateStaysBounded` and
`SlotsHoldSigners`, which the theorems beside them rest on or which say what they mean.
Out of the prover's reach and only model-checked: liveness under fairness (`Answered`,
`VanishedAreClosed`, `RowsReachSubscribers`, `TradersGetToWork`). The two of the websocket are
stated as `[]<>` of the opposite: nobody stays vanished, or unserved, for good. `QuoteIsTheTrade` is false and
has a run that shows it.
Induction over data is out of reach as well, and with it `SortSeq` and most that the
community modules define recursively. What sums and enumerations need is proved from a least
counterexample (`IntervalInduction`, `SubsetInduction`) without the library's induction theorems; a
sorted list is what sorting promises (`SortedAccounts`), not how it is done; and the provers know
nothing of the operators `:>` and `@@` of `TLC`, which is why tables are written with `Tables`.

## Findings

- `QuoteIsTheTrade`: `quoteAsync` sorts asks with `compareBidOrder`, highest price
  first, so the ask price in the funding rate is the worst of the book and not that of
  the "trade on orderbook" the comment in `orderbook_service.ts:155` speaks of.

Met on the way and without a run of their own:

- `.filter(orderUtils.isFreshOrder)` passes the index in the list as
  `expirationBufferSeconds`; the configured buffer (`config.ts:49`) is not in force when
  orders are matched. `Fillable` is what the code does.
- `getOrdersAsync` compares `expiration`, a column of text, with the time as a text, so an
  order whose expiration has more digits is left out of every list, although the comment in
  `orderbook_service.ts:415` speaks of an expiry time check.
- `deployTraders` deploys `P1InverseOrders` and makes it an operator, and its address is in
  no book, although `helpers.ts:303` says all are saved.
- The deployed `P1ChainlinkOracle` answers the perpetual's proxy alone, and `mark` asks it
  from `P1Deleveraging`, so nobody can mark with it, against `P1Deleveraging.sol:78`.

Behaviours the models have and no document rules out; those at one place are
listed as hazards:

- a row that a cancellation deleted may be written again by a match under way, and after
  overlapping or repeated posts the book lags behind the chain;
- `initializeV1` accepts a requirement under 100%;
- a `commit` whose answer was lost gives the flag back, and the retry sends the trade
  once more (`SendFails` in `TradeOperation`, and what `TakenOnce` allows for);
- sockets that use the same request id take over each other's subscriptions;
- a first page whose query fails is an unhandled rejection, which ends the process;
- a first page read before an update may be sent after it;
- what the first page does not reach is sent to a subscriber only when it changes;
- on Dev the perpetual is initialized with `Test_P1Funder` while the client library takes the
  book's `P1FundingOracle`, so rates that a client sets there do not reach the ledger;
- every start of the container deploys everything anew, while the database keeps the orders
  signed for the contracts before;
- the contract takes an expiration of zero for none, the server for long ago, so that such an
  order is saved and never matched;
- a limit fee given as the number 0 counts as none, and the default is taken; with a fee of
  −0 the flag says rebate, the fee comes back from the server as 0, and the signature is of
  another order (`NoMinusZero` in `ClientLibraryProofs`; the run has no such fee);
- the server checks no signature, and matches a taker who named somebody else, or a
  maker's fee dearer than the taker's limit: the transaction reverts;
- as the taker of both sides the operator pays the rebate of each;
- a part of a short with no margin at all is never liquidated: the ledger
  refuses what is left.

## Not modelled

- `accountStateUpdate` of the websocket: nothing emits its event.
- `P1SoloBridgeProxy`, the converters and the WETH proxy: what they do is up to dYdX Solo,
  0x and WETH, of which the repository has interfaces only.
- The readers of the mirror oracle and the other oracles: getters. Whom they answer is
  in `PerpetualCloseouts` where it matters.
- The upgrade proxy, raw storage and administration libraries: delegation and access by slot.
- The EIP-712 variants of signing: they differ from `Hash` in the digest alone.
- Saves and deletions that the database refuses: the handler's promise is rejected and later
  steps of it are left out.
- HTTP routing and configuration, demonstrations, test doubles: they keep no state another
  part reads.
- Read-only queries: pages of orders and of the trade history, the display of the book, and
  the account's positions.
- Final settlement and administration next to closeouts; trades of `PerpetualV1` with a
  nondeterministic trader include the steps of every closeout.

## Plan

Done: ledger, numbers, orders, closeouts, proxy, funding and mirror oracles, the server
with its push side, the client's orders and operations, deployment; proofs of every safety
property that a run checks. Left, in this order:

1. The server composed with `PerpetualOrders`, so that the chain reverts for its own
   reasons: a maker order no taker can fill, and lost progress.
2. Configuration: what the parsers of `config.ts` accept.

## Running

    tlc -workers 2 -config MCPerpetualV1.cfg MCPerpetualV1
    tlapm PerpetualProofs.tla
