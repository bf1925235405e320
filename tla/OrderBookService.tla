--------------------------- MODULE OrderBookService ---------------------------
(***************************************************************************)
(* The server's order book: posting an order matches it with the rows of   *)
(* the database, submits one P1Trade transaction, and writes the rows back *)
(* (src/services/orderbook_service.ts, src/handlers/orderbook_handlers.ts).*)
(*                                                                         *)
(* A handler gives up the event loop at every await, so it is one action   *)
(* per stretch between two awaits; requests interleave there, and a crash  *)
(* loses them while database, pool and chain stay.  P1Orders is what the   *)
(* server sees of it: it never fills an order beyond its amount, and any   *)
(* transaction may revert for reasons of its own.                          *)
(***************************************************************************)
EXTENDS Integers, FiniteSets, FiniteSetsExt, Functions, SequencesExt, Tables

CONSTANTS
    Order,        \* hashes of the orders clients may post
    Terms,        \* per order: isBuy, amount, limitPrice, expiration
    Request,      \* the posts and cancellations the server receives
    Cancelable,   \* bound: the sets of orders clients cancel at once
    MaxTime       \* last second of the clock

ASSUME ServiceAssumption ==
    /\ IsFiniteSet(Order) /\ IsFiniteSet(Request)
    /\ Terms \in [Order -> [isBuy: BOOLEAN, amount: Nat \ {0},
                            limitPrice: Nat, expiration: Nat]]
    /\ Cancelable \subseteq (SUBSET Order) \ {{}}
    /\ MaxTime \in Nat

VARIABLES
    book,     \* signed_orders: the filledAmount of each row, by order hash
    history,  \* trade_history: the amount traded according to its rows, per order
    told,     \* the filledAmount in the last event about an order (EventManager)
    request,  \* per request, the state its handler keeps across its awaits
    pool,     \* transactions submitted and not mined yet
    filled,   \* P1Orders._FILLED_AMOUNT_
    now,      \* Date.now() in seconds
    serial    \* whether requests came one at a time so far, each order was
              \* posted once, and the server never crashed

vars == <<book, history, told, request, pool, filled, now, serial>>

Unsent == [stage |-> "unsent"]

\* The stages of a handler that has work left to do.
PostStages == {"sent", "saving", "recording", "adding", "telling"}
CancelStages == {"finding", "deleting", "deleted"}
Busy == PostStages \cup CancelStages
InFlight == {r \in Request : request[r].stage \in Busy}

SumOf(f) == SumFunctionOnSet(f, DOMAIN f)
Cost(f) == SumOf([o \in DOMAIN f |-> f[o] * Terms[o].limitPrice])

-----------------------------------------------------------------------------
(* Matching                                                                *)

Remaining(o) == Terms[o].amount - book[o]
AllRemaining(orders) == SumOf([o \in orders |-> Remaining(o)])

\* The rows of one side, in whatever order findBy lists them.
Listings(isBuy) ==
    SetToSeqs({o \in DOMAIN book : Terms[o].isBuy = isBuy})

\* filter(isFreshOrder) passes the index in the list as the second argument,
\* expirationBufferSeconds: the buffer is the index, not its default.
Fillable(listing) ==
    {listing[i] : i \in {j \in DOMAIN listing :
                           /\ Terms[listing[j]].expiration > now + (j - 1)
                           /\ Remaining(listing[j]) > 0}}

PriceMatches(taker, o) ==
    IF Terms[taker].isBuy THEN Terms[o].limitPrice <= Terms[taker].limitPrice
                          ELSE Terms[o].limitPrice >= Terms[taker].limitPrice

ListedBefore(listing, a, b) ==
    \E i, j \in DOMAIN listing : i < j /\ listing[i] = a /\ listing[j] = b

\* compareAskOrder and compareBidOrder; the sort keeps equal prices as listed.
CompareAsk(listing, a, b) ==
    \/ Terms[a].limitPrice < Terms[b].limitPrice
    \/ Terms[a].limitPrice = Terms[b].limitPrice /\ ListedBefore(listing, a, b)

CompareBid(listing, a, b) ==
    \/ Terms[a].limitPrice > Terms[b].limitPrice
    \/ Terms[a].limitPrice = Terms[b].limitPrice /\ ListedBefore(listing, a, b)

\* What the loop trades with each of the sorted orders: as much as it has left,
\* or what those before it leave of the amount.
Trades(amount, orders, listing, asks) ==
    LET Before(a, b) == IF asks THEN CompareAsk(listing, a, b)
                                ELSE CompareBid(listing, a, b)
        Left(o) == amount - AllRemaining({p \in orders : Before(p, o)})
        trading == {o \in orders : Left(o) > 0}
    IN  [o \in trading |-> IF Remaining(o) < Left(o) THEN Remaining(o) ELSE Left(o)]

\* Fault: bids are sorted as asks are.
AsksFirst(taker, listing) ==
    Trades(Terms[taker].amount,
           {o \in Fillable(listing) : PriceMatches(taker, o)}, listing, TRUE)

\* The part of fulfillOrderAsync between its query and its transaction.
Matching(taker, listing) ==
    Trades(Terms[taker].amount,
           {o \in Fillable(listing) : PriceMatches(taker, o)},
           listing, Terms[taker].isBuy)

\* quoteAsync: what a trade with the orders of one side is said to fill.  Both
\* sides are sorted with compareBidOrder.
Quote(amount, listing) == Trades(amount, Fillable(listing), listing, FALSE)

-----------------------------------------------------------------------------
Init ==
    /\ book = [o \in {} |-> 0]
    /\ history = [o \in Order |-> 0]
    /\ told = [o \in {} |-> 0]
    /\ request = [r \in Request |-> Unsent]
    /\ pool = {}
    /\ filled = [o \in Order |-> 0]
    /\ now = 0
    /\ serial = TRUE

\* Fault: the rows are written without waiting for the transaction.
WithoutWaiting(trades) == IF DOMAIN trades = {} THEN "adding" ELSE "saving"

\* Where a handler goes on once it has matched its order.
AfterMatching(trades) == IF DOMAIN trades = {} THEN "adding" ELSE "sent"

\* A post arrives: query the other side, match, submit the transaction; with no
\* match go straight to addOrderAsync.
Post(r, taker, listing) ==
    LET trades == Matching(taker, listing)
    IN  /\ request[r] = Unsent
        /\ request' = [request EXCEPT ![r] =
             [stage |-> AfterMatching(trades),
              order |-> taker,
              trades |-> trades,
              rows |-> [o \in DOMAIN trades |-> book[o] + trades[o]],
              left |-> DOMAIN trades]]
        /\ pool' = IF DOMAIN trades = {} THEN pool ELSE pool \cup {r}
        /\ serial' = (serial /\ InFlight = {} /\ \A other \in Request :
                         "order" \in DOMAIN request[other] => request[other].order # taker)
        /\ UNCHANGED <<book, history, told, filled, now>>

\* What a request has traded of an order, as maker's order or as the taker's.
TradedBy(r, o) ==
    IF o \in DOMAIN request[r].trades THEN request[r].trades[o]
    ELSE IF o = request[r].order THEN SumOf(request[r].trades) ELSE 0

\* Fault: the taker's order is not filled.
FilledMakersOnly(r) ==
    [o \in Order |->
        IF o \in DOMAIN request[r].trades THEN filled[o] + request[r].trades[o]
        ELSE filled[o]]

\* What a transaction adds to the filled amounts of P1Orders.
FilledBy(r) == [o \in Order |-> filled[o] + TradedBy(r, o)]

\* The answer of txRes.wait(), if the handler is still there.
Answer(r, stage) ==
    request' = [request EXCEPT ![r].stage = IF @ = "sent" THEN stage ELSE @]

\* 'Cannot overfill order'
NoOverfill(r) == \A o \in Order : FilledBy(r)[o] <= Terms[o].amount

\* The transaction is mined: one fill of P1Orders after the other, all or none.
Mine(r) ==
    /\ r \in pool
    /\ NoOverfill(r)
    /\ filled' = FilledBy(r)
    /\ pool' = pool \ {r}
    /\ Answer(r, "saving")
    /\ UNCHANGED <<book, history, told, now, serial>>

\* Fault: a transaction that fails leaves its request waiting.
Unanswered(r) ==
    /\ r \in pool
    /\ pool' = pool \ {r}
    /\ UNCHANGED <<book, history, told, request, filled, now, serial>>

\* The transaction is refused, dropped or reverts: the request fails with it.
Reject(r) ==
    /\ r \in pool
    /\ pool' = pool \ {r}
    /\ Answer(r, "failed")
    /\ UNCHANGED <<book, history, told, filled, now, serial>>

\* Fault: only what was traded now is written.
TradedRow(r, o) == request[r].trades[o]

NewRow(r, o) == request[r].rows[o]

\* One of the concurrent saves of Promise.all is done.
Saves(r, stage, o) ==
    /\ request[r].stage = stage /\ o \in request[r].left
    /\ request' = [request EXCEPT ![r].left = @ \ {o}]

\* All of them are: Promise.all resumes the handler.
AllSaved(r, stage) == request[r].stage = stage /\ request[r].left = {}

\* A maker's row is written, an upsert.
SaveRow(r, o) ==
    /\ Saves(r, "saving", o)
    /\ book' = Put(o, NewRow(r, o), book)
    /\ UNCHANGED <<history, told, pool, filled, now, serial>>

\* emittedOrders
EmittedOrders(r) == request[r].rows

\* The makers' rows are written: tell subscribers of them, save the history.
Saved(r) ==
    /\ AllSaved(r, "saving")
    /\ told' = Override(EmittedOrders(r), told)
    /\ request' = [request EXCEPT
         ![r].stage = "recording",
         ![r].left = DOMAIN request[r].trades \cup {request[r].order}]
    /\ UNCHANGED <<book, history, pool, filled, now, serial>>

\* The amount of a history row: a maker's part, or the taker's total.
HistoryAmount(r, o) == TradedBy(r, o)

\* A history row is inserted, under a new id.
RecordTrade(r, o) ==
    /\ Saves(r, "recording", o)
    /\ history' = [history EXCEPT ![o] = @ + HistoryAmount(r, o)]
    /\ UNCHANGED <<book, told, pool, filled, now, serial>>

Recorded(r) ==
    /\ AllSaved(r, "recording")
    /\ request' = [request EXCEPT ![r].stage = "adding"]
    /\ UNCHANGED <<book, history, told, pool, filled, now, serial>>

\* addOrderAsync: write the new order's own row.
AddOrder(r) ==
    /\ request[r].stage = "adding"
    /\ book' = Put(request[r].order, SumOf(request[r].trades), book)
    /\ request' = [request EXCEPT ![r].stage = "telling"]
    /\ UNCHANGED <<history, told, pool, filled, now, serial>>

\* postOrderAsync goes on: tell of the order unless nothing is left of it, answer.
TellOrder(r) ==
    LET o == request[r].order  fill == SumOf(request[r].trades)
    IN  /\ request[r].stage = "telling"
        /\ told' = IF fill < Terms[o].amount THEN Put(o, fill, told) ELSE told
        /\ request' = [request EXCEPT ![r].stage = "done"]
        /\ UNCHANGED <<book, history, pool, filled, now, serial>>

\* cancelOrderAsync starts to look up the orders to cancel, all at once.
Cancel(r, orders) ==
    /\ request[r] = Unsent
    /\ request' = [request EXCEPT ![r] =
         [stage |-> "finding", cancels |-> orders, left |-> orders]]
    /\ serial' = (serial /\ InFlight = {})
    /\ UNCHANGED <<book, history, told, pool, filled, now>>

\* One is looked up.  findOneBy answers null for a missing row, not undefined,
\* and the handler throws on it before it deletes any.
FindRow(r, o) ==
    /\ request[r].stage = "finding" /\ o \in request[r].left
    /\ request' = [request EXCEPT
         ![r].left = @ \ {o},
         ![r].stage = IF o \notin DOMAIN book THEN "cancelFailed"
                      ELSE IF request[r].left = {o} THEN "deleting" ELSE @]
    /\ UNCHANGED <<book, history, told, pool, filled, now, serial>>

\* cancelOrdersAsyncByHash: the rows that are still there are deleted.
DeleteRows(r) ==
    /\ request[r].stage = "deleting"
    /\ book' = Without(book, request[r].cancels)
    /\ request' = [request EXCEPT ![r].stage = "deleted"]
    /\ UNCHANGED <<history, told, pool, filled, now, serial>>

\* A canceled order is announced as filled.
CanceledOrders(r) == [o \in request[r].cancels |-> Terms[o].amount]

TellCanceled(r) ==
    /\ request[r].stage = "deleted"
    /\ told' = Override(CanceledOrders(r), told)
    /\ request' = [request EXCEPT ![r].stage = "canceled"]
    /\ UNCHANGED <<book, history, pool, filled, now, serial>>

\* The process restarts and has forgotten its requests.
Crash ==
    /\ InFlight # {}
    /\ request' = [r \in Request |->
         IF r \in InFlight THEN [request[r] EXCEPT !.stage = "lost"] ELSE request[r]]
    /\ serial' = FALSE
    /\ UNCHANGED <<book, history, told, pool, filled, now>>

Tick ==
    /\ now < MaxTime
    /\ now' = now + 1
    /\ UNCHANGED <<book, history, told, request, pool, filled, serial>>

Next ==
    \/ \E r \in Request, taker \in Order :
          \E listing \in Listings(~Terms[taker].isBuy) : Post(r, taker, listing)
    \/ \E r \in Request, orders \in Cancelable : Cancel(r, orders)
    \/ \E r \in Request :
          \/ Mine(r) \/ Reject(r)
          \/ Saved(r) \/ Recorded(r) \/ AddOrder(r) \/ TellOrder(r)
          \/ DeleteRows(r) \/ TellCanceled(r)
          \/ \E o \in Order : SaveRow(r, o) \/ RecordTrade(r, o) \/ FindRow(r, o)
    \/ Crash
    \/ Tick

\* Node resumes a handler whose promise has settled, the database answers its
\* queries, and a submitted transaction is mined or refused at some time.
Fairness ==
    \A r \in Request :
        /\ WF_vars(Mine(r) \/ Reject(r))
        /\ WF_vars(Saved(r)) /\ WF_vars(Recorded(r))
        /\ WF_vars(AddOrder(r)) /\ WF_vars(TellOrder(r))
        /\ WF_vars(DeleteRows(r)) /\ WF_vars(TellCanceled(r))
        /\ \A o \in Order : WF_vars(SaveRow(r, o)) /\ WF_vars(RecordTrade(r, o))
                               /\ WF_vars(FindRow(r, o))

Spec == Init /\ [][Next]_vars /\ Fairness

-----------------------------------------------------------------------------
(* Properties                                                              *)

\* Neither the book, nor the history of trades, nor the events ever tell of a fill
\* the chain has not made, whatever requests overlap, repeat, fail or are lost in a
\* crash: whoever is told that something is left of an order is told no less than that.
NothingIsAhead ==
    /\ \A o \in DOMAIN book : book[o] <= filled[o]
    /\ \A o \in Order : history[o] <= filled[o]
    /\ \A o \in DOMAIN told : told[o] < Terms[o].amount => told[o] <= filled[o]

\* Every unit bought is sold in the same transaction, so that the operator,
\* the taker of all fills, never keeps a position of its own.
OperatorFlat ==
    LET Side(isBuy) == {o \in Order : Terms[o].isBuy = isBuy}
    IN  SumFunctionOnSet(filled, Side(TRUE)) = SumFunctionOnSet(filled, Side(FALSE))

Quiet == InFlight = {} /\ pool = {}

\* When requests came one at a time, without crashes and re-posts, a quiet server's
\* book shows exactly what the chain has filled; its history tells of every unit
\* traded, of orders since canceled as well; and a subscriber's picture, made of the
\* events alone, is the book: each row with something left, with its fill, and no
\* order that is not in the book.
InStep ==
    LET Open(fills) == {o \in DOMAIN fills : fills[o] < Terms[o].amount}
    IN  serial /\ Quiet =>
          /\ \A o \in DOMAIN book : book[o] = filled[o]
          /\ history = filled
          /\ Open(told) = Open(book) /\ \A o \in Open(book) : told[o] = book[o]

Allocations(orders) ==
    {f \in [orders -> 0..Max({0} \cup {Remaining(o) : o \in orders})] :
        \A o \in orders : f[o] <= Remaining(o)}

\* Whether trades are as many as the amount and the orders allow, and no other
\* choice of as many gives the taker a better price.
Best(trades, amount, orders, takerBuys) ==
    LET total == SumOf(trades)
        available == AllRemaining(orders)
    IN  /\ total = IF available < amount THEN available ELSE amount
        /\ \A f \in Allocations(orders) :
             SumOf(f) = total => IF takerBuys THEN Cost(f) >= Cost(trades)
                                              ELSE Cost(f) <= Cost(trades)

\* Matching trades as much as it can at the best price to be had.
MatchIsBest ==
    \A taker \in Order : \A listing \in Listings(~Terms[taker].isBuy) :
        Best(Matching(taker, listing), Terms[taker].amount,
             {o \in Fillable(listing) : PriceMatches(taker, o)}, Terms[taker].isBuy)

\* getFundingRate quotes the price of a "trade on orderbook": the one a taker
\* of that amount would get, from the asks when it buys.
QuoteIsTheTrade ==
    \A amount \in 1..2, isBuy \in BOOLEAN : \A listing \in Listings(isBuy) :
        Best(Quote(amount, listing), amount, Fillable(listing), ~isBuy)

\* Every post and cancellation is answered in the end, unless the server forgets it.
Answered ==
    \A r \in Request :
        request[r].stage \in Busy
          ~> request[r].stage \in {"done", "failed", "canceled", "cancelFailed", "lost"}
=============================================================================
