------------------------ MODULE OrderBookServiceProofs ------------------------
(***************************************************************************)
(* The order book service, for any orders and any number of requests: what *)
(* it stores and tells is never ahead of the chain, the operator stays     *)
(* flat, and requests that come one at a time leave book, history, events  *)
(* and chain in step.                                                      *)
(***************************************************************************)
EXTENDS OrderBookService, TotalsProofs

USE ServiceAssumption

\* Amounts of some of the orders.
Amounts == UNION {[orders -> Nat] : orders \in SUBSET Order}

\* What the handlers of posts and of cancellations remember.
PostState ==
    [stage: PostStages \cup {"done", "failed", "lost"}, order: Order,
     trades: Amounts, rows: Amounts, left: SUBSET Order]

CancelState ==
    [stage: CancelStages \cup {"canceled", "cancelFailed", "lost"},
     cancels: SUBSET Order, left: SUBSET Order]

Types ==
    /\ book \in Amounts /\ told \in Amounts
    /\ history \in [Order -> Nat] /\ filled \in [Order -> Nat]
    /\ request \in [Request -> {Unsent} \cup PostState \cup CancelState]
    /\ serial \in BOOLEAN
    /\ pool \subseteq {r \in Request : /\ request[r] \in PostState
                                       /\ request[r].stage \in {"sent", "lost"}}

Posts == {r \in Request : request[r] \in PostState}
Posted == {request[r].order : r \in Posts}

\* Once its transaction is mined, what a handler will write has been filled.
Mined == {"saving", "recording", "adding", "telling"}

PostOK(q) ==
    /\ DOMAIN q.rows = DOMAIN q.trades
    /\ \A o \in DOMAIN q.trades :
         /\ Terms[o].isBuy # Terms[q.order].isBuy
         /\ q.rows[o] <= filled[o] + q.trades[o]
         /\ q.stage \in Mined => q.rows[o] <= filled[o]
    /\ q.stage \in Mined => SumOf(q.trades) <= filled[q.order]
    /\ q.stage = "sent" => q.left = DOMAIN q.trades
    /\ q.stage = "saving" => q.left \subseteq DOMAIN q.trades

PostInv == \A r \in Posts : PostOK(request[r])

\* What a request has traded of an order that the chain has filled and the history
\* does not tell of yet.
Unrecorded(r, o) ==
    IF \/ request[r].stage = "saving"
       \/ request[r].stage = "recording" /\ o \in request[r].left
    THEN TradedBy(r, o) ELSE 0

AllUnrecorded(o) == SumFunctionOnSet([r \in Request |-> Unrecorded(r, o)], Request)

\* The history and what it does not tell of yet make up what the chain has filled,
\* unless the handler of a trade was lost.
HistoryInv ==
    /\ \A o \in Order : /\ history[o] + AllUnrecorded(o) <= filled[o]
                        /\ serial => history[o] + AllUnrecorded(o) = filled[o]
    /\ serial => \A r \in Request : request[r].stage # "lost"

\* A canceled order's row was found, so it was posted.
CancelPosted(q) ==
    /\ q.stage = "finding" => q.cancels \ q.left \subseteq Posted
    /\ q.stage \in {"deleting", "deleted"} => q.cancels \subseteq Posted

\* The book, the events and the chain are about orders that were posted.
PostedInv ==
    /\ DOMAIN book \cup DOMAIN told \subseteq Posted
    /\ \A o \in Order \ Posted : filled[o] = 0
    /\ \A r \in Posts : DOMAIN request[r].trades \subseteq Posted
    /\ \A r \in Request : CancelPosted(request[r])

\* An order whose row is still to be written.
SavingBy(r, o) == request[r].stage = "saving" /\ o \in request[r].left

\* An order whose row has changed and about which the event is still to come.
UntoldBy(r, o) ==
    \/ request[r].stage = "saving" /\ o \in DOMAIN request[r].trades
    \/ request[r].stage = "telling" /\ o = request[r].order
    \/ request[r].stage = "deleted" /\ o \in request[r].cancels

Open(fills) == {o \in DOMAIN fills : fills[o] < Terms[o].amount}

\* What the events tell of an order is its row.
Agree(o) == /\ o \in Open(told) <=> o \in Open(book)
            /\ o \in Open(book) => told[o] = book[o]

SerialPost(q) ==
    /\ q.stage = "sent" =>
         /\ filled[q.order] = 0
         /\ \A o \in DOMAIN q.trades : q.rows[o] = filled[o] + q.trades[o]
    /\ q.stage \in Mined => filled[q.order] = SumOf(q.trades)
    /\ q.stage = "saving" =>
         \A o \in DOMAIN q.trades : /\ q.rows[o] = filled[o]
                                    /\ o \notin q.left => book[o] = filled[o]
    /\ q.stage \in {"sent", "saving"} => DOMAIN q.trades \subseteq DOMAIN book
    /\ q.stage \in PostStages => q.order \notin DOMAIN told
    /\ q.stage \in PostStages \ {"telling"} => q.order \notin DOMAIN book
    /\ q.stage = "telling" => q.order \in DOMAIN book

SerialInv ==
    serial =>
        /\ \A r, q \in InFlight : r = q
        /\ \A r \in Posts : SerialPost(request[r])
        /\ \A r \in Request :
             request[r].stage = "deleted" => request[r].cancels \cap DOMAIN book = {}
        /\ \A o \in DOMAIN book : book[o] = filled[o] \/ \E r \in Request : SavingBy(r, o)
        /\ \A o \in Order : Agree(o) \/ \E r \in Request : UntoldBy(r, o)

-----------------------------------------------------------------------------
(* Functions and sums.                                                     *)

LEMMA AmountsType ==
    ASSUME NEW f \in Amounts
    PROVE  /\ DOMAIN f \in SUBSET Order /\ IsFiniteSet(DOMAIN f)
           /\ f \in [DOMAIN f -> Nat]
           /\ \A o \in DOMAIN f : f[o] \in Nat
<1>1. PICK orders \in SUBSET Order : f \in [orders -> Nat]
  BY DEF Amounts
<1>2. IsFiniteSet(orders)
  BY FS_Subset
<1>3. QED
  BY <1>1, <1>2

LEMMA IsAmounts ==
    ASSUME NEW orders \in SUBSET Order, NEW f \in [orders -> Nat]
    PROVE  f \in Amounts
BY DEF Amounts

LEMMA Overriding ==
    ASSUME NEW f \in Amounts, NEW g \in Amounts
    PROVE  /\ Override(f, g) \in Amounts
           /\ DOMAIN Override(f, g) = DOMAIN f \cup DOMAIN g
           /\ \A o \in DOMAIN f : Override(f, g)[o] = f[o]
           /\ \A o \in DOMAIN g \ DOMAIN f : Override(f, g)[o] = g[o]
<1>1. Override(f, g) \in [DOMAIN f \cup DOMAIN g -> Nat]
  BY AmountsType DEF Override
<1>2. DOMAIN f \cup DOMAIN g \in SUBSET Order
  BY AmountsType
<1>3. Override(f, g) \in Amounts
  BY <1>1, <1>2, IsAmounts
<1>4. QED
  BY <1>3 DEF Override

\* A written row leaves every other row of its table alone, whatever the table holds.
LEMMA PutKeeps ==
    ASSUME NEW o, NEW n, NEW f, NEW p \in DOMAIN f \ {o}
    PROVE  Put(o, n, f)[p] = f[p]
<1> DEFINE row == [k \in {o} |-> n]
<1>1. DOMAIN row = {o}
  OBVIOUS
<1> HIDE DEF row
<1>2. Put(o, n, f) = Override(row, f)
  BY DEF Put, row
<1>3. p \notin DOMAIN row /\ p \in DOMAIN row \cup DOMAIN f
  BY <1>1
<1>4. QED
  BY <1>2, <1>3 DEF Override

LEMMA Writing ==
    ASSUME NEW o \in Order, NEW n \in Nat, NEW f \in Amounts
    PROVE  /\ Put(o, n, f) \in Amounts
           /\ DOMAIN Put(o, n, f) = DOMAIN f \cup {o}
           /\ Put(o, n, f)[o] = n
           /\ \A p \in DOMAIN f \ {o} : Put(o, n, f)[p] = f[p]
<1> DEFINE row == [p \in {o} |-> n]
<1>1. row \in [{o} -> Nat] /\ {o} \in SUBSET Order
  OBVIOUS
<1>2. row \in Amounts
  BY <1>1, IsAmounts
<1>3. DOMAIN row = {o} /\ row[o] = n
  OBVIOUS
<1>4. Put(o, n, f) = Override(row, f)
  BY DEF Put
<1> HIDE DEF row
<1>5. /\ Override(row, f) \in Amounts
      /\ DOMAIN Override(row, f) = DOMAIN row \cup DOMAIN f
      /\ \A p \in DOMAIN row : Override(row, f)[p] = row[p]
      /\ \A p \in DOMAIN f \ DOMAIN row : Override(row, f)[p] = f[p]
  BY ONLY <1>2, f \in Amounts, Overriding
<1>6. QED
  BY ONLY <1>3, <1>4, <1>5

LEMMA SumOfType ==
    ASSUME NEW f \in Amounts
    PROVE  SumOf(f) \in Nat
<1>1. IsFiniteSet(DOMAIN f) /\ \A o \in DOMAIN f : f[o] \in Nat
  BY AmountsType
<1>2. QED
  BY ONLY <1>1, SumOfNats DEF SumOf

LEMMA KindsDiffer ==
    /\ \A x \in PostState : x \notin CancelState /\ x # Unsent /\ x.stage # "unsent"
    /\ \A x \in CancelState : x # Unsent /\ x.stage # "unsent"
    /\ Unsent.stage = "unsent"
<1>1. \A x \in PostState : "order" \in DOMAIN x /\ x.stage # "unsent"
  BY DEF PostState, PostStages
<1>2. \A x \in CancelState : "order" \notin DOMAIN x /\ x.stage # "unsent"
  BY DEF CancelState, CancelStages
<1>3. Unsent.stage = "unsent"
  BY DEF Unsent
<1>4. QED
  BY <1>1, <1>2, <1>3

LEMMA StageTells ==
    ASSUME Types, NEW r \in Request
    PROVE  /\ request[r].stage \in PostStages => r \in Posts
           /\ request[r].stage \in CancelStages => request[r] \in CancelState
           /\ r \in InFlight => request[r].stage \in PostStages \cup CancelStages
           /\ r \in Posts => request[r] \in PostState
           /\ r \notin Posts => request[r] = Unsent \/ request[r] \in CancelState
<1>1. request[r] = Unsent \/ request[r] \in PostState \/ request[r] \in CancelState
  BY DEF Types
<1>2. QED
  BY <1>1, KindsDiffer
     DEF Posts, PostState, CancelState, PostStages, CancelStages, InFlight, Busy

-----------------------------------------------------------------------------
(* Matching                                                                *)

LEMMA ListingOfSide ==
    ASSUME NEW isBuy, NEW listing \in Listings(isBuy)
    PROVE  \A j \in DOMAIN listing : listing[j] \in {o \in DOMAIN book : Terms[o].isBuy = isBuy}
BY DEF Listings, SetToSeqs

LEMMA FillableOfSide ==
    ASSUME NEW isBuy, NEW listing \in Listings(isBuy)
    PROVE  \A o \in Fillable(listing) :
             o \in DOMAIN book /\ Terms[o].isBuy = isBuy /\ Remaining(o) > 0
BY ListingOfSide DEF Fillable

LEMMA RemainingType ==
    ASSUME book \in Amounts, NEW o \in DOMAIN book
    PROVE  Remaining(o) \in Int
BY AmountsType DEF Remaining

LEMMA AllRemainingType ==
    ASSUME book \in Amounts, NEW orders \in SUBSET DOMAIN book
    PROVE  AllRemaining(orders) \in Int
<1> DEFINE left == [o \in orders |-> Remaining(o)]
<1>1. IsFiniteSet(orders)
  BY AmountsType, FS_Subset
<1>2. DOMAIN left = orders /\ \A o \in orders : left[o] \in Int
  BY RemainingType
<1>3. orders \in SUBSET orders
  OBVIOUS
<1> HIDE DEF left
<1>4. SumFunctionOnSet(left, orders) \in Int
  BY ONLY <1>1, <1>2, <1>3, SumType
<1>5. QED
  BY <1>2, <1>4 DEF AllRemaining, SumOf, left

LEMMA TradesType ==
    ASSUME book \in Amounts, NEW amount \in Nat, NEW orders \in SUBSET DOMAIN book,
           NEW listing, NEW asks, \A o \in orders : Remaining(o) > 0
    PROVE  /\ Trades(amount, orders, listing, asks) \in Amounts
           /\ DOMAIN Trades(amount, orders, listing, asks) \subseteq orders
<1> DEFINE Before(a, b) == IF asks THEN CompareAsk(listing, a, b)
                                   ELSE CompareBid(listing, a, b)
           Left(o) == amount - AllRemaining({p \in orders : Before(p, o)})
           trading == {o \in orders : Left(o) > 0}
<1>1. \A o \in orders : Left(o) \in Int
  <2> HIDE DEF Before
  <2>1. ASSUME NEW o \in orders
        PROVE  Left(o) \in Int
    <3>1. {p \in orders : Before(p, o)} \in SUBSET DOMAIN book
      OBVIOUS
    <3>2. AllRemaining({p \in orders : Before(p, o)}) \in Int
      BY <3>1, AllRemainingType
    <3>3. QED
      BY <3>2
  <2>2. QED
    BY <2>1
<1>2. \A o \in orders : Remaining(o) \in Int
  BY RemainingType
<1> HIDE DEF Left
<1>3. [o \in trading |-> IF Remaining(o) < Left(o) THEN Remaining(o) ELSE Left(o)]
        \in [trading -> Nat]
  BY <1>1, <1>2
<1>4. trading \in SUBSET Order
  BY AmountsType
<1>5. Trades(amount, orders, listing, asks)
        = [o \in trading |-> IF Remaining(o) < Left(o) THEN Remaining(o) ELSE Left(o)]
  BY DEF Trades, Left
<1> HIDE DEF trading
<1>6. QED
  BY <1>3, <1>4, <1>5, IsAmounts DEF trading

LEMMA MatchingType ==
    ASSUME book \in Amounts, NEW taker \in Order, NEW listing \in Listings(~Terms[taker].isBuy)
    PROVE  /\ Matching(taker, listing) \in Amounts
           /\ \A o \in DOMAIN Matching(taker, listing) :
                o \in DOMAIN book /\ Terms[o].isBuy = ~Terms[taker].isBuy
<1> DEFINE orders == {o \in Fillable(listing) : PriceMatches(taker, o)}
<1>1. \A o \in orders : /\ o \in DOMAIN book
                        /\ Terms[o].isBuy = ~Terms[taker].isBuy
                        /\ Remaining(o) > 0
  BY FillableOfSide
<1>2. Terms[taker].amount \in Nat
  OBVIOUS
<1>3. orders \in SUBSET DOMAIN book
  BY <1>1
<1> HIDE DEF orders
<1>4. /\ Trades(Terms[taker].amount, orders, listing, Terms[taker].isBuy) \in Amounts
      /\ DOMAIN Trades(Terms[taker].amount, orders, listing, Terms[taker].isBuy)
           \subseteq orders
  BY <1>1, <1>2, <1>3, TradesType
<1>5. QED
  BY <1>1, <1>4 DEF Matching, orders

-----------------------------------------------------------------------------
(* What each action does to the requests.                                  *)

Remembered == {Unsent} \cup PostState \cup CancelState

\* The handler of a post goes on to a stage, and nothing happens to the others.
PostGoesOn(r, stage, left) ==
    /\ request' \in [Request -> Remembered]
    /\ r \in Posts /\ request'[r] \in PostState
    /\ request'[r].stage = stage /\ request'[r].left = left
    /\ request'[r].order = request[r].order
    /\ request'[r].trades = request[r].trades /\ request'[r].rows = request[r].rows
    /\ \A q \in Request \ {r} : request'[q] = request[q]

CancelGoesOn(r, stage, left) ==
    /\ request' \in [Request -> Remembered]
    /\ request[r] \in CancelState /\ request'[r] \in CancelState
    /\ request'[r].stage = stage /\ request'[r].left = left
    /\ request'[r].cancels = request[r].cancels
    /\ \A q \in Request \ {r} : request'[q] = request[q]

LEMMA PostFields ==
    ASSUME Types, NEW r \in Posts
    PROVE  /\ r \in Request /\ request[r] \in PostState
           /\ request[r].stage \in PostStages \cup {"done", "failed", "lost"}
           /\ request[r].order \in Order
           /\ request[r].trades \in Amounts /\ request[r].rows \in Amounts
           /\ request[r].left \in SUBSET Order
BY DEF Posts, PostState

LEMMA StepOfPost ==
    ASSUME Types, NEW r \in Posts, NEW x,
           x \in PostState, request' = [request EXCEPT ![r] = x],
           x.order = request[r].order, x.trades = request[r].trades,
           x.rows = request[r].rows
    PROVE  PostGoesOn(r, x.stage, x.left)
BY DEF Types, Posts, Remembered, PostGoesOn

LEMMA StepOfCancel ==
    ASSUME Types, NEW r \in Request, NEW x, request[r] \in CancelState,
           x \in CancelState, request' = [request EXCEPT ![r] = x],
           x.cancels = request[r].cancels
    PROVE  CancelGoesOn(r, x.stage, x.left)
BY DEF Types, Posts, Remembered, CancelGoesOn

\* A post's handler goes on to a stage, with these saves left.
LEMMA PostChanges ==
    ASSUME Types, NEW r \in Posts, NEW stage, NEW left,
           stage \in PostStages \cup {"done", "failed", "lost"}, left \in SUBSET Order,
           request' = [request EXCEPT ![r] =
                         [request[r] EXCEPT !.stage = stage, !.left = left]]
    PROVE  PostGoesOn(r, stage, left)
<1> DEFINE x == [request[r] EXCEPT !.stage = stage, !.left = left]
<1>1. request[r] \in PostState
  BY PostFields
<1>2. /\ x \in PostState /\ x.stage = stage /\ x.left = left
      /\ x.order = request[r].order /\ x.trades = request[r].trades
      /\ x.rows = request[r].rows
  BY <1>1 DEF PostState
<1>3. request' = [request EXCEPT ![r] = x]
  OBVIOUS
<1> HIDE DEF x
<1>4. PostGoesOn(r, x.stage, x.left)
  BY <1>2, <1>3, StepOfPost
<1>5. QED
  BY <1>2, <1>4

LEMMA CancelChanges ==
    ASSUME Types, NEW r \in Request, request[r] \in CancelState, NEW stage, NEW left,
           stage \in CancelStages \cup {"canceled", "cancelFailed", "lost"},
           left \in SUBSET Order,
           request' = [request EXCEPT ![r] =
                         [request[r] EXCEPT !.stage = stage, !.left = left]]
    PROVE  CancelGoesOn(r, stage, left)
<1> DEFINE x == [request[r] EXCEPT !.stage = stage, !.left = left]
<1>2. /\ x \in CancelState /\ x.stage = stage /\ x.left = left
      /\ x.cancels = request[r].cancels
  BY DEF CancelState
<1>3. request' = [request EXCEPT ![r] = x]
  OBVIOUS
<1> HIDE DEF x
<1>4. CancelGoesOn(r, x.stage, x.left)
  BY <1>2, <1>3, StepOfCancel
<1>5. QED
  BY <1>2, <1>4

\* An update of one field, as an update of both that a handler changes.
LEMMA WholePost ==
    ASSUME NEW q \in PostState, NEW stage, NEW left
    PROVE  /\ [q EXCEPT !.stage = stage] = [q EXCEPT !.stage = stage, !.left = q.left]
           /\ [q EXCEPT !.left = left] = [q EXCEPT !.stage = q.stage, !.left = left]
BY DEF PostState

LEMMA WholeCancel ==
    ASSUME NEW q \in CancelState, NEW stage
    PROVE  [q EXCEPT !.stage = stage] = [q EXCEPT !.stage = stage, !.left = q.left]
BY DEF CancelState

LEMMA AnswerDoes ==
    ASSUME Types, NEW r \in pool, NEW stage \in {"saving", "failed"}, Answer(r, stage)
    PROVE  /\ r \in Posts /\ request[r].stage \in {"sent", "lost"}
           /\ request[r].stage = "sent" => PostGoesOn(r, stage, request[r].left)
           /\ request[r].stage = "lost" => PostGoesOn(r, "lost", request[r].left)
<1>1. r \in Posts /\ request[r].stage \in {"sent", "lost"}
  BY DEF Types, Posts
<1>2. request[r] \in PostState /\ request[r].left \in SUBSET Order
  BY <1>1, PostFields
<1> DEFINE next == IF request[r].stage = "sent" THEN stage ELSE "lost"
<1>3. request' = [request EXCEPT ![r] = [request[r] EXCEPT !.stage = next]]
  BY <1>1, <1>2 DEF Answer, Types
<1>4. next \in PostStages \cup {"done", "failed", "lost"}
  BY DEF PostStages
<1> HIDE DEF next
<1>5. [request[r] EXCEPT !.stage = next]
        = [request[r] EXCEPT !.stage = next, !.left = request[r].left]
  BY <1>2, WholePost
<1>6. PostGoesOn(r, next, request[r].left)
  BY <1>1, <1>2, <1>3, <1>4, <1>5, PostChanges
<1>7. QED
  BY <1>1, <1>6 DEF next

LEMMA SaveRowDoes ==
    ASSUME Types, NEW r \in Request, NEW o \in Order, SaveRow(r, o)
    PROVE  /\ r \in Posts /\ request[r].stage = "saving"
           /\ o \in request[r].left
           /\ PostGoesOn(r, "saving", request[r].left \ {o})
<1>1. request[r].stage = "saving" /\ o \in request[r].left
  BY DEF SaveRow, Saves
<1>2. r \in Posts /\ request[r] \in PostState /\ request[r].left \in SUBSET Order
  BY <1>1, StageTells, PostFields DEF PostStages
<1>3. request' = [request EXCEPT ![r] = [request[r] EXCEPT !.left = request[r].left \ {o}]]
  BY <1>1, <1>2 DEF SaveRow, Saves, Types
<1>4. [request[r] EXCEPT !.left = request[r].left \ {o}]
        = [request[r] EXCEPT !.stage = "saving", !.left = request[r].left \ {o}]
  BY <1>1, <1>2, WholePost
<1>5. request[r].left \ {o} \in SUBSET Order
  BY <1>2, PostFields, AmountsType
<1>6. PostGoesOn(r, "saving", request[r].left \ {o})
  BY <1>2, <1>3, <1>4, <1>5, PostChanges DEF PostStages
<1>7. QED
  BY <1>1, <1>2, <1>6

LEMMA SavedDoes ==
    ASSUME Types, NEW r \in Request, Saved(r)
    PROVE  /\ r \in Posts /\ request[r].stage = "saving"
           /\ request[r].left = {}
           /\ PostGoesOn(r, "recording", DOMAIN request[r].trades \cup {request[r].order})
<1>1. request[r].stage = "saving" /\ request[r].left = {}
  BY DEF Saved, AllSaved
<1>2. r \in Posts /\ request[r] \in PostState /\ request[r].left \in SUBSET Order
  BY <1>1, StageTells, PostFields DEF PostStages
<1>3. request' = [request EXCEPT ![r] = [request[r] EXCEPT !.stage = "recording",
             !.left = DOMAIN request[r].trades \cup {request[r].order}]]
  BY <1>1, <1>2 DEF Saved, AllSaved, Types
<1>4. [request[r] EXCEPT !.stage = "recording",
             !.left = DOMAIN request[r].trades \cup {request[r].order}]
        = [request[r] EXCEPT !.stage = "recording", !.left = DOMAIN request[r].trades \cup {request[r].order}]
  BY <1>2
<1>5. DOMAIN request[r].trades \cup {request[r].order} \in SUBSET Order
  BY <1>2, PostFields, AmountsType
<1>6. PostGoesOn(r, "recording", DOMAIN request[r].trades \cup {request[r].order})
  BY <1>2, <1>3, <1>4, <1>5, PostChanges DEF PostStages
<1>7. QED
  BY <1>1, <1>2, <1>6

LEMMA RecordTradeDoes ==
    ASSUME Types, NEW r \in Request, NEW o \in Order, RecordTrade(r, o)
    PROVE  /\ r \in Posts /\ request[r].stage = "recording"
           /\ o \in request[r].left
           /\ PostGoesOn(r, "recording", request[r].left \ {o})
<1>1. request[r].stage = "recording" /\ o \in request[r].left
  BY DEF RecordTrade, Saves
<1>2. r \in Posts /\ request[r] \in PostState /\ request[r].left \in SUBSET Order
  BY <1>1, StageTells, PostFields DEF PostStages
<1>3. request' = [request EXCEPT ![r] = [request[r] EXCEPT !.left = request[r].left \ {o}]]
  BY <1>1, <1>2 DEF RecordTrade, Saves, Types
<1>4. [request[r] EXCEPT !.left = request[r].left \ {o}]
        = [request[r] EXCEPT !.stage = "recording", !.left = request[r].left \ {o}]
  BY <1>1, <1>2, WholePost
<1>5. request[r].left \ {o} \in SUBSET Order
  BY <1>2, PostFields, AmountsType
<1>6. PostGoesOn(r, "recording", request[r].left \ {o})
  BY <1>2, <1>3, <1>4, <1>5, PostChanges DEF PostStages
<1>7. QED
  BY <1>1, <1>2, <1>6

LEMMA RecordedDoes ==
    ASSUME Types, NEW r \in Request, Recorded(r)
    PROVE  /\ r \in Posts /\ request[r].stage = "recording"
           /\ request[r].left = {}
           /\ PostGoesOn(r, "adding", request[r].left)
<1>1. request[r].stage = "recording" /\ request[r].left = {}
  BY DEF Recorded, AllSaved
<1>2. r \in Posts /\ request[r] \in PostState /\ request[r].left \in SUBSET Order
  BY <1>1, StageTells, PostFields DEF PostStages
<1>3. request' = [request EXCEPT ![r] = [request[r] EXCEPT !.stage = "adding"]]
  BY <1>1, <1>2 DEF Recorded, AllSaved, Types
<1>4. [request[r] EXCEPT !.stage = "adding"]
        = [request[r] EXCEPT !.stage = "adding", !.left = request[r].left]
  BY <1>2, WholePost
<1>5. request[r].left \in SUBSET Order
  BY <1>2, PostFields, AmountsType
<1>6. PostGoesOn(r, "adding", request[r].left)
  BY <1>2, <1>3, <1>4, <1>5, PostChanges DEF PostStages
<1>7. QED
  BY <1>1, <1>2, <1>6

LEMMA AddOrderDoes ==
    ASSUME Types, NEW r \in Request, AddOrder(r)
    PROVE  /\ r \in Posts /\ request[r].stage = "adding"
          
           /\ PostGoesOn(r, "telling", request[r].left)
<1>1. request[r].stage = "adding"
  BY DEF AddOrder
<1>2. r \in Posts /\ request[r] \in PostState /\ request[r].left \in SUBSET Order
  BY <1>1, StageTells, PostFields DEF PostStages
<1>3. request' = [request EXCEPT ![r] = [request[r] EXCEPT !.stage = "telling"]]
  BY <1>1, <1>2 DEF AddOrder, Types
<1>4. [request[r] EXCEPT !.stage = "telling"]
        = [request[r] EXCEPT !.stage = "telling", !.left = request[r].left]
  BY <1>2, WholePost
<1>5. request[r].left \in SUBSET Order
  BY <1>2, PostFields, AmountsType
<1>6. PostGoesOn(r, "telling", request[r].left)
  BY <1>2, <1>3, <1>4, <1>5, PostChanges DEF PostStages
<1>7. QED
  BY <1>1, <1>2, <1>6

LEMMA TellOrderDoes ==
    ASSUME Types, NEW r \in Request, TellOrder(r)
    PROVE  /\ r \in Posts /\ request[r].stage = "telling"
          
           /\ PostGoesOn(r, "done", request[r].left)
<1>1. request[r].stage = "telling"
  BY DEF TellOrder
<1>2. r \in Posts /\ request[r] \in PostState /\ request[r].left \in SUBSET Order
  BY <1>1, StageTells, PostFields DEF PostStages
<1>3. request' = [request EXCEPT ![r] = [request[r] EXCEPT !.stage = "done"]]
  BY <1>1, <1>2 DEF TellOrder, Types
<1>4. [request[r] EXCEPT !.stage = "done"]
        = [request[r] EXCEPT !.stage = "done", !.left = request[r].left]
  BY <1>2, WholePost
<1>5. request[r].left \in SUBSET Order
  BY <1>2, PostFields, AmountsType
<1>6. PostGoesOn(r, "done", request[r].left)
  BY <1>2, <1>3, <1>4, <1>5, PostChanges DEF PostStages
<1>7. QED
  BY <1>1, <1>2, <1>6

LEMMA DeleteRowsDoes ==
    ASSUME Types, NEW r \in Request, DeleteRows(r)
    PROVE  /\ request[r].stage = "deleting" /\ request[r] \in CancelState
           /\ CancelGoesOn(r, "deleted", request[r].left)
<1>1. request[r].stage = "deleting"
  BY DEF DeleteRows
<1>2. request[r] \in CancelState
  BY <1>1, StageTells DEF CancelStages
<1>3. request' = [request EXCEPT ![r] = [request[r] EXCEPT !.stage = "deleted"]]
  BY <1>1, <1>2 DEF DeleteRows, Types
<1>4. [request[r] EXCEPT !.stage = "deleted"]
        = [request[r] EXCEPT !.stage = "deleted", !.left = request[r].left]
  BY <1>2, WholeCancel
<1>5. request[r].left \in SUBSET Order
  BY <1>2 DEF CancelState
<1>6. CancelGoesOn(r, "deleted", request[r].left)
  BY <1>2, <1>3, <1>4, <1>5, CancelChanges DEF CancelStages
<1>7. QED
  BY <1>1, <1>2, <1>6

LEMMA TellCanceledDoes ==
    ASSUME Types, NEW r \in Request, TellCanceled(r)
    PROVE  /\ request[r].stage = "deleted" /\ request[r] \in CancelState
           /\ CancelGoesOn(r, "canceled", request[r].left)
<1>1. request[r].stage = "deleted"
  BY DEF TellCanceled
<1>2. request[r] \in CancelState
  BY <1>1, StageTells DEF CancelStages
<1>3. request' = [request EXCEPT ![r] = [request[r] EXCEPT !.stage = "canceled"]]
  BY <1>1, <1>2 DEF TellCanceled, Types
<1>4. [request[r] EXCEPT !.stage = "canceled"]
        = [request[r] EXCEPT !.stage = "canceled", !.left = request[r].left]
  BY <1>2, WholeCancel
<1>5. request[r].left \in SUBSET Order
  BY <1>2 DEF CancelState
<1>6. CancelGoesOn(r, "canceled", request[r].left)
  BY <1>2, <1>3, <1>4, <1>5, CancelChanges DEF CancelStages
<1>7. QED
  BY <1>1, <1>2, <1>6

LEMMA FindRowDoes ==
    ASSUME Types, NEW r \in Request, NEW o \in Order, FindRow(r, o)
    PROVE  /\ request[r].stage = "finding" /\ request[r] \in CancelState
           /\ o \in request[r].left
           /\ \/ CancelGoesOn(r, "cancelFailed", request[r].left \ {o})
              \/ /\ o \in DOMAIN book /\ request[r].left = {o}
                 /\ CancelGoesOn(r, "deleting", request[r].left \ {o})
              \/ /\ o \in DOMAIN book
                 /\ CancelGoesOn(r, "finding", request[r].left \ {o})
<1>1. request[r].stage = "finding" /\ o \in request[r].left
  BY DEF FindRow
<1>2. request[r] \in CancelState
  BY <1>1, StageTells DEF CancelStages
<1> DEFINE next == IF o \notin DOMAIN book THEN "cancelFailed"
                   ELSE IF request[r].left = {o} THEN "deleting" ELSE "finding"
<1>3. request' = [request EXCEPT ![r] =
                    [request[r] EXCEPT !.stage = next, !.left = request[r].left \ {o}]]
  <2>1. request' = [request EXCEPT
                      ![r].left = @ \ {o},
                      ![r].stage = IF o \notin DOMAIN book THEN "cancelFailed"
                                   ELSE IF request[r].left = {o} THEN "deleting" ELSE @]
    BY DEF FindRow
  <2>2. [request[r] EXCEPT !.stage = next, !.left = request[r].left \ {o}]
          = [request[r] EXCEPT !.left = request[r].left \ {o}, !.stage = next]
    BY <1>2 DEF CancelState
  <2>3. QED
    BY <1>1, <1>2, <2>1, <2>2 DEF Types
<1>4. next \in CancelStages \cup {"canceled", "cancelFailed", "lost"}
  BY DEF CancelStages
<1>5. request[r].left \ {o} \in SUBSET Order
  BY <1>2 DEF CancelState
<1> HIDE DEF next
<1>6. CancelGoesOn(r, next, request[r].left \ {o})
  BY <1>2, <1>3, <1>4, <1>5, CancelChanges
<1>7. QED
  BY <1>1, <1>2, <1>6 DEF next

LEMMA PostDoes ==
    ASSUME Types, NEW r \in Request, NEW taker \in Order,
           NEW listing \in Listings(~Terms[taker].isBuy), Post(r, taker, listing)
    PROVE  /\ request[r] = Unsent
           /\ request' \in [Request -> Remembered] /\ request'[r] \in PostState
           /\ \A q \in Request \ {r} : request'[q] = request[q]
           /\ request'[r].stage
                = IF DOMAIN request'[r].trades = {} THEN "adding" ELSE "sent"
           /\ request'[r].order = taker
           /\ request'[r].left = DOMAIN request'[r].trades
           /\ DOMAIN request'[r].rows = DOMAIN request'[r].trades
           /\ \A o \in DOMAIN request'[r].trades :
                /\ o \in DOMAIN book /\ Terms[o].isBuy # Terms[taker].isBuy
                /\ request'[r].rows[o] = book[o] + request'[r].trades[o]
           /\ pool' = IF DOMAIN request'[r].trades = {} THEN pool ELSE pool \cup {r}
<1> DEFINE trades == Matching(taker, listing)
           rows == [o \in DOMAIN trades |-> book[o] + trades[o]]
           x == [stage |-> AfterMatching(trades), order |-> taker, trades |-> trades,
                 rows |-> rows, left |-> DOMAIN trades]
<1>1. book \in Amounts
  BY DEF Types
<1>2. /\ trades \in Amounts
      /\ \A o \in DOMAIN trades : o \in DOMAIN book /\ Terms[o].isBuy # Terms[taker].isBuy
  BY <1>1, MatchingType
<1>3. /\ request[r] = Unsent /\ request' = [request EXCEPT ![r] = x]
      /\ pool' = IF DOMAIN trades = {} THEN pool ELSE pool \cup {r}
  BY DEF Post
<1> HIDE DEF trades
<1>4. DOMAIN trades \in SUBSET Order /\ \A o \in DOMAIN trades : trades[o] \in Nat
  BY <1>2, AmountsType
<1>5. rows \in [DOMAIN trades -> Nat]
  BY <1>1, <1>2, <1>4, AmountsType
<1>6. rows \in Amounts
  BY <1>4, <1>5, IsAmounts
<1>7. DOMAIN rows = DOMAIN trades
      /\ \A o \in DOMAIN trades : rows[o] = book[o] + trades[o]
  OBVIOUS
<1> HIDE DEF rows
<1>8. AfterMatching(trades) = IF DOMAIN trades = {} THEN "adding" ELSE "sent"
  BY DEF AfterMatching
<1>9. /\ x \in PostState /\ x.stage = AfterMatching(trades) /\ x.order = taker
      /\ x.trades = trades /\ x.rows = rows /\ x.left = DOMAIN trades
  BY <1>2, <1>4, <1>6, <1>8 DEF PostState, PostStages
<1> HIDE DEF x
<1>10. /\ request' \in [Request -> Remembered] /\ request'[r] = x
       /\ \A q \in Request \ {r} : request'[q] = request[q]
  BY <1>3, <1>9 DEF Types, Remembered
<1>11. QED
  BY <1>2, <1>3, <1>7, <1>8, <1>9, <1>10

LEMMA CancelDoes ==
    ASSUME Types, NEW r \in Request, NEW orders \in Cancelable, Cancel(r, orders)
    PROVE  /\ request[r] = Unsent
           /\ request' \in [Request -> Remembered] /\ request'[r] \in CancelState
           /\ \A q \in Request \ {r} : request'[q] = request[q]
           /\ request'[r].stage = "finding"
           /\ request'[r].cancels = orders /\ request'[r].left = orders
<1> DEFINE x == [stage |-> "finding", cancels |-> orders, left |-> orders]
<1>1. request[r] = Unsent /\ request' = [request EXCEPT ![r] = x]
  BY DEF Cancel
<1>2. /\ x \in CancelState /\ x.stage = "finding" /\ x.cancels = orders
      /\ x.left = orders
  BY DEF CancelState, CancelStages
<1> HIDE DEF x
<1>3. QED
  BY <1>1, <1>2 DEF Types, Remembered

LEMMA CrashDoes ==
    ASSUME Types, Crash
    PROVE  /\ request' \in [Request -> Remembered]
           /\ \A r \in Request \ InFlight : request'[r] = request[r]
           /\ \A r \in InFlight :
                /\ request'[r].stage = "lost"
                /\ r \in Posts =>
                     /\ request'[r] \in PostState
                     /\ request'[r].order = request[r].order
                     /\ request'[r].trades = request[r].trades
                     /\ request'[r].rows = request[r].rows
                     /\ request'[r].left = request[r].left
                /\ r \notin Posts =>
                     /\ request'[r] \in CancelState
                     /\ request'[r].cancels = request[r].cancels
<1>1. /\ DOMAIN request' = Request
      /\ \A r \in Request \ InFlight : request'[r] = request[r]
      /\ \A r \in InFlight : request'[r] = [request[r] EXCEPT !.stage = "lost"]
  BY DEF Crash, InFlight
<1>2. ASSUME NEW r \in InFlight
      PROVE  /\ request'[r].stage = "lost"
             /\ r \in Posts =>
                  /\ request'[r] \in PostState
                  /\ request'[r].order = request[r].order
                  /\ request'[r].trades = request[r].trades
                  /\ request'[r].rows = request[r].rows
                  /\ request'[r].left = request[r].left
             /\ r \notin Posts =>
                  /\ request'[r] \in CancelState
                  /\ request'[r].cancels = request[r].cancels
  <2>1. request'[r] = [request[r] EXCEPT !.stage = "lost"] /\ r \in Request
    BY <1>1 DEF InFlight
  <2>2. CASE r \in Posts
    <3>1. request[r] \in PostState
      BY <2>2 DEF Posts
    <3>2. QED
      BY <2>1, <2>2, <3>1 DEF PostState
  <2>3. CASE r \notin Posts
    <3>1. request[r] \in CancelState
      BY <2>1, <2>3, StageTells DEF InFlight, Busy
    <3>2. QED
      BY <2>1, <2>3, <3>1 DEF CancelState
  <2>4. QED
    BY <2>2, <2>3
<1>3. \A r \in Request : request'[r] \in Remembered
  BY <1>1, <1>2 DEF Types, Remembered
<1>4. request' = [r \in Request |-> request'[r]]
  BY DEF Crash
<1>5. request' \in [Request -> Remembered]
  BY <1>3, <1>4
<1>6. QED
  BY <1>1, <1>2, <1>5

-----------------------------------------------------------------------------
(* The types.                                                              *)

\* A transaction in the pool is one of a post that waits for it, or waited when
\* the server crashed.
LEMMA PoolOfPosts ==
    ASSUME Types
    PROVE  \A r \in pool : r \in Posts /\ request[r].stage \in {"sent", "lost"}
BY DEF Types, Posts

LEMMA TradedByType ==
    ASSUME Types, NEW r \in Posts, NEW o \in Order
    PROVE  TradedBy(r, o) \in Nat
BY PostFields, AmountsType, SumOfType DEF TradedBy

LEMMA RequestsTyped ==
    ASSUME Types, request' \in [Request -> Remembered],
           \A q \in pool' : /\ q \in Request /\ request'[q] \in PostState
                            /\ request'[q].stage \in {"sent", "lost"},
           book' \in Amounts, told' \in Amounts, history' \in [Order -> Nat],
           filled' \in [Order -> Nat], serial' \in BOOLEAN
    PROVE  Types'
BY DEF Types, Remembered

LEMMA TypesAfterPostStep ==
    ASSUME Types, NEW r \in Posts, NEW stage, NEW left, PostGoesOn(r, stage, left),
           pool' \subseteq pool, r \notin pool' \/ stage = "lost",
           book' \in Amounts, told' \in Amounts, history' \in [Order -> Nat],
           filled' \in [Order -> Nat], serial' = serial
    PROVE  Types'
<1>1. \A q \in pool' : /\ q \in Request /\ request'[q] \in PostState
                       /\ request'[q].stage \in {"sent", "lost"}
  <2>1. SUFFICES ASSUME NEW q \in pool'
                 PROVE  /\ q \in Request /\ request'[q] \in PostState
                        /\ request'[q].stage \in {"sent", "lost"}
    OBVIOUS
  <2>2. CASE q = r
    BY <2>2, PostFields DEF PostGoesOn
  <2>3. CASE q # r
    BY <2>3 DEF PostGoesOn, Types
  <2>4. QED
    BY <2>2, <2>3
<1>2. serial' \in BOOLEAN
  BY DEF Types
<1>3. request' \in [Request -> Remembered]
  BY DEF PostGoesOn
<1>4. QED
  BY <1>1, <1>2, <1>3, RequestsTyped

LEMMA TypesAfterCancelStep ==
    ASSUME Types, NEW r \in Request, NEW stage, NEW left, CancelGoesOn(r, stage, left),
           pool' = pool, book' \in Amounts, told' \in Amounts, history' = history,
           filled' = filled, serial' = serial
    PROVE  Types'
<1>1. \A q \in pool' : /\ q \in Request /\ request'[q] \in PostState
                       /\ request'[q].stage \in {"sent", "lost"}
  <2>1. SUFFICES ASSUME NEW q \in pool'
                 PROVE  /\ q \in Request /\ request'[q] \in PostState
                        /\ request'[q].stage \in {"sent", "lost"}
    OBVIOUS
  <2>2. q # r
    BY KindsDiffer DEF CancelGoesOn, Types
  <2>3. QED
    BY <2>2 DEF CancelGoesOn, Types
<1>2. /\ serial' \in BOOLEAN /\ request' \in [Request -> Remembered]
      /\ history' \in [Order -> Nat] /\ filled' \in [Order -> Nat]
  BY DEF CancelGoesOn, Types
<1>3. QED
  BY <1>1, <1>2, RequestsTyped

LEMMA MineFills ==
    ASSUME Types, NEW r \in Request, Mine(r)
    PROVE  /\ r \in Posts /\ filled' \in [Order -> Nat]
           /\ \A o \in Order : /\ filled'[o] = filled[o] + TradedBy(r, o)
                               /\ TradedBy(r, o) \in Nat
                               /\ filled'[o] >= filled[o]
<1>1. r \in Posts
  BY PoolOfPosts DEF Mine
<1>2. \A o \in Order : TradedBy(r, o) \in Nat
  BY <1>1, TradedByType
<1>3. filled' = [o \in Order |-> filled[o] + TradedBy(r, o)]
  BY DEF Mine, FilledBy
<1>4. filled \in [Order -> Nat]
  BY DEF Types
<1>5. QED
  BY <1>1, <1>2, <1>3, <1>4

LEMMA RowsType ==
    ASSUME Types, NEW r \in Posts, NEW o \in DOMAIN request[r].rows
    PROVE  o \in Order /\ request[r].rows[o] \in Nat
BY PostFields, AmountsType

LEMMA InitTypes == Init => Types
<1> SUFFICES ASSUME Init PROVE Types
  OBVIOUS
<1> DEFINE none == [o \in {} |-> 0]
<1>1. none \in [{} -> Nat] /\ {} \in SUBSET Order
  OBVIOUS
<1> HIDE DEF none
<1>2. none \in Amounts
  BY <1>1, IsAmounts
<1>3. book \in Amounts /\ told \in Amounts
  BY <1>2 DEF Init, none
<1>4. QED
  BY <1>3 DEF Init, Types

LEMMA NextTypes == Types /\ PostInv /\ [Next]_vars => Types'
<1> SUFFICES ASSUME Types, PostInv, [Next]_vars PROVE Types'
  OBVIOUS
<1> USE DEF Types
<1>1. ASSUME NEW r \in Request, NEW taker \in Order,
             NEW listing \in Listings(~Terms[taker].isBuy), Post(r, taker, listing)
      PROVE  Types'
  <2>1. \A q \in pool' : /\ q \in Request /\ request'[q] \in PostState
                         /\ request'[q].stage \in {"sent", "lost"}
    <3>1. r \notin pool
      BY <1>1, PostDoes, KindsDiffer
    <3>2. SUFFICES ASSUME NEW q \in pool'
                   PROVE  /\ q \in Request /\ request'[q] \in PostState
                          /\ request'[q].stage \in {"sent", "lost"}
      OBVIOUS
    <3>3. CASE q \in pool
      BY <1>1, <3>1, <3>3, PostDoes
    <3>4. CASE q \notin pool
      <4>1. q = r /\ DOMAIN request'[r].trades # {}
        BY <1>1, <3>4, PostDoes
      <4>2. QED
        BY <1>1, <4>1, PostDoes
    <3>5. QED
      BY <3>3, <3>4
  <2>2. serial' \in BOOLEAN
    BY <1>1 DEF Post
  <2>3. request' \in [Request -> Remembered]
    BY <1>1, PostDoes
  <2>4. UNCHANGED <<book, history, told, filled>>
    BY <1>1 DEF Post
  <2>5. QED
    BY <2>1, <2>2, <2>3, <2>4, RequestsTyped
<1>2. ASSUME NEW r \in Request, NEW orders \in Cancelable, Cancel(r, orders)
      PROVE  Types'
  <2>1. \A q \in pool' : /\ q \in Request /\ request'[q] \in PostState
                         /\ request'[q].stage \in {"sent", "lost"}
    <3>1. r \notin pool
      BY <1>2, CancelDoes, KindsDiffer
    <3>2. pool' = pool
      BY <1>2 DEF Cancel
    <3>3. QED
      BY <1>2, <3>1, <3>2, CancelDoes
  <2>2. serial' \in BOOLEAN
    BY <1>2 DEF Cancel
  <2>3. request' \in [Request -> Remembered]
    BY <1>2, CancelDoes
  <2>4. UNCHANGED <<book, history, told, filled>>
    BY <1>2 DEF Cancel
  <2>5. QED
    BY <2>1, <2>2, <2>3, <2>4, RequestsTyped
<1>3. ASSUME NEW r \in Request, Mine(r)
      PROVE  Types'
  <2>1. UNCHANGED <<book, history, told, serial>> /\ pool' = pool \ {r} /\ r \in pool
        /\ Answer(r, "saving")
    BY <1>3 DEF Mine
  <2>2. filled' \in [Order -> Nat]
    BY <1>3, MineFills
  <2>3. QED
    BY <2>1, <2>2, AnswerDoes, TypesAfterPostStep
<1>4. ASSUME NEW r \in Request, Reject(r)
      PROVE  Types'
  <2>1. UNCHANGED <<book, history, told, filled, serial>> /\ pool' = pool \ {r}
        /\ r \in pool /\ Answer(r, "failed")
    BY <1>4 DEF Reject
  <2>2. QED
    BY <2>1, AnswerDoes, TypesAfterPostStep
<1>5. ASSUME NEW r \in Request, NEW o \in Order, SaveRow(r, o)
      PROVE  Types'
  <2>1. UNCHANGED <<history, told, pool, filled, serial>>
        /\ book' = Put(o, NewRow(r, o), book)
    BY <1>5 DEF SaveRow
  <2>2. /\ r \in Posts /\ request[r].stage = "saving"
        /\ PostGoesOn(r, "saving", request[r].left \ {o})
    BY <1>5, SaveRowDoes
  <2>3. NewRow(r, o) \in Nat
    <3>1. o \in DOMAIN request[r].rows
      BY <1>5, <2>2, SaveRowDoes DEF PostInv, PostOK
    <3>2. QED
      BY <2>2, <3>1, RowsType DEF NewRow
  <2>4. QED
    BY <2>1, <2>2, <2>3, Writing, PoolOfPosts, TypesAfterPostStep
<1>6. ASSUME NEW r \in Request, Saved(r)
      PROVE  Types'
  <2>1. UNCHANGED <<book, history, pool, filled, serial>>
        /\ told' = Override(EmittedOrders(r), told)
    BY <1>6 DEF Saved
  <2>2. /\ r \in Posts /\ request[r].stage = "saving"
        /\ PostGoesOn(r, "recording", DOMAIN request[r].trades \cup {request[r].order})
    BY <1>6, SavedDoes
  <2>3. told' \in Amounts
    BY <2>1, <2>2, PostFields, Overriding DEF EmittedOrders
  <2>4. QED
    BY <2>1, <2>2, <2>3, PoolOfPosts, TypesAfterPostStep
<1>7. ASSUME NEW r \in Request, NEW o \in Order, RecordTrade(r, o)
      PROVE  Types'
  <2>1. UNCHANGED <<book, told, pool, filled, serial>>
        /\ history' = [history EXCEPT ![o] = @ + HistoryAmount(r, o)]
    BY <1>7 DEF RecordTrade
  <2>2. /\ r \in Posts /\ request[r].stage = "recording"
        /\ PostGoesOn(r, "recording", request[r].left \ {o})
    BY <1>7, RecordTradeDoes
  <2>3. history' \in [Order -> Nat]
    BY <2>1, <2>2, TradedByType DEF HistoryAmount
  <2>4. QED
    BY <2>1, <2>2, <2>3, PoolOfPosts, TypesAfterPostStep
<1>8. ASSUME NEW r \in Request, Recorded(r)
      PROVE  Types'
  <2>1. UNCHANGED <<book, told, history, pool, filled, serial>>
    BY <1>8 DEF Recorded
  <2>2. QED
    BY <1>8, <2>1, RecordedDoes, PoolOfPosts, TypesAfterPostStep
<1>9. ASSUME NEW r \in Request, AddOrder(r)
      PROVE  Types'
  <2>1. UNCHANGED <<history, told, pool, filled, serial>>
        /\ book' = Put(request[r].order, SumOf(request[r].trades), book)
    BY <1>9 DEF AddOrder
  <2>2. /\ r \in Posts /\ request[r].stage = "adding"
        /\ PostGoesOn(r, "telling", request[r].left)
    BY <1>9, AddOrderDoes
  <2>3. book' \in Amounts
    BY <2>1, <2>2, PostFields, SumOfType, Writing
  <2>4. QED
    BY <2>1, <2>2, <2>3, PoolOfPosts, TypesAfterPostStep
<1>10. ASSUME NEW r \in Request, TellOrder(r)
       PROVE  Types'
  <2>1. UNCHANGED <<book, history, pool, filled, serial>>
        /\ \/ told' = Put(request[r].order, SumOf(request[r].trades), told)
           \/ told' = told
    BY <1>10 DEF TellOrder
  <2>2. /\ r \in Posts /\ request[r].stage = "telling"
        /\ PostGoesOn(r, "done", request[r].left)
    BY <1>10, TellOrderDoes
  <2>3. told' \in Amounts
    <3>1. request[r].order \in Order /\ SumOf(request[r].trades) \in Nat
      BY <2>2, PostFields, SumOfType
    <3>2. Put(request[r].order, SumOf(request[r].trades), told) \in Amounts
      BY <3>1, Writing
    <3>3. QED
      BY <2>1, <3>2
  <2>4. QED
    BY <2>1, <2>2, <2>3, PoolOfPosts, TypesAfterPostStep
<1>11. ASSUME NEW r \in Request, DeleteRows(r)
       PROVE  Types'
  <2>1. UNCHANGED <<history, told, pool, filled, serial>>
        /\ book' = [o \in DOMAIN book \ request[r].cancels |-> book[o]]
    BY <1>11 DEF DeleteRows, Without
  <2>2. /\ DOMAIN book \ request[r].cancels \in SUBSET Order
        /\ book' \in [DOMAIN book \ request[r].cancels -> Nat]
    BY <2>1, AmountsType
  <2>3. book' \in Amounts
    BY <2>2, IsAmounts
  <2>4. QED
    BY <1>11, <2>1, <2>3, DeleteRowsDoes, TypesAfterCancelStep
<1>12. ASSUME NEW r \in Request, TellCanceled(r)
       PROVE  Types'
  <2>1. UNCHANGED <<book, history, pool, filled, serial>>
        /\ told' = Override(CanceledOrders(r), told)
    BY <1>12 DEF TellCanceled
  <2>2. request[r].cancels \in SUBSET Order
    BY <1>12, TellCanceledDoes DEF CancelState
  <2>3. CanceledOrders(r) \in [request[r].cancels -> Nat]
    BY <2>2 DEF CanceledOrders
  <2>4. told' \in Amounts
    BY <2>1, <2>2, <2>3, IsAmounts, Overriding
  <2>5. QED
    BY <1>12, <2>1, <2>4, TellCanceledDoes, TypesAfterCancelStep
<1>13. ASSUME NEW r \in Request, NEW o \in Order, FindRow(r, o)
       PROVE  Types'
  <2>1. UNCHANGED <<book, history, told, pool, filled, serial>>
    BY <1>13 DEF FindRow
  <2>2. QED
    BY <1>13, <2>1, FindRowDoes, TypesAfterCancelStep
<1>14. ASSUME Crash
       PROVE  Types'
  <2>1. UNCHANGED <<book, history, told, pool, filled>> /\ serial' = FALSE
    BY <1>14 DEF Crash
  <2>2. \A q \in pool' : /\ q \in Request /\ request'[q] \in PostState
                         /\ request'[q].stage \in {"sent", "lost"}
    BY <1>14, <2>1, CrashDoes, PoolOfPosts DEF Posts
  <2>3. request' \in [Request -> Remembered]
    BY <1>14, CrashDoes
  <2>4. QED
    BY <2>1, <2>2, <2>3, RequestsTyped
<1>15. CASE Tick
  BY <1>15 DEF Tick, PostState, Posts
<1>16. CASE UNCHANGED vars
  BY <1>16 DEF vars
<1>17. QED
  BY <1>1, <1>2, <1>3, <1>4, <1>5, <1>6, <1>7, <1>8, <1>9, <1>10, <1>11, <1>12, <1>13,
     <1>14, <1>15, <1>16 DEF Next

-----------------------------------------------------------------------------
(* Nothing is ahead of the chain: rows and events.                         *)

\* The rows and the events are behind the chain.
Behind ==
    /\ \A o \in DOMAIN book : book[o] <= filled[o]
    /\ \A o \in DOMAIN told : told[o] < Terms[o].amount => told[o] <= filled[o]

LEMMA PostNumbers ==
    ASSUME Types, NEW r \in Posts
    PROVE  /\ SumOf(request[r].trades) \in Nat
           /\ \A o \in DOMAIN request[r].trades : o \in Order /\ request[r].trades[o] \in Nat
           /\ \A o \in DOMAIN request[r].rows : o \in Order /\ request[r].rows[o] \in Nat
           /\ request[r].order \in Order
<1>1. request[r].trades \in Amounts /\ request[r].rows \in Amounts /\ request[r].order \in Order
  BY PostFields
<1>2. QED
  BY <1>1, SumOfType, AmountsType

\* Fills only grow, so the handlers that do nothing stay behind the chain.
LEMMA PostInvKept ==
    ASSUME Types, PostInv, filled' \in [Order -> Nat],
           \A o \in Order : filled'[o] >= filled[o], NEW r \in Request,
           \A q \in Request \ {r} : request'[q] = request[q],
           r \in Posts' => PostOK(request[r])'
    PROVE  PostInv'
<1>1. SUFFICES ASSUME NEW q \in Request, request'[q] \in PostState, q # r
               PROVE  PostOK(request[q])'
  BY DEF PostInv, Posts
<1>2. q \in Posts /\ request'[q] = request[q]
  BY <1>1 DEF Posts
<1>3. PostOK(request[q])
  BY <1>2 DEF PostInv
<1>4. filled \in [Order -> Nat]
  BY DEF Types
<1> DEFINE x == request[q]
<1>5. /\ SumOf(x.trades) \in Nat /\ x.order \in Order
      /\ \A o \in DOMAIN x.trades : o \in Order /\ x.trades[o] \in Nat
      /\ \A o \in DOMAIN x.rows : o \in Order /\ x.rows[o] \in Nat
  BY <1>2, PostNumbers
<1>6. PostOK(x)
  BY <1>3
<1>7. PostOK(request[q])' <=>
        /\ DOMAIN x.rows = DOMAIN x.trades
        /\ \A o \in DOMAIN x.trades :
             /\ Terms[o].isBuy # Terms[x.order].isBuy
             /\ x.rows[o] <= filled'[o] + x.trades[o]
             /\ x.stage \in Mined => x.rows[o] <= filled'[o]
        /\ x.stage \in Mined => SumOf(x.trades) <= filled'[x.order]
        /\ x.stage = "sent" => x.left = DOMAIN x.trades
        /\ x.stage = "saving" => x.left \subseteq DOMAIN x.trades
  BY <1>2 DEF PostOK
<1> HIDE DEF x
<1>8. QED
  BY <1>4, <1>5, <1>6, <1>7 DEF PostOK

LEMMA PostInvAfterStep ==
    ASSUME Types, PostInv, filled' = filled, NEW r \in Posts, NEW stage, NEW left,
           PostGoesOn(r, stage, left), stage # "sent", stage \in Mined => request[r].stage \in Mined,
           stage = "saving" => request[r].stage = "saving" /\ left \subseteq request[r].left
    PROVE  PostInv'
<1>1. PostOK(request[r])
  BY DEF PostInv
<1>2. PostOK(request[r])'
  BY <1>1 DEF PostOK, PostGoesOn
<1>3. filled' \in [Order -> Nat] /\ \A o \in Order : filled'[o] >= filled[o]
  BY DEF Types
<1>4. r \in Request /\ \A q \in Request \ {r} : request'[q] = request[q]
  BY DEF Posts, PostGoesOn
<1>5. QED
  BY <1>2, <1>3, <1>4, PostInvKept

LEMMA PostInvAfterCancelStep ==
    ASSUME Types, PostInv, filled' = filled, NEW r \in Request, NEW stage, NEW left,
           CancelGoesOn(r, stage, left)
    PROVE  PostInv'
<1>1. r \notin Posts'
  BY KindsDiffer DEF Posts, CancelGoesOn
<1>2. filled' \in [Order -> Nat] /\ \A o \in Order : filled'[o] >= filled[o]
  BY DEF Types
<1>3. QED
  BY <1>1, <1>2, PostInvKept DEF CancelGoesOn

LEMMA SumOfNone ==
    ASSUME NEW f \in Amounts, DOMAIN f = {}
    PROVE  SumOf(f) = 0
BY SumOfNothing DEF SumOf

\* The taker's order is on the other side of all orders it trades with.
LEMMA TakersPart ==
    ASSUME Types, PostInv, NEW r \in Posts
    PROVE  /\ request[r].order \notin DOMAIN request[r].trades
           /\ TradedBy(r, request[r].order) = SumOf(request[r].trades)
           /\ \A o \in DOMAIN request[r].trades : TradedBy(r, o) = request[r].trades[o]
BY DEF PostInv, PostOK, TradedBy

LEMMA NextPostInv == Types /\ PostInv /\ Behind /\ [Next]_vars => PostInv'
<1> SUFFICES ASSUME Types, PostInv, Behind, [Next]_vars PROVE PostInv'
  OBVIOUS
<1>1. ASSUME NEW r \in Request, NEW taker \in Order,
             NEW listing \in Listings(~Terms[taker].isBuy), Post(r, taker, listing)
      PROVE  PostInv'
  <2>1. filled' = filled /\ filled \in [Order -> Nat]
    BY <1>1 DEF Post, Types
  <2>2. /\ request'[r].order \in Order /\ request'[r].trades \in Amounts
        /\ request'[r].rows \in Amounts
    BY <1>1, PostDoes DEF PostState
  <2>3. /\ request'[r].stage = IF DOMAIN request'[r].trades = {} THEN "adding" ELSE "sent"
        /\ request'[r].order = taker
        /\ DOMAIN request'[r].rows = DOMAIN request'[r].trades
        /\ \A o \in DOMAIN request'[r].trades :
             /\ o \in DOMAIN book /\ Terms[o].isBuy # Terms[taker].isBuy
             /\ request'[r].rows[o] = book[o] + request'[r].trades[o]
        /\ request'[r].left = DOMAIN request'[r].trades
    BY <1>1, PostDoes
  <2>4. DOMAIN request'[r].trades = {} => SumOf(request'[r].trades) = 0
    BY <2>2, SumOfNone
  <2>5. \A o \in DOMAIN request'[r].trades :
          o \in Order /\ request'[r].trades[o] \in Nat
    BY <2>2, AmountsType
  <2>6. \A o \in DOMAIN book : book[o] <= filled[o] /\ book[o] \in Nat
    BY AmountsType DEF Behind, Types
  <2>7. PostOK(request[r])'
    <3> DEFINE x == request'[r]
    <3>1. PostOK(request[r])' <=>
            /\ DOMAIN x.rows = DOMAIN x.trades
            /\ \A o \in DOMAIN x.trades :
                 /\ Terms[o].isBuy # Terms[x.order].isBuy
                 /\ x.rows[o] <= filled[o] + x.trades[o]
                 /\ x.stage \in Mined => x.rows[o] <= filled[o]
            /\ x.stage \in Mined => SumOf(x.trades) <= filled[x.order]
            /\ x.stage = "sent" => x.left = DOMAIN x.trades
            /\ x.stage = "saving" => x.left \subseteq DOMAIN x.trades
      BY <2>1 DEF PostOK
    <3>2. (x.stage = "adding" /\ DOMAIN x.trades = {}) \/ x.stage = "sent"
      BY <2>3
    <3> HIDE DEF x
    <3>3. QED
      BY <2>1, <2>2, <2>3, <2>4, <2>5, <2>6, <3>1, <3>2 DEF Mined, x
  <2>8. QED
    BY <1>1, <2>1, <2>7, PostDoes, PostInvKept
<1>2. ASSUME NEW r \in Request, NEW orders \in Cancelable, Cancel(r, orders)
      PROVE  PostInv'
  <2>1. r \notin Posts'
    BY <1>2, CancelDoes, KindsDiffer DEF Posts
  <2>2. filled' = filled /\ filled \in [Order -> Nat]
    BY <1>2 DEF Cancel, Types
  <2>3. QED
    BY <1>2, <2>1, <2>2, CancelDoes, PostInvKept
<1>3. ASSUME NEW r \in Request, Mine(r)
      PROVE  PostInv'
  <2>1. /\ r \in Posts /\ filled' \in [Order -> Nat]
        /\ \A o \in Order : /\ filled'[o] = filled[o] + TradedBy(r, o)
                            /\ TradedBy(r, o) \in Nat
                            /\ filled'[o] >= filled[o]
    BY <1>3, MineFills
  <2>2. \/ PostGoesOn(r, "saving", request[r].left)
        \/ PostGoesOn(r, "lost", request[r].left)
    BY <1>3, AnswerDoes DEF Mine
  <2>3. PostOK(request[r]) /\ filled \in [Order -> Nat]
    BY <2>1 DEF PostInv, Types
  <2>4. PostOK(request[r])'
    <3> DEFINE x == request[r]
    <3>1. /\ x.order \in Order /\ SumOf(x.trades) \in Nat
          /\ \A o \in DOMAIN x.trades : o \in Order /\ x.trades[o] \in Nat
          /\ \A o \in DOMAIN x.rows : o \in Order /\ x.rows[o] \in Nat
          /\ TradedBy(r, x.order) = SumOf(x.trades)
          /\ \A o \in DOMAIN x.trades : TradedBy(r, o) = x.trades[o]
      BY <2>1, PostNumbers, TakersPart
    <3>2. /\ DOMAIN x.rows = DOMAIN x.trades
          /\ \A o \in DOMAIN x.trades :
               /\ Terms[o].isBuy # Terms[x.order].isBuy
               /\ x.rows[o] <= filled[o] + x.trades[o]
      BY <2>3 DEF PostOK
    <3>3. \/ PostGoesOn(r, "saving", x.left) /\ x.left = DOMAIN x.trades
          \/ PostGoesOn(r, "lost", x.left)
      BY <1>3, <2>3, AnswerDoes DEF Mine, PostOK
    <3>4. PostOK(request[r])' <=>
            /\ DOMAIN x.rows = DOMAIN x.trades
            /\ \A o \in DOMAIN x.trades :
                 /\ Terms[o].isBuy # Terms[x.order].isBuy
                 /\ x.rows[o] <= filled'[o] + x.trades[o]
                 /\ request'[r].stage \in Mined => x.rows[o] <= filled'[o]
            /\ request'[r].stage \in Mined => SumOf(x.trades) <= filled'[x.order]
            /\ request'[r].stage = "sent" => x.left = DOMAIN x.trades
            /\ request'[r].stage = "saving" => x.left \subseteq DOMAIN x.trades
      BY <2>2 DEF PostOK, PostGoesOn
    <3>5. \/ request'[r].stage = "saving" /\ x.left = DOMAIN x.trades
          \/ request'[r].stage = "lost"
      BY <3>3 DEF PostGoesOn
    <3> HIDE DEF x
    <3>6. QED
      BY <2>1, <2>3, <3>1, <3>2, <3>4, <3>5 DEF Mined
  <2>5. QED
    BY <2>1, <2>2, <2>4, PostInvKept DEF PostGoesOn, Posts
<1>4. ASSUME NEW r \in Request, Reject(r)
      PROVE  PostInv'
  <2>1. \/ PostGoesOn(r, "failed", request[r].left)
        \/ PostGoesOn(r, "lost", request[r].left)
    BY <1>4, AnswerDoes DEF Reject
  <2>2. filled' = filled /\ r \in Posts
    BY <1>4, PoolOfPosts DEF Reject
  <2>3. QED
    BY <2>1, <2>2, PostInvAfterStep DEF Mined
<1>5. ASSUME NEW r \in Request, NEW o \in Order, SaveRow(r, o)
      PROVE  PostInv'
  <2>1. /\ r \in Posts /\ request[r].stage \in Mined
        /\ PostGoesOn(r, "saving", request[r].left \ {o})
    BY <1>5, SaveRowDoes DEF Mined
  <2>2. filled' = filled
    BY <1>5 DEF SaveRow
  <2>3. QED
    BY <1>5, <2>1, <2>2, SaveRowDoes, PostInvAfterStep DEF Mined
<1>6. ASSUME NEW r \in Request, Saved(r)
      PROVE  PostInv'
  <2>1. /\ r \in Posts /\ request[r].stage \in Mined
        /\ PostGoesOn(r, "recording", DOMAIN request[r].trades \cup {request[r].order})
    BY <1>6, SavedDoes DEF Mined
  <2>2. filled' = filled
    BY <1>6 DEF Saved
  <2>3. QED
    BY <1>6, <2>1, <2>2, SavedDoes, PostInvAfterStep DEF Mined
<1>7. ASSUME NEW r \in Request, NEW o \in Order, RecordTrade(r, o)
      PROVE  PostInv'
  <2>1. /\ r \in Posts /\ request[r].stage \in Mined
        /\ PostGoesOn(r, "recording", request[r].left \ {o})
    BY <1>7, RecordTradeDoes DEF Mined
  <2>2. filled' = filled
    BY <1>7 DEF RecordTrade
  <2>3. QED
    BY <1>7, <2>1, <2>2, RecordTradeDoes, PostInvAfterStep DEF Mined
<1>8. ASSUME NEW r \in Request, Recorded(r)
      PROVE  PostInv'
  <2>1. /\ r \in Posts /\ request[r].stage \in Mined
        /\ PostGoesOn(r, "adding", request[r].left)
    BY <1>8, RecordedDoes DEF Mined
  <2>2. filled' = filled
    BY <1>8 DEF Recorded
  <2>3. QED
    BY <1>8, <2>1, <2>2, RecordedDoes, PostInvAfterStep DEF Mined
<1>9. ASSUME NEW r \in Request, AddOrder(r)
      PROVE  PostInv'
  <2>1. /\ r \in Posts /\ request[r].stage \in Mined
        /\ PostGoesOn(r, "telling", request[r].left)
    BY <1>9, AddOrderDoes DEF Mined
  <2>2. filled' = filled
    BY <1>9 DEF AddOrder
  <2>3. QED
    BY <1>9, <2>1, <2>2, AddOrderDoes, PostInvAfterStep DEF Mined
<1>10. ASSUME NEW r \in Request, TellOrder(r)
      PROVE  PostInv'
  <2>1. /\ r \in Posts /\ request[r].stage \in Mined
        /\ PostGoesOn(r, "done", request[r].left)
    BY <1>10, TellOrderDoes DEF Mined
  <2>2. filled' = filled
    BY <1>10 DEF TellOrder
  <2>3. QED
    BY <1>10, <2>1, <2>2, TellOrderDoes, PostInvAfterStep DEF Mined
<1>11. ASSUME NEW r \in Request, DeleteRows(r)
       PROVE  PostInv'
  BY <1>11, DeleteRowsDoes, PostInvAfterCancelStep DEF DeleteRows
<1>12. ASSUME NEW r \in Request, TellCanceled(r)
       PROVE  PostInv'
  BY <1>12, TellCanceledDoes, PostInvAfterCancelStep DEF TellCanceled
<1>13. ASSUME NEW r \in Request, NEW o \in Order, FindRow(r, o)
       PROVE  PostInv'
  BY <1>13, FindRowDoes, PostInvAfterCancelStep DEF FindRow
<1>14. ASSUME Crash
       PROVE  PostInv'
  <2>1. filled' = filled
    BY <1>14 DEF Crash
  <2>2. SUFFICES ASSUME NEW q \in Posts'
                 PROVE  PostOK(request[q])'
    BY DEF PostInv
  <2>3. q \in Posts /\ PostOK(request[q])
    BY <1>14, CrashDoes, KindsDiffer DEF Posts, PostInv
  <2>4. CASE q \in InFlight
    BY <1>14, <2>1, <2>3, <2>4, CrashDoes DEF PostOK, Mined
  <2>5. CASE q \notin InFlight
    <3>1. request'[q] = request[q]
      BY <1>14, <2>3, <2>5, CrashDoes DEF Posts
    <3>2. QED
      BY <2>1, <2>3, <3>1 DEF PostOK
  <2>6. QED
    BY <2>4, <2>5
<1>15. CASE Tick
  BY <1>15 DEF Tick, PostInv, Posts, PostOK
<1>16. CASE UNCHANGED vars
  BY <1>16 DEF vars, PostInv, Posts, PostOK
<1>17. QED
  BY <1>1, <1>2, <1>3, <1>4, <1>5, <1>6, <1>7, <1>8, <1>9, <1>10, <1>11, <1>12, <1>13, <1>14, <1>15, <1>16 DEF Next

\* The rows a handler writes, and tells of, once its transaction is mined.
LEMMA MinedRows ==
    ASSUME Types, PostInv, NEW r \in Posts, request[r].stage \in Mined
    PROVE  /\ DOMAIN request[r].rows = DOMAIN request[r].trades
           /\ \A o \in DOMAIN request[r].rows :
                o \in Order /\ request[r].rows[o] \in Nat /\ request[r].rows[o] <= filled[o]
           /\ request[r].order \in Order /\ SumOf(request[r].trades) \in Nat
           /\ SumOf(request[r].trades) <= filled[request[r].order]
           /\ request[r].stage = "saving" => request[r].left \subseteq DOMAIN request[r].rows
BY PostNumbers DEF PostInv, PostOK

LEMMA NextBehind == Types /\ PostInv /\ Behind /\ [Next]_vars => Behind'
<1> SUFFICES ASSUME Types, PostInv, Behind, [Next]_vars PROVE Behind'
  OBVIOUS
<1>1. ASSUME NEW r \in Request, NEW o \in Order, SaveRow(r, o)
      PROVE  Behind'
  <2>1. UNCHANGED <<told, filled>> /\ book' = Put(o, request[r].rows[o], book)
    BY <1>1 DEF SaveRow, NewRow
  <2>2. r \in Posts /\ request[r].stage = "saving" /\ o \in request[r].left
    BY <1>1, SaveRowDoes
  <2>3. request[r].rows[o] \in Nat /\ request[r].rows[o] <= filled[o]
    BY <2>2, MinedRows DEF Mined
  <2>4. /\ DOMAIN book' = DOMAIN book \cup {o} /\ book'[o] = request[r].rows[o]
        /\ \A p \in DOMAIN book \ {o} : book'[p] = book[p]
    <3>1. o \in Order /\ request[r].rows[o] \in Nat /\ book \in Amounts
      BY <2>3 DEF Types
    <3>2. book' = Put(o, request[r].rows[o], book)
      BY <2>1
    <3>3. QED
      <4> DEFINE n == request[r].rows[o]
      <4>1. n \in Nat
        BY <3>1
      <4> HIDE DEF n
      <4>2. /\ DOMAIN Put(o, n, book) = DOMAIN book \cup {o} /\ Put(o, n, book)[o] = n
            /\ \A p \in DOMAIN book \ {o} : Put(o, n, book)[p] = book[p]
        <5>1. /\ DOMAIN Put(o, n, book) = DOMAIN book \cup {o}
              /\ Put(o, n, book)[o] = n
          BY ONLY <3>1, <4>1, Writing
        <5>2. \A p \in DOMAIN book \ {o} : Put(o, n, book)[p] = book[p]
          BY ONLY PutKeeps
        <5>3. QED
          BY ONLY <5>1, <5>2
      <4>3. QED
        BY ONLY <3>2, <4>2 DEF n
  <2>5. QED
    BY <2>1, <2>3, <2>4 DEF Behind
<1>2. ASSUME NEW r \in Request, Saved(r)
      PROVE  Behind'
  <2>1. UNCHANGED <<book, filled>> /\ told' = Override(request[r].rows, told)
    BY <1>2 DEF Saved, EmittedOrders
  <2>2. r \in Posts /\ request[r].stage = "saving"
    BY <1>2, SavedDoes
  <2>3. \A o \in DOMAIN request[r].rows : request[r].rows[o] <= filled[o]
    BY <2>2, MinedRows DEF Mined
  <2>4. request[r].rows \in Amounts /\ told \in Amounts
    BY <2>2, PostFields DEF Types
  <2>5. /\ DOMAIN told' = DOMAIN request[r].rows \cup DOMAIN told
        /\ \A p \in DOMAIN request[r].rows : told'[p] = request[r].rows[p]
        /\ \A p \in DOMAIN told \ DOMAIN request[r].rows : told'[p] = told[p]
    BY ONLY <2>1, <2>4, Overriding
  <2>6. QED
    BY <2>1, <2>3, <2>5 DEF Behind
<1>3. ASSUME NEW r \in Request, AddOrder(r)
      PROVE  Behind'
  <2> DEFINE o == request[r].order
             fill == SumOf(request[r].trades)
  <2>1. UNCHANGED <<told, filled>> /\ book' = Put(o, fill, book)
    BY <1>3 DEF AddOrder
  <2>2. o \in Order /\ fill \in Nat /\ fill <= filled[o]
    BY <1>3, AddOrderDoes, MinedRows DEF Mined
  <2> HIDE DEF o, fill
  <2>3. /\ DOMAIN book' = DOMAIN book \cup {o} /\ book'[o] = fill
        /\ \A p \in DOMAIN book \ {o} : book'[p] = book[p]
    <3>1. book \in Amounts /\ book' = Put(o, fill, book)
      BY <2>1 DEF Types
    <3>2. QED
      BY ONLY <2>2, <3>1, Writing
  <2>4. QED
    BY <2>1, <2>2, <2>3 DEF Behind
<1>4. ASSUME NEW r \in Request, TellOrder(r)
      PROVE  Behind'
  <2> DEFINE o == request[r].order
             fill == SumOf(request[r].trades)
  <2>1. UNCHANGED <<book, filled>> /\ (told' = Put(o, fill, told) \/ told' = told)
    BY <1>4 DEF TellOrder
  <2>2. o \in Order /\ fill \in Nat /\ fill <= filled[o]
    BY <1>4, TellOrderDoes, MinedRows DEF Mined
  <2> HIDE DEF o, fill
  <2>3. CASE told' = Put(o, fill, told)
    <3>1. /\ DOMAIN told' = DOMAIN told \cup {o} /\ told'[o] = fill
          /\ \A p \in DOMAIN told \ {o} : told'[p] = told[p]
      <4>1. told \in Amounts
        BY DEF Types
      <4>2. /\ DOMAIN Put(o, fill, told) = DOMAIN told \cup {o}
            /\ Put(o, fill, told)[o] = fill
            /\ \A p \in DOMAIN told \ {o} : Put(o, fill, told)[p] = told[p]
        <5>1. /\ DOMAIN Put(o, fill, told) = DOMAIN told \cup {o}
              /\ Put(o, fill, told)[o] = fill
          BY ONLY <2>2, <4>1, Writing
        <5>2. \A p \in DOMAIN told \ {o} : Put(o, fill, told)[p] = told[p]
          BY ONLY PutKeeps
        <5>3. QED
          BY ONLY <5>1, <5>2
      <4>3. QED
        BY ONLY <2>3, <4>2
    <3>2. QED
      BY <2>1, <2>2, <3>1 DEF Behind
  <2>4. CASE told' = told
    BY <2>1, <2>4 DEF Behind
  <2>5. QED
    BY <2>1, <2>3, <2>4
<1>5. ASSUME NEW r \in Request, DeleteRows(r)
      PROVE  Behind'
  BY <1>5 DEF DeleteRows, Without, Behind
<1>6. ASSUME NEW r \in Request, TellCanceled(r)
      PROVE  Behind'
  <2>1. UNCHANGED <<book, filled>> /\ told' = Override(CanceledOrders(r), told)
    BY <1>6 DEF TellCanceled
  <2>2. request[r].cancels \in SUBSET Order
    BY <1>6, TellCanceledDoes DEF CancelState
  <2>3. /\ DOMAIN CanceledOrders(r) = request[r].cancels
        /\ \A o \in request[r].cancels :
             CanceledOrders(r)[o] = Terms[o].amount
        /\ CanceledOrders(r) \in [request[r].cancels -> Nat]
    BY <2>2 DEF CanceledOrders
  <2>4. told \in Amounts /\ CanceledOrders(r) \in Amounts
    BY <2>2, <2>3, IsAmounts DEF Types
  <2>5. /\ DOMAIN told' = request[r].cancels \cup DOMAIN told
        /\ \A p \in request[r].cancels : told'[p] = Terms[p].amount
        /\ \A p \in DOMAIN told \ request[r].cancels : told'[p] = told[p]
    <3>1. /\ DOMAIN told' = DOMAIN CanceledOrders(r) \cup DOMAIN told
          /\ \A p \in DOMAIN CanceledOrders(r) : told'[p] = CanceledOrders(r)[p]
          /\ \A p \in DOMAIN told \ DOMAIN CanceledOrders(r) : told'[p] = told[p]
      BY ONLY <2>1, <2>4, Overriding
    <3>2. QED
      BY <2>3, <3>1
  <2>6. QED
    BY <2>1, <2>3, <2>5 DEF Behind
<1>7. ASSUME NEW r \in Request, Mine(r)
      PROVE  Behind'
  <2>1. UNCHANGED <<book, told>>
    BY <1>7 DEF Mine
  <2>2. \A o \in Order : filled[o] \in Nat /\ filled'[o] \in Nat /\ filled'[o] >= filled[o]
    BY <1>7, MineFills DEF Types
  <2>3. /\ \A o \in DOMAIN book : o \in Order /\ book[o] \in Nat
        /\ \A o \in DOMAIN told : o \in Order /\ told[o] \in Nat
    BY AmountsType DEF Types
  <2>4. QED
    BY <2>1, <2>2, <2>3 DEF Behind
<1>8. ASSUME UNCHANGED <<book, told, filled>>
      PROVE  Behind'
  BY <1>8 DEF Behind
<1>9. QED
  BY <1>1, <1>2, <1>3, <1>4, <1>5, <1>6, <1>7, <1>8
     DEF Next, vars, Post, Cancel, Reject, Recorded, RecordTrade, FindRow, Crash, Tick

-----------------------------------------------------------------------------
(* Nothing is ahead of the chain: the history.                             *)

LEMMA UnrecordedType ==
    ASSUME Types, NEW r \in Request, NEW o \in Order
    PROVE  Unrecorded(r, o) \in Nat
BY StageTells, TradedByType DEF Unrecorded, PostStages

LEMMA AllUnrecordedType ==
    ASSUME Types, NEW o \in Order
    PROVE  AllUnrecorded(o) \in Nat
<1> DEFINE f == [r \in Request |-> Unrecorded(r, o)]
<1>1. \A r \in Request : f[r] \in Nat
  BY UnrecordedType
<1> HIDE DEF f
<1>2. SumFunctionOnSet(f, Request) \in Nat
  BY <1>1, SumOfNats
<1>3. QED
  BY <1>2 DEF AllUnrecorded, f

\* The history stays in step when one handler moves what it has not recorded, or the
\* chain's fill, or the history, all by the same amount.
LEMMA HistoryStep ==
    ASSUME Types, HistoryInv, NEW r \in Request,
           \A q \in Request \ {r} : request'[q] = request[q],
           \A o \in Order :
             /\ Unrecorded(r, o)' \in Nat /\ history'[o] \in Nat /\ filled'[o] \in Nat
             /\ history'[o] + Unrecorded(r, o)' - filled'[o]
                  <= history[o] + Unrecorded(r, o) - filled[o]
             /\ serial' => history'[o] + Unrecorded(r, o)' - filled'[o]
                              = history[o] + Unrecorded(r, o) - filled[o],
           serial' => serial /\ request'[r].stage # "lost"
    PROVE  HistoryInv'
<1>1. SUFFICES ASSUME NEW o \in Order
               PROVE  /\ history'[o] + AllUnrecorded(o)' <= filled'[o]
                      /\ serial' => history'[o] + AllUnrecorded(o)' = filled'[o]
  BY DEF HistoryInv
<1> DEFINE f == [q \in Request |-> Unrecorded(q, o)]
           g == [q \in Request |-> Unrecorded(q, o)']
<1>2. \A q \in Request \ {r} : Unrecorded(q, o)' = Unrecorded(q, o)
  BY DEF Unrecorded, TradedBy
<1>3. \A q \in Request : f[q] \in Int /\ g[q] \in Int
  BY <1>2, UnrecordedType
<1>4. \A q \in Request \ {r} : g[q] = f[q]
  BY <1>2
<1>5. f[r] = Unrecorded(r, o) /\ g[r] = Unrecorded(r, o)'
  OBVIOUS
<1>6. AllUnrecorded(o) = SumFunctionOnSet(f, Request)
  BY DEF AllUnrecorded
<1>7. AllUnrecorded(o)' = SumFunctionOnSet(g, Request)
  BY DEF AllUnrecorded
<1> HIDE DEF f, g
<1>8. SumFunctionOnSet(g, Request) = SumFunctionOnSet(f, Request) + (g[r] - f[r])
  BY ONLY <1>3, <1>4, r \in Request, IsFiniteSet(Request), SumUpdate
<1>9. AllUnrecorded(o) \in Nat /\ Unrecorded(r, o) \in Nat
  BY AllUnrecordedType, UnrecordedType
<1>10. history[o] \in Nat /\ filled[o] \in Nat
  BY DEF Types
<1>11. /\ history[o] + AllUnrecorded(o) <= filled[o]
       /\ serial => history[o] + AllUnrecorded(o) = filled[o]
  BY DEF HistoryInv
<1>12. AllUnrecorded(o)' = AllUnrecorded(o) + (Unrecorded(r, o)' - Unrecorded(r, o))
  BY <1>5, <1>6, <1>7, <1>8
<1>13. /\ Unrecorded(r, o)' \in Nat /\ history'[o] \in Nat /\ filled'[o] \in Nat
       /\ history'[o] + Unrecorded(r, o)' - filled'[o]
            <= history[o] + Unrecorded(r, o) - filled[o]
       /\ serial' => history'[o] + Unrecorded(r, o)' - filled'[o]
                        = history[o] + Unrecorded(r, o) - filled[o]
       /\ serial' => serial
  OBVIOUS
<1>14. history'[o] + AllUnrecorded(o)' <= filled'[o]
  BY ONLY <1>9, <1>10, <1>11, <1>12, <1>13
<1>15. ASSUME serial'
       PROVE  history'[o] + AllUnrecorded(o)' = filled'[o]
  <2>1. history[o] + AllUnrecorded(o) = filled[o]
    BY <1>11, <1>13, <1>15
  <2>2. history'[o] + Unrecorded(r, o)' - filled'[o]
          = history[o] + Unrecorded(r, o) - filled[o]
    BY <1>13, <1>15
  <2>3. QED
    BY ONLY <1>9, <1>10, <1>12, <1>13, <2>1, <2>2
<1>16. QED
  BY <1>14, <1>15

LEMMA HistoryUnmoved ==
    ASSUME Types, HistoryInv, NEW r \in Request,
           \A q \in Request \ {r} : request'[q] = request[q],
           history' = history, filled' = filled, serial' => serial,
           \A o \in Order : Unrecorded(r, o)' = Unrecorded(r, o),
           request'[r].stage # "lost"
    PROVE  HistoryInv'
<1>1. \A o \in Order : /\ history[o] \in Nat /\ filled[o] \in Nat
                       /\ Unrecorded(r, o) \in Nat
  BY UnrecordedType DEF Types
<1>2. \A o \in Order :
        /\ Unrecorded(r, o)' \in Nat /\ history'[o] \in Nat /\ filled'[o] \in Nat
        /\ history'[o] + Unrecorded(r, o)' - filled'[o]
             <= history[o] + Unrecorded(r, o) - filled[o]
        /\ serial' => history'[o] + Unrecorded(r, o)' - filled'[o]
                         = history[o] + Unrecorded(r, o) - filled[o]
  BY <1>1
<1>3. QED
  BY <1>2, HistoryStep

\* Where a post's handler goes, with what it has not recorded.
LEMMA UnrecordedAfterStep ==
    ASSUME Types, NEW r \in Posts, NEW stage, NEW left, PostGoesOn(r, stage, left)
    PROVE  \A o \in Order :
             Unrecorded(r, o)' = IF stage = "saving" \/ (stage = "recording" /\ o \in left)
                                 THEN TradedBy(r, o) ELSE 0
<1>1. /\ request'[r].stage = stage /\ request'[r].left = left
      /\ request'[r].order = request[r].order /\ request'[r].trades = request[r].trades
  BY DEF PostGoesOn
<1>2. \A o \in Order : TradedBy(r, o)' = TradedBy(r, o)
  BY <1>1 DEF TradedBy
<1>3. QED
  BY <1>1, <1>2 DEF Unrecorded

LEMMA NextHistory == Types /\ PostInv /\ HistoryInv /\ [Next]_vars => HistoryInv'
<1> SUFFICES ASSUME Types, PostInv, HistoryInv, [Next]_vars PROVE HistoryInv'
  OBVIOUS
<1> DEFINE Unmoved(r) == /\ \A q \in Request \ {r} : request'[q] = request[q]
                         /\ \A o \in Order : Unrecorded(r, o)' = Unrecorded(r, o)
                         /\ request'[r].stage # "lost"
<1>1. ASSUME NEW r \in Request, Unmoved(r), UNCHANGED <<history, filled>>, serial' => serial
      PROVE  HistoryInv'
  BY <1>1, HistoryUnmoved
<1>2. ASSUME NEW r \in Request, NEW taker \in Order,
             NEW listing \in Listings(~Terms[taker].isBuy), Post(r, taker, listing)
      PROVE  HistoryInv'
  <2>1. UNCHANGED <<history, filled>> /\ (serial' => serial)
    BY <1>2 DEF Post
  <2>2. Unmoved(r)
    BY <1>2, PostDoes DEF Unrecorded, Unsent
  <2>3. QED
    BY <1>1, <2>1, <2>2
<1>3. ASSUME NEW r \in Request, NEW orders \in Cancelable, Cancel(r, orders)
      PROVE  HistoryInv'
  <2>1. UNCHANGED <<history, filled>> /\ (serial' => serial)
    BY <1>3 DEF Cancel
  <2>2. Unmoved(r)
    BY <1>3, CancelDoes DEF Unrecorded, Unsent
  <2>3. QED
    BY <1>1, <2>1, <2>2
<1>4. ASSUME NEW r \in Request, NEW stage, NEW left, PostGoesOn(r, stage, left),
             stage \notin {"saving", "recording", "lost"},
             request[r].stage \notin {"saving", "recording"},
             UNCHANGED <<history, filled, serial>>
      PROVE  HistoryInv'
  <2>1. Unmoved(r)
    BY <1>4, UnrecordedAfterStep DEF Unrecorded, PostGoesOn
  <2>2. QED
    BY <1>1, <1>4, <2>1
<1>5. ASSUME NEW r \in Request, NEW stage, NEW left, CancelGoesOn(r, stage, left),
             stage \notin {"saving", "recording", "lost"},
             UNCHANGED <<history, filled, serial>>
      PROVE  HistoryInv'
  <2>1. request[r].stage \notin {"saving", "recording"}
    BY <1>5 DEF CancelGoesOn, CancelState, CancelStages
  <2>2. Unmoved(r)
    BY <1>5, <2>1 DEF Unrecorded, CancelGoesOn
  <2>3. QED
    BY <1>1, <1>5, <2>2
<1>6. ASSUME NEW r \in Request, Mine(r)
      PROVE  HistoryInv'
  <2>1. UNCHANGED <<history, serial>>
    BY <1>6 DEF Mine
  <2>2. /\ r \in Posts /\ filled' \in [Order -> Nat]
        /\ \A o \in Order : filled'[o] = filled[o] + TradedBy(r, o) /\ TradedBy(r, o) \in Nat
    BY <1>6, MineFills
  <2>3. \A o \in Order : history[o] \in Nat /\ filled[o] \in Nat
    BY DEF Types
  <2>4. \/ request[r].stage = "sent" /\ PostGoesOn(r, "saving", request[r].left)
        \/ request[r].stage = "lost" /\ PostGoesOn(r, "lost", request[r].left)
    BY <1>6, AnswerDoes DEF Mine
  <2>5. \A o \in Order : Unrecorded(r, o) = 0
    BY <2>4 DEF Unrecorded
  <2>6. \/ (\A o \in Order : Unrecorded(r, o)' = TradedBy(r, o)) /\ request'[r].stage # "lost"
        \/ (\A o \in Order : Unrecorded(r, o)' = 0) /\ ~serial
    <3>1. CASE request[r].stage = "sent" /\ PostGoesOn(r, "saving", request[r].left)
      <4>1. request'[r].stage = "saving"
        BY <3>1 DEF PostGoesOn
      <4>2. QED
        BY <2>2, <3>1, <4>1, UnrecordedAfterStep
    <3>2. CASE request[r].stage = "lost" /\ PostGoesOn(r, "lost", request[r].left)
      <4>1. ~serial
        BY <3>2 DEF HistoryInv
      <4>2. QED
        BY <2>2, <3>2, <4>1, UnrecordedAfterStep
    <3>3. QED
      BY <2>4, <3>1, <3>2
  <2>7. \A o \in Order :
          /\ Unrecorded(r, o)' \in Nat /\ history'[o] \in Nat /\ filled'[o] \in Nat
          /\ history'[o] + Unrecorded(r, o)' - filled'[o]
               <= history[o] + Unrecorded(r, o) - filled[o]
          /\ serial' => history'[o] + Unrecorded(r, o)' - filled'[o]
                           = history[o] + Unrecorded(r, o) - filled[o]
    BY <2>1, <2>2, <2>3, <2>5, <2>6
  <2>8. serial' => serial /\ request'[r].stage # "lost"
    BY <2>1, <2>6
  <2>9. \A q \in Request \ {r} : request'[q] = request[q]
    BY <2>4 DEF PostGoesOn
  <2>10. QED
    BY <2>7, <2>8, <2>9, HistoryStep
<1>7. ASSUME NEW r \in Request, Reject(r)
      PROVE  HistoryInv'
  <2>1. UNCHANGED <<history, filled, serial>> /\ r \in Posts
    BY <1>7, PoolOfPosts DEF Reject
  <2>2. \/ request[r].stage = "sent" /\ PostGoesOn(r, "failed", request[r].left)
        \/ request[r].stage = "lost" /\ PostGoesOn(r, "lost", request[r].left)
    BY <1>7, AnswerDoes DEF Reject
  <2>3. CASE request[r].stage = "sent"
    BY <1>4, <2>1, <2>2, <2>3
  <2>4. CASE request[r].stage = "lost"
    <3>1. ~serial
      BY <2>4 DEF HistoryInv
    <3>2. \A o \in Order : Unrecorded(r, o)' = 0 /\ Unrecorded(r, o) = 0
      BY <2>1, <2>2, <2>4, UnrecordedAfterStep DEF Unrecorded
    <3>3. \A o \in Order : history[o] \in Nat /\ filled[o] \in Nat
      BY DEF Types
    <3>4. \A o \in Order :
          /\ Unrecorded(r, o)' \in Nat /\ history'[o] \in Nat /\ filled'[o] \in Nat
          /\ history'[o] + Unrecorded(r, o)' - filled'[o]
               <= history[o] + Unrecorded(r, o) - filled[o]
          /\ serial' => history'[o] + Unrecorded(r, o)' - filled'[o]
                           = history[o] + Unrecorded(r, o) - filled[o]
      BY <2>1, <3>2, <3>3
    <3>5. \A q \in Request \ {r} : request'[q] = request[q]
      BY <2>2, <2>4 DEF PostGoesOn
    <3>6. QED
      BY <2>1, <3>1, <3>4, <3>5, HistoryStep
  <2>5. QED
    BY <2>2, <2>3, <2>4
<1>8. ASSUME NEW r \in Request, NEW o \in Order, SaveRow(r, o)
      PROVE  HistoryInv'
  <2>1. UNCHANGED <<history, filled, serial>>
    BY <1>8 DEF SaveRow
  <2>2. Unmoved(r)
    <3>1. /\ r \in Posts /\ request[r].stage = "saving"
          /\ PostGoesOn(r, "saving", request[r].left \ {o})
      BY <1>8, SaveRowDoes
    <3>2. \A p \in Order : Unrecorded(r, p)' = TradedBy(r, p)
      BY <3>1, UnrecordedAfterStep
    <3>3. \A p \in Order : Unrecorded(r, p) = TradedBy(r, p)
      BY <3>1 DEF Unrecorded
    <3>4. QED
      BY <3>1, <3>2, <3>3 DEF PostGoesOn
  <2>3. QED
    BY <1>1, <2>1, <2>2
<1>9. ASSUME NEW r \in Request, Saved(r)
      PROVE  HistoryInv'
  <2>1. UNCHANGED <<history, filled, serial>>
    BY <1>9 DEF Saved
  <2>2. \A o \in Order :
          o \notin DOMAIN request[r].trades \cup {request[r].order} => TradedBy(r, o) = 0
    BY DEF TradedBy
  <2>3. Unmoved(r)
    BY <1>9, <2>2, SavedDoes, UnrecordedAfterStep DEF Unrecorded, PostGoesOn
  <2>4. QED
    BY <1>1, <2>1, <2>3
<1>10. ASSUME NEW r \in Request, NEW p \in Order, RecordTrade(r, p)
      PROVE  HistoryInv'
  <2>1. UNCHANGED <<filled, serial>>
        /\ history' = [history EXCEPT ![p] = @ + TradedBy(r, p)]
    BY <1>10 DEF RecordTrade, HistoryAmount
  <2>2. /\ r \in Posts /\ request[r].stage = "recording" /\ p \in request[r].left
        /\ PostGoesOn(r, "recording", request[r].left \ {p})
    BY <1>10, RecordTradeDoes
  <2>3. \A o \in Order : /\ history[o] \in Nat /\ filled[o] \in Nat
                         /\ TradedBy(r, o) \in Nat
    BY <2>2, TradedByType DEF Types
  <2>4. \A o \in Order :
          /\ o = p => Unrecorded(r, o) = TradedBy(r, o) /\ Unrecorded(r, o)' = 0
          /\ o # p => Unrecorded(r, o)' = Unrecorded(r, o)
          /\ Unrecorded(r, o) \in Nat
    BY <2>2, UnrecordedAfterStep, UnrecordedType DEF Unrecorded
  <2>5. \A o \in Order :
          history'[o] = IF o = p THEN history[o] + TradedBy(r, o) ELSE history[o]
    BY <2>1 DEF Types
  <2>6. \A o \in Order :
          /\ Unrecorded(r, o)' \in Nat /\ history'[o] \in Nat /\ filled'[o] \in Nat
          /\ history'[o] + Unrecorded(r, o)' - filled'[o]
               = history[o] + Unrecorded(r, o) - filled[o]
    BY <2>1, <2>3, <2>4, <2>5
  <2>7. \A o \in Order :
          history'[o] + Unrecorded(r, o)' - filled'[o]
            <= history[o] + Unrecorded(r, o) - filled[o]
    BY <2>1, <2>3, <2>4, <2>6
  <2>8. /\ serial' => serial /\ request'[r].stage # "lost"
        /\ \A q \in Request \ {r} : request'[q] = request[q]
    BY <2>1, <2>2 DEF PostGoesOn
  <2>9. QED
    BY <2>6, <2>7, <2>8, HistoryStep
<1>11. ASSUME NEW r \in Request, Recorded(r)
      PROVE  HistoryInv'
  <2>1. UNCHANGED <<history, filled, serial>>
    BY <1>11 DEF Recorded
  <2>2. Unmoved(r)
    BY <1>11, RecordedDoes, UnrecordedAfterStep DEF Unrecorded, PostGoesOn
  <2>3. QED
    BY <1>1, <2>1, <2>2
<1>12. ASSUME NEW r \in Request, AddOrder(r)
      PROVE  HistoryInv'
  <2>1. UNCHANGED <<history, filled, serial>>
    BY <1>12 DEF AddOrder
  <2>2. QED
    BY <1>4, <1>12, <2>1, AddOrderDoes
<1>13. ASSUME NEW r \in Request, TellOrder(r)
      PROVE  HistoryInv'
  <2>1. UNCHANGED <<history, filled, serial>>
    BY <1>13 DEF TellOrder
  <2>2. QED
    BY <1>4, <1>13, <2>1, TellOrderDoes
<1>14. ASSUME NEW r \in Request, DeleteRows(r)
      PROVE  HistoryInv'
  <2>1. UNCHANGED <<history, filled, serial>>
    BY <1>14 DEF DeleteRows
  <2>2. QED
    BY <1>5, <1>14, <2>1, DeleteRowsDoes
<1>15. ASSUME NEW r \in Request, TellCanceled(r)
      PROVE  HistoryInv'
  <2>1. UNCHANGED <<history, filled, serial>>
    BY <1>15 DEF TellCanceled
  <2>2. QED
    BY <1>5, <1>15, <2>1, TellCanceledDoes
<1>16. ASSUME NEW r \in Request, NEW o \in Order, FindRow(r, o)
      PROVE  HistoryInv'
  <2>1. UNCHANGED <<history, filled, serial>>
    BY <1>16 DEF FindRow
  <2>2. QED
    <3>1. PICK stage \in {"cancelFailed", "deleting", "finding"} :
            CancelGoesOn(r, stage, request[r].left \ {o})
      BY <1>16, FindRowDoes
    <3>2. QED
      BY <1>5, <2>1, <3>1
<1>17. ASSUME Crash
      PROVE  HistoryInv'
  <2>1. UNCHANGED <<history, filled>> /\ serial' = FALSE
    BY <1>17 DEF Crash
  <2>2. SUFFICES ASSUME NEW o \in Order
                 PROVE  history[o] + AllUnrecorded(o)' <= filled[o]
    BY <2>1 DEF HistoryInv
  <2> DEFINE f == [q \in Request |-> Unrecorded(q, o)]
             g == [q \in Request |-> Unrecorded(q, o)']
  <2>3. \A q \in Request : /\ Unrecorded(q, o) \in Nat /\ Unrecorded(q, o)' \in Nat
                           /\ Unrecorded(q, o)' <= Unrecorded(q, o)
    <3>1. SUFFICES ASSUME NEW q \in Request
                   PROVE  Unrecorded(q, o)' = 0 \/ Unrecorded(q, o)' = Unrecorded(q, o)
      BY UnrecordedType
    <3>2. QED
      BY <1>17, CrashDoes DEF Unrecorded, TradedBy
  <2>4. \A q \in Request : f[q] \in Int /\ g[q] \in Int /\ g[q] <= f[q]
    BY <2>3
  <2>5. AllUnrecorded(o) = SumFunctionOnSet(f, Request)
        /\ AllUnrecorded(o)' = SumFunctionOnSet(g, Request)
    BY DEF AllUnrecorded
  <2>6. \A q \in Request : g[q] \in Nat
    BY <2>3
  <2> HIDE DEF f, g
  <2>7. SumFunctionOnSet(g, Request) <= SumFunctionOnSet(f, Request)
    BY ONLY <2>4, IsFiniteSet(Request), SumMonotone
  <2>8. SumFunctionOnSet(g, Request) \in Nat
    BY ONLY <2>6, IsFiniteSet(Request), SumOfNats
  <2>9. /\ history[o] \in Nat /\ filled[o] \in Nat /\ AllUnrecorded(o) \in Nat
        /\ history[o] + AllUnrecorded(o) <= filled[o]
    BY AllUnrecordedType DEF Types, HistoryInv
  <2>10. QED
    BY <2>5, <2>7, <2>8, <2>9
<1>18. ASSUME UNCHANGED <<history, filled, request, serial>>
      PROVE  HistoryInv'
  BY <1>18 DEF HistoryInv, AllUnrecorded, Unrecorded, TradedBy
<1>19. QED
  BY <1>2, <1>3, <1>6, <1>7, <1>8, <1>9, <1>10, <1>11, <1>12, <1>13, <1>14, <1>15, <1>16,
     <1>17, <1>18 DEF Next, vars, Tick

-----------------------------------------------------------------------------
(* What is sold is bought.                                                 *)

LEMMA NextFlat == Types /\ PostInv /\ OperatorFlat /\ [Next]_vars => OperatorFlat'
<1> SUFFICES ASSUME Types, PostInv, OperatorFlat, [Next]_vars PROVE OperatorFlat'
  OBVIOUS
<1>1. ASSUME filled' = filled
      PROVE  OperatorFlat'
  BY <1>1 DEF OperatorFlat
<1>2. ASSUME NEW r \in Request, Mine(r)
      PROVE  OperatorFlat'
  <2> DEFINE trades == request[r].trades
             taker == request[r].order
             Side(isBuy) == {o \in Order : Terms[o].isBuy = isBuy}
             takers == Side(Terms[taker].isBuy)
             makers == Side(~Terms[taker].isBuy)
  <2>1. /\ r \in Posts /\ filled' \in [Order -> Nat] /\ filled \in [Order -> Nat]
        /\ \A o \in Order : filled'[o] = filled[o] + TradedBy(r, o)
    BY <1>2, MineFills DEF Types
  <2>2. /\ taker \in Order /\ SumOf(trades) \in Nat
        /\ \A o \in DOMAIN trades : o \in Order /\ trades[o] \in Nat
        /\ taker \notin DOMAIN trades
        /\ TradedBy(r, taker) = SumOf(trades)
        /\ \A o \in DOMAIN trades : TradedBy(r, o) = trades[o]
    BY <2>1, PostNumbers, TakersPart
  <2>3. \A o \in Order \ (DOMAIN trades \cup {taker}) : TradedBy(r, o) = 0
    BY DEF TradedBy
  <2>4. \A o \in DOMAIN trades : Terms[o].isBuy # Terms[taker].isBuy
    BY <2>1 DEF PostInv, PostOK
  <2>5. \A o \in Order : Terms[o].isBuy \in BOOLEAN
    OBVIOUS
  <2> HIDE DEF trades, taker
  <2>6. /\ taker \in takers /\ DOMAIN trades \in SUBSET makers
        /\ takers \in SUBSET Order /\ makers \in SUBSET Order
        /\ takers \cap DOMAIN trades = {} /\ taker \notin makers
    BY <2>2, <2>4, <2>5
  <2> HIDE DEF takers, makers
  <2>7. IsFiniteSet(takers) /\ IsFiniteSet(makers)
    BY <2>6, FS_Subset
  <2>8. SumFunctionOnSet(filled', takers)
          = SumFunctionOnSet(filled, takers) + SumOf(trades)
    <3>1. \A o \in takers : filled[o] \in Int /\ filled'[o] \in Int
      BY <2>1, <2>6
    <3>2. \A o \in takers \ {taker} : filled'[o] = filled[o]
      BY <2>1, <2>3, <2>6
    <3>3. SumFunctionOnSet(filled', takers)
            = SumFunctionOnSet(filled, takers) + (filled'[taker] - filled[taker])
      <4>1. taker \in takers /\ IsFiniteSet(takers)
        BY <2>6, <2>7
      <4>2. QED
        BY ONLY <3>1, <3>2, <4>1, SumUpdate
    <3>4. filled'[taker] - filled[taker] = SumOf(trades)
      BY <2>1, <2>2
    <3>5. QED
      BY <3>3, <3>4
  <2>9. SumFunctionOnSet(filled', makers)
          = SumFunctionOnSet(filled, makers) + SumOf(trades)
    <3>1. \A o \in makers : filled[o] \in Int /\ filled'[o] \in Int
      BY <2>1, <2>6
    <3>2. \A o \in DOMAIN trades : trades[o] \in Int /\ filled'[o] = filled[o] + trades[o]
      BY <2>1, <2>2, <2>6
    <3>3. \A o \in makers \ DOMAIN trades : filled'[o] = filled[o]
      BY <2>1, <2>3, <2>6
    <3>4. SumFunctionOnSet(filled', makers)
            = SumFunctionOnSet(filled, makers) + SumFunctionOnSet(trades, DOMAIN trades)
      BY ONLY <2>6, <2>7, <3>1, <3>2, <3>3, SumGrows
    <3>5. QED
      BY <3>4 DEF SumOf
  <2>10. SumFunctionOnSet(filled, takers) = SumFunctionOnSet(filled, makers)
    BY <2>2, <2>5 DEF OperatorFlat, takers, makers
  <2>11. SumFunctionOnSet(filled', takers) = SumFunctionOnSet(filled', makers)
    BY <2>8, <2>9, <2>10
  <2>12. CASE Terms[taker].isBuy = TRUE
    BY <2>11, <2>12 DEF OperatorFlat, takers, makers
  <2>13. CASE Terms[taker].isBuy = FALSE
    BY <2>11, <2>13 DEF OperatorFlat, takers, makers
  <2>14. QED
    BY <2>2, <2>5, <2>12, <2>13
<1>3. QED
  BY <1>1, <1>2
     DEF Next, vars, Post, Cancel, Reject, SaveRow, Saved, RecordTrade, Recorded, AddOrder,
         TellOrder, FindRow, DeleteRows, TellCanceled, Crash, Tick

-----------------------------------------------------------------------------
(* The first theorems.                                                     *)

\* All but the parts about requests that come one at a time.
BookInv == Types /\ PostInv /\ Behind /\ HistoryInv /\ OperatorFlat

LEMMA InitBookInv == Init => BookInv
<1> SUFFICES ASSUME Init PROVE BookInv
  OBVIOUS
<1>1. Types
  BY InitTypes
<1>2. Posts = {} /\ \A r \in Request : request[r].stage = "unsent"
  BY KindsDiffer DEF Init, Posts
<1>3. PostInv
  BY <1>2 DEF PostInv
<1>4. Behind
  BY DEF Init, Behind
<1>5. \A S \in SUBSET Order : SumFunctionOnSet(filled, S) = 0
  <2>1. SUFFICES ASSUME NEW S \in SUBSET Order
                 PROVE  SumFunctionOnSet(filled, S) = 0
    OBVIOUS
  <2>2. IsFiniteSet(S) /\ \A o \in S : filled[o] = 0
    BY FS_Subset DEF Init
  <2>3. QED
    BY ONLY <2>2, SumOfZeros
<1>6. OperatorFlat
  BY <1>5 DEF OperatorFlat
<1>7. HistoryInv
  <2>1. ASSUME NEW o \in Order
        PROVE  AllUnrecorded(o) = 0 /\ history[o] = 0 /\ filled[o] = 0
    <3> DEFINE f == [r \in Request |-> Unrecorded(r, o)]
    <3>1. \A r \in Request : f[r] = 0
      BY <1>2 DEF Unrecorded
    <3> HIDE DEF f
    <3>2. SumFunctionOnSet(f, Request) = 0
      BY ONLY <3>1, IsFiniteSet(Request), SumOfZeros
    <3>3. QED
      BY <3>2 DEF AllUnrecorded, Init, f
  <2>2. QED
    BY <1>2, <2>1 DEF HistoryInv
<1>8. QED
  BY <1>1, <1>3, <1>4, <1>6, <1>7 DEF BookInv

LEMMA BookInvariant == Spec => []BookInv
<1>1. BookInv /\ [Next]_vars => BookInv'
  BY NextTypes, NextPostInv, NextBehind, NextHistory, NextFlat DEF BookInv
<1>2. QED
  BY InitBookInv, <1>1, PTL DEF Spec

\* Whatever requests overlap, repeat, fail or are lost, neither book nor history nor
\* events tell of more than the chain has filled.
THEOREM NothingGetsAhead == Spec => []NothingIsAhead
<1>1. BookInv => NothingIsAhead
  <2> SUFFICES ASSUME BookInv PROVE NothingIsAhead
    OBVIOUS
  <2>1. ASSUME NEW o \in Order
        PROVE  history[o] <= filled[o]
    <3>1. /\ history[o] \in Nat /\ filled[o] \in Nat
          /\ history[o] + AllUnrecorded(o) <= filled[o]
      BY DEF BookInv, Types, HistoryInv
    <3>2. AllUnrecorded(o) \in Nat
      BY AllUnrecordedType DEF BookInv
    <3>3. QED
      BY <3>1, <3>2
  <2>2. QED
    BY <2>1 DEF BookInv, Behind, NothingIsAhead
<1>2. QED
  BY BookInvariant, <1>1, PTL

\* The operator sells in each transaction what it buys, whoever posts what.
THEOREM OperatorStaysFlat == Spec => []OperatorFlat
<1>1. BookInv => OperatorFlat
  BY DEF BookInv
<1>2. QED
  BY BookInvariant, <1>1, PTL

-----------------------------------------------------------------------------
(* Orders that were posted.                                                *)

LEMMA PostedGrows ==
    ASSUME Types, NEW r \in Request, \A q \in Request \ {r} : request'[q] = request[q],
           r \in Posts => r \in Posts' /\ request'[r].order = request[r].order
    PROVE  Posted \subseteq Posted'
BY DEF Posted, Posts

LEMMA PostedStep ==
    ASSUME Types, PostedInv, NEW r \in Request,
           \A q \in Request \ {r} : request'[q] = request[q],
           Posted \subseteq Posted',
           DOMAIN book' \cup DOMAIN told' \subseteq Posted',
           \A o \in Order \ Posted' : filled'[o] = 0,
           r \in Posts' => DOMAIN request'[r].trades \subseteq Posted',
           CancelPosted(request[r])'
    PROVE  PostedInv'
<1>1. ASSUME NEW q \in Posts', q # r
      PROVE  DOMAIN request'[q].trades \subseteq Posted'
  <2>1. q \in Posts /\ request'[q] = request[q]
    BY <1>1 DEF Posts
  <2>2. DOMAIN request[q].trades \subseteq Posted
    BY <2>1 DEF PostedInv
  <2>3. QED
    BY <2>1, <2>2
<1>2. ASSUME NEW q \in Request, q # r
      PROVE  CancelPosted(request[q])'
  <2>1. request'[q] = request[q] /\ CancelPosted(request[q])
    BY <1>2 DEF PostedInv
  <2>2. QED
    BY <2>1 DEF CancelPosted
<1>3. QED
  BY <1>1, <1>2 DEF PostedInv

\* A step of a post's handler that changes nothing on chain.
LEMMA PostedAfterPostStep ==
    ASSUME Types, PostedInv, NEW r \in Posts, NEW stage, NEW left,
           PostGoesOn(r, stage, left), filled' = filled,
           DOMAIN book' \cup DOMAIN told'
             \subseteq DOMAIN book \cup DOMAIN told \cup DOMAIN request[r].trades
                         \cup {request[r].order}
    PROVE  PostedInv'
<1>1. /\ r \in Request /\ r \in Posts' /\ request'[r].order = request[r].order
      /\ request'[r].trades = request[r].trades
      /\ \A q \in Request \ {r} : request'[q] = request[q]
  BY DEF Posts, PostGoesOn
<1>2. Posted \subseteq Posted'
  BY <1>1, PostedGrows
<1>3. /\ DOMAIN request[r].trades \subseteq Posted /\ request[r].order \in Posted
      /\ DOMAIN book \cup DOMAIN told \subseteq Posted
      /\ \A o \in Order \ Posted : filled[o] = 0
  BY DEF PostedInv, Posted
<1>4. CancelPosted(request[r])'
  <2>1. request'[r] \in PostState
    BY <1>1 DEF Posts
  <2>2. request'[r].stage \notin {"finding", "deleting", "deleted"}
    BY <2>1 DEF PostState, PostStages
  <2>3. QED
    BY <2>2 DEF CancelPosted
<1>5. /\ DOMAIN book' \cup DOMAIN told' \subseteq Posted'
      /\ \A o \in Order \ Posted' : filled'[o] = 0
      /\ DOMAIN request'[r].trades \subseteq Posted'
  BY <1>1, <1>2, <1>3
<1>6. QED
  BY <1>1, <1>2, <1>4, <1>5, PostedStep

\* A step of a cancellation's handler.
LEMMA PostedAfterCancelStep ==
    ASSUME Types, PostedInv, NEW r \in Request, NEW stage, NEW left,
           CancelGoesOn(r, stage, left), filled' = filled,
           DOMAIN book' \cup DOMAIN told'
             \subseteq DOMAIN book \cup DOMAIN told
                         \cup (IF request[r].stage = "deleted" THEN request[r].cancels ELSE {}),
           stage = "finding" => request[r].cancels \ left \subseteq Posted,
           stage \in {"deleting", "deleted"} => request[r].cancels \subseteq Posted
    PROVE  PostedInv'
<1>1. /\ r \notin Posts /\ r \notin Posts'
      /\ \A q \in Request \ {r} : request'[q] = request[q]
      /\ request'[r].stage = stage /\ request'[r].left = left
      /\ request'[r].cancels = request[r].cancels
  BY KindsDiffer DEF Posts, CancelGoesOn
<1>2. Posted \subseteq Posted'
  BY <1>1, PostedGrows
<1>3. /\ request[r].stage = "deleted" => request[r].cancels \subseteq Posted
      /\ DOMAIN book \cup DOMAIN told \subseteq Posted
      /\ \A o \in Order \ Posted : filled[o] = 0
  BY DEF PostedInv, CancelPosted
<1>4. CancelPosted(request[r])'
  BY <1>1, <1>2 DEF CancelPosted
<1>5. /\ DOMAIN book' \cup DOMAIN told' \subseteq Posted'
      /\ \A o \in Order \ Posted' : filled'[o] = 0
  BY <1>2, <1>3
<1>6. QED
  BY <1>1, <1>2, <1>4, <1>5, PostedStep

LEMMA NextPosted == Types /\ PostInv /\ PostedInv /\ [Next]_vars => PostedInv'
<1> SUFFICES ASSUME Types, PostInv, PostedInv, [Next]_vars PROVE PostedInv'
  OBVIOUS
<1>1. ASSUME NEW r \in Request, NEW taker \in Order,
             NEW listing \in Listings(~Terms[taker].isBuy), Post(r, taker, listing)
      PROVE  PostedInv'
  <2>1. UNCHANGED <<book, told, filled>>
    BY <1>1 DEF Post
  <2>2. /\ r \notin Posts /\ r \in Posts'
        /\ \A q \in Request \ {r} : request'[q] = request[q]
        /\ DOMAIN request'[r].trades \subseteq DOMAIN book
    BY <1>1, PostDoes, KindsDiffer DEF Posts
  <2>3. Posted \subseteq Posted'
    BY <2>2, PostedGrows
  <2>4. /\ DOMAIN book \cup DOMAIN told \subseteq Posted
        /\ \A o \in Order \ Posted : filled[o] = 0
    BY DEF PostedInv
  <2>5. CancelPosted(request[r])'
    BY <1>1, PostDoes DEF CancelPosted
  <2>6. QED
    BY <2>1, <2>2, <2>3, <2>4, <2>5, PostedStep
<1>2. ASSUME NEW r \in Request, NEW orders \in Cancelable, Cancel(r, orders)
      PROVE  PostedInv'
  <2>1. UNCHANGED <<book, told, filled>>
    BY <1>2 DEF Cancel
  <2>2. /\ r \notin Posts /\ r \notin Posts'
        /\ \A q \in Request \ {r} : request'[q] = request[q]
        /\ request'[r].stage = "finding" /\ request'[r].cancels = request'[r].left
    BY <1>2, CancelDoes, KindsDiffer DEF Posts
  <2>3. Posted \subseteq Posted'
    BY <2>2, PostedGrows
  <2>4. /\ DOMAIN book \cup DOMAIN told \subseteq Posted
        /\ \A o \in Order \ Posted : filled[o] = 0
    BY DEF PostedInv
  <2>5. CancelPosted(request[r])'
    BY <2>2 DEF CancelPosted
  <2>6. QED
    BY <2>1, <2>2, <2>3, <2>4, <2>5, PostedStep
<1>3. ASSUME NEW r \in Request, Mine(r)
      PROVE  PostedInv'
  <2>1. UNCHANGED <<book, told>>
    BY <1>3 DEF Mine
  <2>2. /\ r \in Posts
        /\ \A o \in Order : filled'[o] = filled[o] + TradedBy(r, o) /\ filled[o] \in Nat
    BY <1>3, MineFills DEF Types
  <2>3. PICK stage, left : PostGoesOn(r, stage, left)
    BY <1>3, AnswerDoes DEF Mine
  <2>4. /\ r \in Posts' /\ request'[r].order = request[r].order
        /\ request'[r].trades = request[r].trades
        /\ request'[r] \in PostState
        /\ \A q \in Request \ {r} : request'[q] = request[q]
    BY <2>3 DEF PostGoesOn, Posts
  <2>5. Posted \subseteq Posted'
    BY <2>4, PostedGrows
  <2>6. /\ DOMAIN request[r].trades \subseteq Posted /\ request[r].order \in Posted
        /\ DOMAIN book \cup DOMAIN told \subseteq Posted
        /\ \A o \in Order \ Posted : filled[o] = 0
    BY <2>2 DEF PostedInv, Posted
  <2>7. \A o \in Order \ Posted : TradedBy(r, o) = 0
    BY <2>6 DEF TradedBy
  <2>8. \A o \in Order \ Posted' : filled'[o] = 0
    BY <2>2, <2>5, <2>6, <2>7
  <2>9. CancelPosted(request[r])'
    <3>1. request'[r].stage \notin {"finding", "deleting", "deleted"}
      BY <2>4 DEF PostState, PostStages
    <3>2. QED
      BY <3>1 DEF CancelPosted
  <2>10. QED
    BY <2>1, <2>4, <2>5, <2>6, <2>8, <2>9, PostedStep
<1>4. ASSUME NEW r \in Posts, NEW stage, NEW left, PostGoesOn(r, stage, left),
             filled' = filled, book' = book, told' = told
      PROVE  PostedInv'
  BY <1>4, PostedAfterPostStep
<1>5. ASSUME NEW r \in Request, Reject(r)
      PROVE  PostedInv'
  <2>1. UNCHANGED <<book, told, filled>> /\ r \in Posts
    BY <1>5, PoolOfPosts DEF Reject
  <2>2. PICK stage, left : PostGoesOn(r, stage, left)
    BY <1>5, AnswerDoes DEF Reject
  <2>3. QED
    BY <1>4, <2>1, <2>2
<1>6. ASSUME NEW r \in Request, NEW o \in Order, SaveRow(r, o)
      PROVE  PostedInv'
  <2>1. UNCHANGED <<told, filled>> /\ book' = Put(o, request[r].rows[o], book)
    BY <1>6 DEF SaveRow, NewRow
  <2>2. /\ r \in Posts /\ request[r].stage = "saving" /\ o \in request[r].left
        /\ PostGoesOn(r, "saving", request[r].left \ {o})
    BY <1>6, SaveRowDoes
  <2>3. o \in DOMAIN request[r].trades
    BY <2>2 DEF PostInv, PostOK
  <2>4. DOMAIN book' = DOMAIN book \cup {o}
    BY <2>1 DEF Put, Override
  <2>5. QED
    BY <2>1, <2>2, <2>3, <2>4, PostedAfterPostStep
<1>7. ASSUME NEW r \in Request, Saved(r)
      PROVE  PostedInv'
  <2>1. UNCHANGED <<book, filled>> /\ told' = Override(request[r].rows, told)
    BY <1>7 DEF Saved, EmittedOrders
  <2>2. /\ r \in Posts /\ request[r].stage = "saving"
        /\ PostGoesOn(r, "recording", DOMAIN request[r].trades \cup {request[r].order})
    BY <1>7, SavedDoes
  <2>3. DOMAIN request[r].rows = DOMAIN request[r].trades
    BY <2>2 DEF PostInv, PostOK
  <2>4. DOMAIN told' = DOMAIN request[r].rows \cup DOMAIN told
    BY <2>1 DEF Override
  <2>5. QED
    BY <2>1, <2>2, <2>3, <2>4, PostedAfterPostStep
<1>8. ASSUME NEW r \in Request, NEW o \in Order, RecordTrade(r, o)
      PROVE  PostedInv'
  BY <1>4, <1>8, RecordTradeDoes DEF RecordTrade
<1>9. ASSUME NEW r \in Request, Recorded(r)
      PROVE  PostedInv'
  BY <1>4, <1>9, RecordedDoes DEF Recorded
<1>10. ASSUME NEW r \in Request, AddOrder(r)
      PROVE  PostedInv'
  <2>1. UNCHANGED <<told, filled>>
        /\ book' = Put(request[r].order, SumOf(request[r].trades), book)
    BY <1>10 DEF AddOrder
  <2>2. DOMAIN book' = DOMAIN book \cup {request[r].order}
    BY <2>1 DEF Put, Override
  <2>3. QED
    BY <1>10, <2>1, <2>2, AddOrderDoes, PostedAfterPostStep
<1>11. ASSUME NEW r \in Request, TellOrder(r)
      PROVE  PostedInv'
  <2>1. UNCHANGED <<book, filled>>
        /\ \/ told' = Put(request[r].order, SumOf(request[r].trades), told)
           \/ told' = told
    BY <1>11 DEF TellOrder
  <2>2. DOMAIN told' \subseteq DOMAIN told \cup {request[r].order}
    BY <2>1 DEF Put, Override
  <2>3. QED
    BY <1>11, <2>1, <2>2, TellOrderDoes, PostedAfterPostStep
<1>12. ASSUME NEW r \in Request, DeleteRows(r)
      PROVE  PostedInv'
  <2>1. UNCHANGED <<told, filled>> /\ DOMAIN book' \subseteq DOMAIN book
    BY <1>12 DEF DeleteRows, Without
  <2>2. /\ request[r].stage = "deleting" /\ CancelGoesOn(r, "deleted", request[r].left)
    BY <1>12, DeleteRowsDoes
  <2>3. request[r].cancels \subseteq Posted
    BY <2>2 DEF PostedInv, CancelPosted
  <2>4. QED
    BY <2>1, <2>2, <2>3, PostedAfterCancelStep
<1>13. ASSUME NEW r \in Request, TellCanceled(r)
      PROVE  PostedInv'
  <2>1. UNCHANGED <<book, filled>> /\ told' = Override(CanceledOrders(r), told)
    BY <1>13 DEF TellCanceled
  <2>2. /\ request[r].stage = "deleted" /\ CancelGoesOn(r, "canceled", request[r].left)
    BY <1>13, TellCanceledDoes
  <2>3. DOMAIN told' = request[r].cancels \cup DOMAIN told
    BY <2>1 DEF Override, CanceledOrders
  <2>4. QED
    BY <2>1, <2>2, <2>3, PostedAfterCancelStep
<1>14. ASSUME NEW r \in Request, NEW o \in Order, FindRow(r, o)
      PROVE  PostedInv'
  <2>1. UNCHANGED <<book, told, filled>>
    BY <1>14 DEF FindRow
  <2>2. request[r].stage = "finding" /\ request[r].cancels \ request[r].left \subseteq Posted
    BY <1>14, FindRowDoes DEF PostedInv, CancelPosted
  <2>3. DOMAIN book \subseteq Posted
    BY DEF PostedInv
  <2>4. CASE CancelGoesOn(r, "cancelFailed", request[r].left \ {o})
    BY <2>1, <2>2, <2>4, PostedAfterCancelStep
  <2>5. CASE /\ o \in DOMAIN book /\ request[r].left = {o}
             /\ CancelGoesOn(r, "deleting", request[r].left \ {o})
    <3>1. request[r].cancels \subseteq Posted
      BY <2>2, <2>3, <2>5
    <3>2. QED
      BY <2>1, <2>2, <2>5, <3>1, PostedAfterCancelStep
  <2>6. CASE /\ o \in DOMAIN book
             /\ CancelGoesOn(r, "finding", request[r].left \ {o})
    <3>1. request[r].cancels \ (request[r].left \ {o}) \subseteq Posted
      BY <2>2, <2>3, <2>6
    <3>2. QED
      BY <2>1, <2>2, <2>6, <3>1, PostedAfterCancelStep
  <2>7. QED
    BY <1>14, <2>4, <2>5, <2>6, FindRowDoes
<1>15. ASSUME Crash
      PROVE  PostedInv'
  <2>1. UNCHANGED <<book, told, filled>>
    BY <1>15 DEF Crash
  <2>2. \A r \in Request :
          /\ r \in Posts <=> r \in Posts'
          /\ r \in Posts => /\ request'[r].order = request[r].order
                            /\ request'[r].trades = request[r].trades
    <3>1. SUFFICES ASSUME NEW r \in Request
                   PROVE  /\ r \in Posts <=> r \in Posts'
                          /\ r \in Posts => /\ request'[r].order = request[r].order
                                            /\ request'[r].trades = request[r].trades
      OBVIOUS
    <3>2. CASE r \in InFlight
      BY <1>15, <3>2, CrashDoes, KindsDiffer DEF Posts
    <3>3. CASE r \notin InFlight
      BY <1>15, <3>3, CrashDoes DEF Posts
    <3>4. QED
      BY <3>2, <3>3
  <2>3. Posted' = Posted
    BY <2>2 DEF Posted, Posts
  <2>4. \A r \in Posts' : DOMAIN request'[r].trades \subseteq Posted'
    BY <2>2, <2>3 DEF PostedInv, Posts
  <2>5. \A r \in Request : CancelPosted(request[r])'
    <3>1. SUFFICES ASSUME NEW r \in Request
                   PROVE  CancelPosted(request[r])'
      OBVIOUS
    <3>2. CASE r \in InFlight
      BY <1>15, <3>2, CrashDoes DEF CancelPosted
    <3>3. CASE r \notin InFlight
      BY <1>15, <2>3, <3>3, CrashDoes DEF CancelPosted, PostedInv
    <3>4. QED
      BY <3>2, <3>3
  <2>6. QED
    BY <2>1, <2>3, <2>4, <2>5 DEF PostedInv
<1>16. ASSUME UNCHANGED <<book, told, filled, request>>
      PROVE  PostedInv'
  BY <1>16 DEF PostedInv, Posted, Posts, CancelPosted
<1>17. QED
  BY <1>1, <1>2, <1>3, <1>5, <1>6, <1>7, <1>8, <1>9, <1>10, <1>11, <1>12, <1>13, <1>14,
     <1>15, <1>16 DEF Next, vars, Tick

-----------------------------------------------------------------------------
(* Requests that come one at a time.                                       *)

\* A step of the one handler in flight keeps the others, who are idle, and what is
\* known of its own post, of the rows and of the events.
LEMMA SerialStep ==
    ASSUME Types, NEW r \in Request,
           \A q \in Request \ {r} :
             request'[q] = request[q] /\ request[q].stage \notin Busy,
           r \in Posts' => SerialPost(request[r])',
           request'[r].stage = "deleted" => request'[r].cancels \cap DOMAIN book' = {},
           \A o \in DOMAIN book' : book'[o] = filled'[o] \/ SavingBy(r, o)',
           \A o \in Order : Agree(o)' \/ UntoldBy(r, o)'
    PROVE  SerialInv'
<1>1. \A q \in InFlight' : q = r
  BY DEF InFlight
<1>2. ASSUME NEW q \in Posts', q # r
      PROVE  SerialPost(request[q])'
  <2>1. request'[q].stage \notin Busy
    BY <1>2 DEF Posts
  <2>2. request'[q].stage \notin PostStages \cup Mined \cup {"sent", "saving", "telling"}
    BY <2>1 DEF Busy, PostStages, Mined
  <2>3. QED
    BY <2>2 DEF SerialPost
<1>3. \A q \in Request :
        request'[q].stage = "deleted" => request'[q].cancels \cap DOMAIN book' = {}
  BY DEF Busy, CancelStages
<1>4. QED
  BY <1>1, <1>2, <1>3 DEF SerialInv

\* What is known before the step of a handler that is in flight, or when none is.
LEMMA SerialFacts ==
    ASSUME Types, SerialInv, serial, NEW r \in Request, InFlight \subseteq {r}
    PROVE  /\ \A q \in Request \ {r} : request[q].stage \notin Busy
           /\ r \in Posts => SerialPost(request[r])
           /\ request[r].stage = "deleted" => request[r].cancels \cap DOMAIN book = {}
           /\ \A o \in DOMAIN book : book[o] = filled[o] \/ SavingBy(r, o)
           /\ \A o \in Order : Agree(o) \/ UntoldBy(r, o)
<1>1. \A q \in Request \ {r} : request[q].stage \notin Busy
  BY DEF InFlight
<1>2. \A q \in Request \ {r} : request[q].stage \notin {"saving", "telling", "deleted"}
  BY <1>1 DEF Busy, PostStages, CancelStages
<1>3. \A q \in Request \ {r} : \A o : ~SavingBy(q, o) /\ ~UntoldBy(q, o)
  BY <1>2 DEF SavingBy, UntoldBy
<1>4. QED
  BY <1>1, <1>3 DEF SerialInv

LEMMA OnlyOneInFlight ==
    ASSUME SerialInv, serial, NEW r \in Request, request[r].stage \in Busy
    PROVE  InFlight \subseteq {r}
BY DEF SerialInv, InFlight

LEMMA StagesDiffer ==
    /\ PostStages \subseteq Busy /\ CancelStages \subseteq Busy
    /\ \A stage \in {"sent", "saving", "recording", "adding", "telling"} : stage \in PostStages
    /\ \A stage \in {"finding", "deleting", "deleted"} : stage \in CancelStages
BY DEF PostStages, CancelStages, Busy

\* A step of a post's handler, with what is known before and what is left to show.
LEMMA SerialAfterPostStep ==
    ASSUME Types, NEW r \in Posts, NEW stage, NEW left, PostGoesOn(r, stage, left),
           \A q \in Request \ {r} : request[q].stage \notin Busy,
           SerialPost(request[r])',
           \A o \in DOMAIN book' :
             book'[o] = filled'[o] \/ (stage = "saving" /\ o \in left),
           \A o \in Order :
             \/ Agree(o)'
             \/ stage = "saving" /\ o \in DOMAIN request[r].trades
             \/ stage = "telling" /\ o = request[r].order
    PROVE  SerialInv'
<1>1. /\ r \in Request /\ request'[r] \in PostState
      /\ request'[r].stage = stage /\ request'[r].left = left
      /\ request'[r].order = request[r].order /\ request'[r].trades = request[r].trades
      /\ \A q \in Request \ {r} : request'[q] = request[q]
  BY DEF Posts, PostGoesOn
<1>2. request'[r].stage # "deleted"
  BY <1>1 DEF PostState, PostStages
<1>3. \A o \in DOMAIN book' : book'[o] = filled'[o] \/ SavingBy(r, o)'
  BY <1>1 DEF SavingBy
<1>4. \A o \in Order : Agree(o)' \/ UntoldBy(r, o)'
  BY <1>1 DEF UntoldBy
<1>5. QED
  BY <1>1, <1>2, <1>3, <1>4, SerialStep

LEMMA SerialAfterCancelStep ==
    ASSUME Types, NEW r \in Request, NEW stage, NEW left, CancelGoesOn(r, stage, left),
           \A q \in Request \ {r} : request[q].stage \notin Busy,
           stage = "deleted" => request[r].cancels \cap DOMAIN book' = {},
           \A o \in DOMAIN book' : book'[o] = filled'[o],
           \A o \in Order : Agree(o)' \/ (stage = "deleted" /\ o \in request[r].cancels)
    PROVE  SerialInv'
<1>1. /\ request'[r] \in CancelState /\ request'[r].stage = stage
      /\ request'[r].cancels = request[r].cancels
      /\ \A q \in Request \ {r} : request'[q] = request[q]
  BY DEF CancelGoesOn
<1>2. r \notin Posts'
  BY <1>1, KindsDiffer DEF Posts
<1>3. \A o \in Order : Agree(o)' \/ UntoldBy(r, o)'
  BY <1>1 DEF UntoldBy
<1>4. QED
  BY <1>1, <1>2, <1>3, SerialStep

LEMMA AgreeKept ==
    ASSUME NEW o, Agree(o), o \in DOMAIN book' <=> o \in DOMAIN book,
           o \in DOMAIN told' <=> o \in DOMAIN told,
           o \in DOMAIN book => book'[o] = book[o],
           o \in DOMAIN told => told'[o] = told[o]
    PROVE  Agree(o)'
BY DEF Agree, Open

LEMMA NextSerial ==
    Types /\ PostInv /\ HistoryInv /\ PostedInv /\ SerialInv /\ [Next]_vars => SerialInv'
<1> SUFFICES ASSUME Types, PostInv, HistoryInv, PostedInv, SerialInv, [Next]_vars, serial'
             PROVE  SerialInv'
  BY DEF SerialInv
<1>1. serial
  BY DEF Next, vars, Post, Cancel, Mine, Reject, SaveRow, Saved, RecordTrade, Recorded,
         AddOrder, TellOrder, FindRow, DeleteRows, TellCanceled, Crash, Tick
<1>2. \A r \in Request : request[r].stage # "lost"
  BY <1>1 DEF HistoryInv
<1>3. ASSUME NEW r \in Request, NEW taker \in Order,
             NEW listing \in Listings(~Terms[taker].isBuy), Post(r, taker, listing)
      PROVE  SerialInv'
  <2>1. /\ UNCHANGED <<book, told, filled>> /\ InFlight = {}
        /\ \A q \in Request : "order" \in DOMAIN request[q] => request[q].order # taker
    BY <1>3 DEF Post
  <2>2. /\ request[r] = Unsent /\ request'[r] \in PostState
        /\ \A q \in Request \ {r} : request'[q] = request[q]
        /\ \/ request'[r].stage = "adding" /\ DOMAIN request'[r].trades = {}
           \/ request'[r].stage = "sent"
        /\ request'[r].order = taker
        /\ \A o \in DOMAIN request'[r].trades :
             o \in DOMAIN book /\ request'[r].rows[o] = book[o] + request'[r].trades[o]
    BY <1>3, PostDoes
  <2>3. /\ \A q \in Request \ {r} : request[q].stage \notin Busy
        /\ \A o \in DOMAIN book : book[o] = filled[o] \/ SavingBy(r, o)
        /\ \A o \in Order : Agree(o) \/ UntoldBy(r, o)
    BY <1>1, <2>1, SerialFacts
  <2>4. \A o : ~SavingBy(r, o) /\ ~UntoldBy(r, o)
    BY <2>2, KindsDiffer DEF SavingBy, UntoldBy
  <2>5. taker \notin Posted
    <3>1. \A q \in Posts : "order" \in DOMAIN request[q]
      BY DEF Posts, PostState
    <3>2. QED
      BY <2>1, <3>1 DEF Posted, Posts
  <2>6. taker \notin DOMAIN book /\ taker \notin DOMAIN told /\ filled[taker] = 0
    BY <2>5 DEF PostedInv
  <2>7. SerialPost(request[r])'
    <3> DEFINE x == request'[r]
    <3>1. SerialPost(request[r])' <=>
            /\ x.stage = "sent" =>
                 /\ filled[x.order] = 0
                 /\ \A o \in DOMAIN x.trades : x.rows[o] = filled[o] + x.trades[o]
            /\ x.stage \in Mined => filled[x.order] = SumOf(x.trades)
            /\ x.stage = "saving" =>
                 \A o \in DOMAIN x.trades : /\ x.rows[o] = filled[o]
                                            /\ o \notin x.left => book[o] = filled[o]
            /\ x.stage \in {"sent", "saving"} => DOMAIN x.trades \subseteq DOMAIN book
            /\ x.stage \in PostStages => x.order \notin DOMAIN told
            /\ x.stage \in PostStages \ {"telling"} => x.order \notin DOMAIN book
            /\ x.stage = "telling" => x.order \in DOMAIN book
      BY <2>1 DEF SerialPost
    <3>2. \A o \in DOMAIN x.trades :
            o \in DOMAIN book /\ x.rows[o] = filled[o] + x.trades[o]
      BY <2>2, <2>3, <2>4
    <3>3. DOMAIN x.trades = {} => SumOf(x.trades) = 0
      BY <2>2, SumOfNone DEF PostState
    <3>4. /\ x.order = taker
          /\ \/ x.stage = "adding" /\ DOMAIN x.trades = {}
             \/ x.stage = "sent"
      BY <2>2
    <3> HIDE DEF x
    <3>5. CASE x.stage = "sent"
      BY <2>6, <3>1, <3>2, <3>4, <3>5 DEF Mined
    <3>6. CASE x.stage = "adding" /\ DOMAIN x.trades = {}
      BY <2>6, <3>1, <3>3, <3>4, <3>6 DEF Mined
    <3>7. QED
      BY <3>4, <3>5, <3>6
  <2>8. \A o \in DOMAIN book' : book'[o] = filled'[o] \/ SavingBy(r, o)'
    BY <2>1, <2>3, <2>4
  <2>9. \A o \in Order : Agree(o)' \/ UntoldBy(r, o)'
    BY <2>1, <2>3, <2>4 DEF Agree, Open
  <2>10. request'[r].stage # "deleted"
    BY <2>2
  <2>11. QED
    BY <2>2, <2>3, <2>7, <2>8, <2>9, <2>10, SerialStep
<1>4. ASSUME NEW r \in Request, NEW orders \in Cancelable, Cancel(r, orders)
      PROVE  SerialInv'
  <2>1. UNCHANGED <<book, told, filled>> /\ InFlight = {}
    BY <1>4 DEF Cancel
  <2>2. /\ request[r] = Unsent /\ request'[r] \in CancelState
        /\ \A q \in Request \ {r} : request'[q] = request[q]
        /\ request'[r].stage = "finding"
    BY <1>4, CancelDoes
  <2>3. /\ \A q \in Request \ {r} : request[q].stage \notin Busy
        /\ \A o \in DOMAIN book : book[o] = filled[o] \/ SavingBy(r, o)
        /\ \A o \in Order : Agree(o) \/ UntoldBy(r, o)
    BY <1>1, <2>1, SerialFacts
  <2>4. \A o : ~SavingBy(r, o) /\ ~UntoldBy(r, o)
    BY <2>2, KindsDiffer DEF SavingBy, UntoldBy
  <2>5. \A o \in DOMAIN book' : book'[o] = filled'[o] \/ SavingBy(r, o)'
    BY <2>1, <2>3, <2>4
  <2>6. \A o \in Order : Agree(o)' \/ UntoldBy(r, o)'
    BY <2>1, <2>3, <2>4 DEF Agree, Open
  <2>7. r \notin Posts' /\ request'[r].stage # "deleted"
    BY <2>2, KindsDiffer DEF Posts
  <2>8. QED
    BY <2>2, <2>3, <2>5, <2>6, <2>7, SerialStep
<1>5. ASSUME NEW r \in Posts, request[r].stage \in PostStages
      PROVE  /\ \A q \in Request \ {r} : request[q].stage \notin Busy
             /\ SerialPost(request[r])
             /\ \A o \in DOMAIN book : book[o] = filled[o] \/ SavingBy(r, o)
             /\ \A o \in Order : Agree(o) \/ UntoldBy(r, o)
  <2>1. r \in Request /\ request[r].stage \in Busy
    BY <1>5, StagesDiffer DEF Posts
  <2>2. QED
    BY <1>1, <2>1, OnlyOneInFlight, SerialFacts
<1>6. ASSUME NEW r \in Request, request[r] \in CancelState, request[r].stage \in CancelStages
      PROVE  /\ \A q \in Request \ {r} : request[q].stage \notin Busy
             /\ request[r].stage = "deleted" => request[r].cancels \cap DOMAIN book = {}
             /\ \A o \in DOMAIN book : book[o] = filled[o]
             /\ \A o \in Order :
                  Agree(o) \/ (request[r].stage = "deleted" /\ o \in request[r].cancels)
  <2>1. request[r].stage \in Busy /\ request[r].stage \notin {"saving", "telling"}
    BY <1>6, StagesDiffer DEF CancelStages
  <2>2. /\ \A q \in Request \ {r} : request[q].stage \notin Busy
        /\ request[r].stage = "deleted" => request[r].cancels \cap DOMAIN book = {}
        /\ \A o \in DOMAIN book : book[o] = filled[o] \/ SavingBy(r, o)
        /\ \A o \in Order : Agree(o) \/ UntoldBy(r, o)
    BY <1>1, <2>1, OnlyOneInFlight, SerialFacts
  <2>3. QED
    BY <2>1, <2>2 DEF SavingBy, UntoldBy
<1>7. ASSUME NEW r \in Request, Mine(r)
      PROVE  SerialInv'
  <2>1. UNCHANGED <<book, told>>
    BY <1>7 DEF Mine
  <2>2. /\ r \in Posts /\ request[r].stage = "sent"
        /\ PostGoesOn(r, "saving", request[r].left)
    BY <1>2, <1>7, AnswerDoes DEF Mine
  <2>3. /\ \A q \in Request \ {r} : request[q].stage \notin Busy
        /\ SerialPost(request[r])
        /\ \A o \in DOMAIN book : book[o] = filled[o]
        /\ \A o \in Order : Agree(o)
    BY <1>5, <2>2, StagesDiffer DEF SavingBy, UntoldBy
  <2>4. \A o \in Order : filled'[o] = filled[o] + TradedBy(r, o) /\ filled[o] \in Nat
    BY <1>7, MineFills DEF Types
  <2> DEFINE x == request[r]
             y == request'[r]
  <2>5. /\ x.order \in Order /\ SumOf(x.trades) \in Nat
        /\ \A o \in DOMAIN x.trades : o \in Order /\ x.trades[o] \in Nat
        /\ x.order \notin DOMAIN x.trades
        /\ TradedBy(r, x.order) = SumOf(x.trades)
        /\ \A o \in DOMAIN x.trades : TradedBy(r, o) = x.trades[o]
    BY <2>2, PostNumbers, TakersPart
  <2>6. x.left = DOMAIN x.trades
    BY <2>2 DEF PostInv, PostOK
  <2>7. \A o \in Order \ (DOMAIN x.trades \cup {x.order}) : TradedBy(r, o) = 0
    BY DEF TradedBy
  <2>8. /\ filled[x.order] = 0
        /\ \A o \in DOMAIN x.trades : x.rows[o] = filled[o] + x.trades[o]
        /\ DOMAIN x.trades \subseteq DOMAIN book
        /\ x.order \notin DOMAIN told /\ x.order \notin DOMAIN book
    BY <2>2, <2>3, StagesDiffer DEF SerialPost
  <2>9. /\ y.stage = "saving" /\ y.left = x.left /\ y.order = x.order
        /\ y.trades = x.trades /\ y.rows = x.rows
    BY <2>2 DEF PostGoesOn
  <2> HIDE DEF x
  <2>10. /\ filled'[x.order] = SumOf(x.trades)
         /\ \A o \in DOMAIN x.trades : x.rows[o] = filled'[o]
    BY <2>4, <2>5, <2>8
  <2>11. SerialPost(request[r])'
    BY <2>1, <2>6, <2>8, <2>9, <2>10 DEF SerialPost
  <2>12. \A o \in DOMAIN book : book[o] = filled'[o] \/ o \in x.left
    <3>1. \A o \in DOMAIN book : o \in Order
      BY AmountsType DEF Types
    <3>2. QED
      BY <2>3, <2>4, <2>6, <2>7, <2>8, <3>1
  <2>13. \A o \in Order : Agree(o)'
    BY <2>1, <2>3 DEF Agree, Open
  <2>14. QED
    BY <2>1, <2>2, <2>3, <2>11, <2>12, <2>13, SerialAfterPostStep DEF x
<1>8. ASSUME NEW r \in Request, Reject(r)
      PROVE  SerialInv'
  <2>1. UNCHANGED <<book, told, filled>>
    BY <1>8 DEF Reject
  <2>2. /\ r \in Posts /\ request[r].stage = "sent"
        /\ PostGoesOn(r, "failed", request[r].left)
    BY <1>2, <1>8, AnswerDoes DEF Reject
  <2>3. /\ \A q \in Request \ {r} : request[q].stage \notin Busy
        /\ \A o \in DOMAIN book : book[o] = filled[o]
        /\ \A o \in Order : Agree(o)
    BY <1>5, <2>2, StagesDiffer DEF SavingBy, UntoldBy
  <2>4. SerialPost(request[r])'
    BY <2>2 DEF PostGoesOn, SerialPost, Mined, PostStages
  <2>5. \A o \in Order : Agree(o)'
    BY <2>1, <2>3 DEF Agree, Open
  <2>6. QED
    BY <2>1, <2>2, <2>3, <2>4, <2>5, SerialAfterPostStep
<1>9. ASSUME NEW r \in Request, NEW p \in Order, SaveRow(r, p)
      PROVE  SerialInv'
  <2> DEFINE x == request[r]
             y == request'[r]
  <2>1. UNCHANGED <<told, filled>> /\ book' = Put(p, x.rows[p], book)
    BY <1>9 DEF SaveRow, NewRow
  <2>2. /\ r \in Posts /\ x.stage = "saving" /\ p \in x.left
        /\ PostGoesOn(r, "saving", x.left \ {p})
    BY <1>9, SaveRowDoes
  <2>3. /\ \A q \in Request \ {r} : request[q].stage \notin Busy
        /\ SerialPost(x)
        /\ \A o \in DOMAIN book : book[o] = filled[o] \/ o \in x.left
        /\ \A o \in Order : Agree(o) \/ o \in DOMAIN x.trades
    BY <1>5, <2>2, StagesDiffer DEF SavingBy, UntoldBy
  <2>4. p \in DOMAIN x.trades /\ p # x.order
    BY <2>2, TakersPart DEF PostInv, PostOK
  <2>5. /\ filled[x.order] = SumOf(x.trades)
        /\ \A o \in DOMAIN x.trades : /\ x.rows[o] = filled[o]
                                      /\ o \notin x.left => book[o] = filled[o]
        /\ DOMAIN x.trades \subseteq DOMAIN book
        /\ x.order \notin DOMAIN told /\ x.order \notin DOMAIN book
    BY <2>2, <2>3, StagesDiffer DEF SerialPost, Mined
  <2>6. /\ DOMAIN book' = DOMAIN book \cup {p} /\ book'[p] = x.rows[p]
        /\ \A o \in DOMAIN book \ {p} : book'[o] = book[o]
    BY <2>1 DEF Put, Override
  <2>7. /\ y.stage = "saving" /\ y.left = x.left \ {p} /\ y.order = x.order
        /\ y.trades = x.trades /\ y.rows = x.rows
    BY <2>2 DEF PostGoesOn
  <2>8. SerialPost(request[r])'
    BY <2>1, <2>4, <2>5, <2>6, <2>7 DEF SerialPost
  <2>9. \A o \in DOMAIN book' : book'[o] = filled'[o] \/ o \in x.left \ {p}
    BY <2>1, <2>3, <2>4, <2>5, <2>6
  <2>10. ASSUME NEW o \in Order
         PROVE  Agree(o)' \/ o \in DOMAIN x.trades
    <3>1. CASE o \notin DOMAIN x.trades
      <4>1. Agree(o) /\ o # p
        BY <2>3, <2>4, <3>1
      <4>2. /\ o \in DOMAIN book' <=> o \in DOMAIN book
            /\ o \in DOMAIN book => book'[o] = book[o]
        BY <2>6, <4>1
      <4>3. QED
        BY <2>1, <4>1, <4>2, AgreeKept
    <3>2. QED
      BY <3>1
  <2>11. QED
    BY <2>2, <2>3, <2>8, <2>9, <2>10, SerialAfterPostStep
<1>10. ASSUME NEW r \in Request, Saved(r)
       PROVE  SerialInv'
  <2> DEFINE x == request[r]
             y == request'[r]
  <2>1. UNCHANGED <<book, filled>> /\ told' = Override(x.rows, told)
    BY <1>10 DEF Saved, EmittedOrders
  <2>2. /\ r \in Posts /\ x.stage = "saving" /\ x.left = {}
        /\ PostGoesOn(r, "recording", DOMAIN x.trades \cup {x.order})
    BY <1>10, SavedDoes
  <2>3. /\ \A q \in Request \ {r} : request[q].stage \notin Busy
        /\ SerialPost(x)
        /\ \A o \in DOMAIN book : book[o] = filled[o]
        /\ \A o \in Order : Agree(o) \/ o \in DOMAIN x.trades
    BY <1>5, <2>2, StagesDiffer DEF SavingBy, UntoldBy
  <2>4. x.order \notin DOMAIN x.trades /\ DOMAIN x.rows = DOMAIN x.trades
    BY <2>2, TakersPart DEF PostInv, PostOK
  <2>5. /\ filled[x.order] = SumOf(x.trades)
        /\ \A o \in DOMAIN x.trades : x.rows[o] = filled[o] /\ book[o] = filled[o]
        /\ DOMAIN x.trades \subseteq DOMAIN book
        /\ x.order \notin DOMAIN told /\ x.order \notin DOMAIN book
    BY <2>2, <2>3, StagesDiffer DEF SerialPost, Mined
  <2>6. /\ DOMAIN told' = DOMAIN x.trades \cup DOMAIN told
        /\ \A o \in DOMAIN x.trades : told'[o] = x.rows[o]
        /\ \A o \in DOMAIN told \ DOMAIN x.trades : told'[o] = told[o]
    BY <2>1, <2>4 DEF Override
  <2>7. /\ y.stage = "recording" /\ y.order = x.order
        /\ y.trades = x.trades /\ y.rows = x.rows
    BY <2>2 DEF PostGoesOn
  <2>8. SerialPost(request[r])'
    BY <2>1, <2>4, <2>5, <2>6, <2>7 DEF SerialPost
  <2>9. ASSUME NEW o \in Order
        PROVE  Agree(o)'
    <3>1. CASE o \in DOMAIN x.trades
      <4>1. /\ o \in DOMAIN told' /\ o \in DOMAIN book' /\ told'[o] = book'[o]
        BY <2>1, <2>5, <2>6, <3>1
      <4>2. QED
        BY <4>1 DEF Agree, Open
    <3>2. CASE o \notin DOMAIN x.trades
      <4>1. Agree(o)
        BY <2>3, <3>2
      <4>2. /\ o \in DOMAIN told' <=> o \in DOMAIN told
            /\ o \in DOMAIN told => told'[o] = told[o]
        BY <2>6, <3>2
      <4>3. QED
        BY <2>1, <4>1, <4>2, AgreeKept
    <3>3. QED
      BY <3>1, <3>2
  <2>10. QED
    BY <2>1, <2>2, <2>3, <2>8, <2>9, SerialAfterPostStep
<1>11. ASSUME NEW r \in Posts, NEW stage \in {"recording", "adding"}, NEW left,
              request[r].stage = "recording", PostGoesOn(r, stage, left),
              UNCHANGED <<book, told, filled>>
       PROVE  SerialInv'
  <2>1. /\ \A q \in Request \ {r} : request[q].stage \notin Busy
        /\ SerialPost(request[r])
        /\ \A o \in DOMAIN book : book[o] = filled[o]
        /\ \A o \in Order : Agree(o)
    BY <1>5, <1>11, StagesDiffer DEF SavingBy, UntoldBy
  <2>2. /\ request'[r].stage = stage /\ request'[r].order = request[r].order
        /\ request'[r].trades = request[r].trades /\ request'[r].rows = request[r].rows
    BY <1>11 DEF PostGoesOn
  <2>3. SerialPost(request[r])'
    BY <1>11, <2>1, <2>2 DEF SerialPost, Mined, PostStages
  <2>4. \A o \in Order : Agree(o)'
    BY <1>11, <2>1 DEF Agree, Open
  <2>5. QED
    BY <1>11, <2>1, <2>3, <2>4, SerialAfterPostStep
<1>12. ASSUME NEW r \in Request, NEW o \in Order, RecordTrade(r, o)
       PROVE  SerialInv'
  BY <1>11, <1>12, RecordTradeDoes DEF RecordTrade
<1>13. ASSUME NEW r \in Request, Recorded(r)
       PROVE  SerialInv'
  BY <1>11, <1>13, RecordedDoes DEF Recorded
<1>14. ASSUME NEW r \in Request, AddOrder(r)
       PROVE  SerialInv'
  <2> DEFINE x == request[r]
             y == request'[r]
             fill == SumOf(x.trades)
  <2>1. UNCHANGED <<told, filled>> /\ book' = Put(x.order, fill, book)
    BY <1>14 DEF AddOrder
  <2>2. /\ r \in Posts /\ x.stage = "adding" /\ PostGoesOn(r, "telling", x.left)
    BY <1>14, AddOrderDoes
  <2>3. /\ \A q \in Request \ {r} : request[q].stage \notin Busy
        /\ SerialPost(x)
        /\ \A o \in DOMAIN book : book[o] = filled[o]
        /\ \A o \in Order : Agree(o)
    BY <1>5, <2>2, StagesDiffer DEF SavingBy, UntoldBy
  <2>4. /\ filled[x.order] = fill /\ x.order \notin DOMAIN told
    BY <2>2, <2>3, StagesDiffer DEF SerialPost, Mined
  <2>5. /\ DOMAIN book' = DOMAIN book \cup {x.order} /\ book'[x.order] = fill
        /\ \A o \in DOMAIN book \ {x.order} : book'[o] = book[o]
    BY <2>1 DEF Put, Override
  <2>6. y.stage = "telling" /\ y.order = x.order /\ y.trades = x.trades
    BY <2>2 DEF PostGoesOn
  <2>7. SerialPost(request[r])'
    BY <2>1, <2>4, <2>5, <2>6 DEF SerialPost
  <2>8. \A o \in DOMAIN book' : book'[o] = filled'[o]
    BY <2>1, <2>3, <2>4, <2>5
  <2>9. ASSUME NEW o \in Order
        PROVE  Agree(o)' \/ o = x.order
    <3>1. CASE o # x.order
      <4>1. /\ o \in DOMAIN book' <=> o \in DOMAIN book
            /\ o \in DOMAIN book => book'[o] = book[o]
        BY <2>5, <3>1
      <4>2. Agree(o)
        BY <2>3
      <4>3. QED
        BY <2>1, <4>1, <4>2, AgreeKept
    <3>2. QED
      BY <3>1
  <2>10. QED
    BY <2>2, <2>3, <2>7, <2>8, <2>9, SerialAfterPostStep
<1>15. ASSUME NEW r \in Request, TellOrder(r)
       PROVE  SerialInv'
  <2> DEFINE x == request[r]
             y == request'[r]
             fill == SumOf(x.trades)
  <2>1. /\ UNCHANGED <<book, filled>>
        /\ told' = IF fill < Terms[x.order].amount THEN Put(x.order, fill, told) ELSE told
    BY <1>15 DEF TellOrder
  <2>2. /\ r \in Posts /\ x.stage = "telling" /\ PostGoesOn(r, "done", x.left)
    BY <1>15, TellOrderDoes
  <2>3. /\ \A q \in Request \ {r} : request[q].stage \notin Busy
        /\ SerialPost(x)
        /\ \A o \in DOMAIN book : book[o] = filled[o]
        /\ \A o \in Order : Agree(o) \/ o = x.order
    BY <1>5, <2>2, StagesDiffer DEF SavingBy, UntoldBy
  <2>4. /\ filled[x.order] = fill /\ x.order \notin DOMAIN told /\ x.order \in DOMAIN book
    BY <2>2, <2>3, StagesDiffer DEF SerialPost, Mined
  <2>5. book[x.order] = fill
    BY <2>3, <2>4
  <2>6. y.stage = "done"
    BY <2>2 DEF PostGoesOn
  <2>7. SerialPost(request[r])'
    BY <2>6 DEF SerialPost, Mined, PostStages
  <2>8. \A o \in DOMAIN book' : book'[o] = filled'[o]
    BY <2>1, <2>3
  <2>9. ASSUME NEW o \in Order, o = x.order
        PROVE  Agree(o)'
    <3>1. CASE fill < Terms[o].amount
      <4>1. o \in DOMAIN told' /\ told'[o] = fill
        BY <2>1, <2>9, <3>1 DEF Put, Override
      <4>2. QED
        BY <2>1, <2>4, <2>5, <2>9, <4>1 DEF Agree, Open
    <3>2. CASE ~ (fill < Terms[o].amount)
      BY <2>1, <2>4, <2>5, <2>9, <3>2 DEF Agree, Open
    <3>3. QED
      BY <3>1, <3>2
  <2>10. ASSUME NEW o \in Order, o # x.order
         PROVE  Agree(o)'
    <3>1. Agree(o)
      BY <2>3, <2>10
    <3>2. /\ o \in DOMAIN told' <=> o \in DOMAIN told
          /\ o \in DOMAIN told => told'[o] = told[o]
      BY <2>1, <2>10 DEF Put, Override
    <3>3. QED
      BY <2>1, <3>1, <3>2, AgreeKept
  <2>11. QED
    BY <2>2, <2>3, <2>7, <2>8, <2>9, <2>10, SerialAfterPostStep
<1>16. ASSUME NEW r \in Request, DeleteRows(r)
       PROVE  SerialInv'
  <2> DEFINE gone == request[r].cancels
  <2>1. /\ UNCHANGED <<told, filled>>
        /\ DOMAIN book' = DOMAIN book \ gone
        /\ \A o \in DOMAIN book \ gone : book'[o] = book[o]
    BY <1>16 DEF DeleteRows, Without
  <2>2. /\ request[r].stage = "deleting" /\ request[r] \in CancelState
        /\ CancelGoesOn(r, "deleted", request[r].left)
    BY <1>16, DeleteRowsDoes
  <2>3. /\ \A q \in Request \ {r} : request[q].stage \notin Busy
        /\ \A o \in DOMAIN book : book[o] = filled[o]
        /\ \A o \in Order : Agree(o)
    BY <1>6, <2>2, StagesDiffer
  <2>4. gone \cap DOMAIN book' = {} /\ \A o \in DOMAIN book' : book'[o] = filled'[o]
    BY <2>1, <2>3
  <2>5. ASSUME NEW o \in Order, o \notin gone
        PROVE  Agree(o)'
    <3>1. /\ o \in DOMAIN book' <=> o \in DOMAIN book
          /\ o \in DOMAIN book => book'[o] = book[o]
      BY <2>1, <2>5
    <3>2. Agree(o)
      BY <2>3
    <3>3. QED
      BY <2>1, <3>1, <3>2, AgreeKept
  <2>6. QED
    BY <2>2, <2>3, <2>4, <2>5, SerialAfterCancelStep
<1>17. ASSUME NEW r \in Request, TellCanceled(r)
       PROVE  SerialInv'
  <2> DEFINE gone == request[r].cancels
  <2>1. /\ UNCHANGED <<book, filled>>
        /\ DOMAIN told' = gone \cup DOMAIN told
        /\ \A o \in gone : told'[o] = Terms[o].amount
        /\ \A o \in DOMAIN told \ gone : told'[o] = told[o]
    BY <1>17 DEF TellCanceled, CanceledOrders, Override
  <2>2. /\ request[r].stage = "deleted" /\ request[r] \in CancelState
        /\ CancelGoesOn(r, "canceled", request[r].left)
    BY <1>17, TellCanceledDoes
  <2>3. /\ \A q \in Request \ {r} : request[q].stage \notin Busy
        /\ gone \cap DOMAIN book = {}
        /\ \A o \in DOMAIN book : book[o] = filled[o]
        /\ \A o \in Order : Agree(o) \/ o \in gone
    BY <1>6, <2>2, StagesDiffer
  <2>4. \A o \in DOMAIN book' : book'[o] = filled'[o]
    BY <2>1, <2>3
  <2>5. ASSUME NEW o \in Order
        PROVE  Agree(o)'
    <3>1. CASE o \in gone
      <4>1. o \notin DOMAIN book' /\ told'[o] = Terms[o].amount /\ Terms[o].amount \in Nat
        BY <2>1, <2>3, <3>1
      <4>2. QED
        BY <4>1 DEF Agree, Open
    <3>2. CASE o \notin gone
      <4>1. Agree(o)
        BY <2>3, <3>2
      <4>2. /\ o \in DOMAIN told' <=> o \in DOMAIN told
            /\ o \in DOMAIN told => told'[o] = told[o]
        BY <2>1, <3>2
      <4>3. QED
        BY <2>1, <4>1, <4>2, AgreeKept
    <3>3. QED
      BY <3>1, <3>2
  <2>6. QED
    BY <2>2, <2>3, <2>4, <2>5, SerialAfterCancelStep
<1>18. ASSUME NEW r \in Request, NEW o \in Order, FindRow(r, o)
       PROVE  SerialInv'
  <2>1. UNCHANGED <<book, told, filled>>
    BY <1>18 DEF FindRow
  <2>2. request[r].stage = "finding" /\ request[r] \in CancelState
    BY <1>18, FindRowDoes
  <2>3. PICK stage \in {"cancelFailed", "deleting", "finding"} :
          CancelGoesOn(r, stage, request[r].left \ {o})
    BY <1>18, FindRowDoes
  <2>4. /\ \A q \in Request \ {r} : request[q].stage \notin Busy
        /\ \A p \in DOMAIN book : book[p] = filled[p]
        /\ \A p \in Order : Agree(p)
    BY <1>6, <2>2, StagesDiffer
  <2>5. \A p \in Order : Agree(p)'
    BY <2>1, <2>4 DEF Agree, Open
  <2>6. stage # "deleted" /\ \A p \in DOMAIN book' : book'[p] = filled'[p]
    BY <2>1, <2>4
  <2>7. QED
    BY <2>3, <2>4, <2>5, <2>6, SerialAfterCancelStep
<1>19. CASE Crash
  BY <1>19 DEF Crash
<1>20. ASSUME UNCHANGED <<book, told, filled, request, serial>>
       PROVE  SerialInv'
  BY <1>20 DEF SerialInv, SerialPost, Posts, InFlight, SavingBy, UntoldBy, Agree, Open
<1>21. QED
  BY <1>3, <1>4, <1>7, <1>8, <1>9, <1>10, <1>12, <1>13, <1>14, <1>15, <1>16, <1>17, <1>18,
     <1>19, <1>20 DEF Next, vars, Tick

-----------------------------------------------------------------------------
(* In step.                                                                *)

ServiceInv == BookInv /\ PostedInv /\ SerialInv

LEMMA ServiceInvariant == Spec => []ServiceInv
<1>1. Init => ServiceInv
  <2> SUFFICES ASSUME Init PROVE ServiceInv
    OBVIOUS
  <2>1. BookInv
    BY InitBookInv
  <2>2. Posts = {} /\ \A r \in Request : request[r].stage = "unsent"
    BY KindsDiffer DEF Init, Posts
  <2>3. DOMAIN book = {} /\ DOMAIN told = {} /\ \A o \in Order : filled[o] = 0
    BY DEF Init
  <2>4. PostedInv
    BY <2>2, <2>3 DEF PostedInv, CancelPosted
  <2>5. InFlight = {}
    BY <2>2 DEF InFlight, Busy, PostStages, CancelStages
  <2>6. \A o \in Order : Agree(o)
    BY <2>3 DEF Agree, Open
  <2>7. SerialInv
    BY <2>2, <2>3, <2>5, <2>6 DEF SerialInv
  <2>8. QED
    BY <2>1, <2>4, <2>7 DEF ServiceInv
<1>2. ServiceInv /\ [Next]_vars => ServiceInv'
  BY NextTypes, NextPostInv, NextBehind, NextHistory, NextFlat, NextPosted, NextSerial
     DEF ServiceInv, BookInv
<1>3. QED
  BY <1>1, <1>2, PTL DEF Spec

\* After requests that came one at a time, the book, the history, the events and the
\* chain all tell the same.
THEOREM StaysInStep == Spec => []InStep
<1>1. ServiceInv => InStep
  <2> SUFFICES ASSUME ServiceInv, serial, Quiet
               PROVE  /\ \A o \in DOMAIN book : book[o] = filled[o]
                      /\ history = filled
                      /\ Open(told) = Open(book)
                      /\ \A o \in Open(book) : told[o] = book[o]
    BY DEF InStep, Open
  <2>1. Types /\ HistoryInv /\ SerialInv
    BY DEF ServiceInv, BookInv
  <2>2. \A r \in Request :
          request[r].stage \notin {"saving", "recording", "telling", "deleted"}
    BY DEF Quiet, InFlight, Busy, PostStages, CancelStages
  <2>3. \A r \in Request : \A o : ~SavingBy(r, o) /\ ~UntoldBy(r, o)
    BY <2>2 DEF SavingBy, UntoldBy
  <2>4. /\ \A o \in DOMAIN book : book[o] = filled[o]
        /\ \A o \in Order : Agree(o)
    BY <2>1, <2>3 DEF SerialInv
  <2>5. ASSUME NEW o \in Order
        PROVE  history[o] = filled[o]
    <3> DEFINE f == [r \in Request |-> Unrecorded(r, o)]
    <3>1. \A r \in Request : f[r] = 0
      BY <2>2 DEF Unrecorded
    <3> HIDE DEF f
    <3>2. SumFunctionOnSet(f, Request) = 0
      BY ONLY <3>1, IsFiniteSet(Request), SumOfZeros
    <3>3. AllUnrecorded(o) = 0
      BY <3>2 DEF AllUnrecorded, f
    <3>4. history[o] + AllUnrecorded(o) = filled[o] /\ history[o] \in Nat
      BY <2>1 DEF HistoryInv, Types
    <3>5. QED
      BY <3>3, <3>4
  <2>6. history = filled
    BY <2>1, <2>5 DEF Types
  <2>7. DOMAIN book \subseteq Order /\ DOMAIN told \subseteq Order
    BY <2>1, AmountsType DEF Types
  <2>8. Open(told) = Open(book) /\ \A o \in Open(book) : told[o] = book[o]
    BY <2>4, <2>7 DEF Agree, Open
  <2>9. QED
    BY <2>4, <2>6, <2>8
<1>2. QED
  BY ServiceInvariant, <1>1, PTL

-----------------------------------------------------------------------------
(* Serving the orders of a list one after the other, cheapest first.       *)

IsStrictOrder(before, S) ==
    /\ \A a \in S : <<a, a>> \notin before
    /\ \A a, b, c \in S : <<a, b>> \in before /\ <<b, c>> \in before => <<a, c>> \in before
    /\ \A a, b \in S : a = b \/ <<a, b>> \in before \/ <<b, a>> \in before

LEMMA LastOne ==
    ASSUME NEW S, IsFiniteSet(S), NEW before, IsStrictOrder(before, S)
    PROVE  \A T \in SUBSET S : T # {} => \E x \in T : \A y \in T \ {x} : <<y, x>> \in before
<1> DEFINE P == {T \in SUBSET S :
                   T # {} => \E x \in T : \A y \in T \ {x} : <<y, x>> \in before}
<1>1. {} \in P
  OBVIOUS
<1>2. ASSUME NEW T \in SUBSET S, T # {}, \A x \in T : T \ {x} \in P
      PROVE  T \in P
  <2>1. PICK z \in T : TRUE
    BY <1>2
  <2>2. CASE T \ {z} = {}
    BY <2>1, <2>2
  <2>3. CASE T \ {z} # {}
    <3>1. PICK x \in T \ {z} : \A y \in (T \ {z}) \ {x} : <<y, x>> \in before
      BY <1>2, <2>3
    <3>2. x \in S /\ z \in S /\ x # z
      OBVIOUS
    <3>3. CASE <<z, x>> \in before
      BY <3>1, <3>3
    <3>4. CASE <<x, z>> \in before
      <4>1. ASSUME NEW y \in T \ {z}
            PROVE  <<y, z>> \in before
        <5>1. y \in S /\ (y = x \/ <<y, x>> \in before)
          BY <3>1
        <5>2. QED
          BY <3>2, <3>4, <5>1 DEF IsStrictOrder
      <4>2. QED
        BY <4>1
    <3>5. QED
      BY <3>2, <3>3, <3>4 DEF IsStrictOrder
  <2>4. QED
    BY <2>2, <2>3
<1>3. \A T \in SUBSET S : T \in P
  <2> HIDE DEF P
  <2>1. QED
    BY <1>1, <1>2, SubsetInduction
<1>4. QED
  BY <1>3

\* Read backwards, the order has a last element too, which is its first.
LEMMA FirstOne ==
    ASSUME NEW S, IsFiniteSet(S), NEW before, IsStrictOrder(before, S)
    PROVE  \A T \in SUBSET S : T # {} => \E x \in T : \A y \in T \ {x} : <<x, y>> \in before
<1> DEFINE after == {w \in S \X S : <<w[2], w[1]>> \in before}
<1>1. \A a, b \in S : <<a, b>> \in after <=> <<b, a>> \in before
  OBVIOUS
<1> HIDE DEF after
<1>2. IsStrictOrder(after, S)
  BY <1>1 DEF IsStrictOrder
<1>3. \A T \in SUBSET S : T # {} => \E x \in T : \A y \in T \ {x} : <<y, x>> \in after
  BY <1>2, LastOne
<1>4. QED
  BY <1>1, <1>3

\* Who comes before o.
Earlier(before, S, o) == {p \in S : <<p, o>> \in before}

\* Each gets what it has left, or what those before it leave of the amount.
IsGreedy(t, left, amount, before, S) ==
    \A o \in S :
      t[o] = LET rest == amount - SumFunctionOnSet(left, Earlier(before, S, o))
             IN  IF rest <= 0 THEN 0 ELSE IF left[o] < rest THEN left[o] ELSE rest

LEMMA GreedyType ==
    ASSUME NEW S, IsFiniteSet(S), NEW before, NEW left, \A o \in S : left[o] \in Nat,
           NEW amount \in Nat, NEW t, IsGreedy(t, left, amount, before, S)
    PROVE  \A o \in S : /\ t[o] \in Nat /\ t[o] <= left[o]
                        /\ SumFunctionOnSet(left, Earlier(before, S, o)) \in Nat
<1> SUFFICES ASSUME NEW o \in S
             PROVE  /\ t[o] \in Nat /\ t[o] <= left[o]
                    /\ SumFunctionOnSet(left, Earlier(before, S, o)) \in Nat
  OBVIOUS
<1> DEFINE T == Earlier(before, S, o)
<1>1. T \in SUBSET S
  BY DEF Earlier
<1> HIDE DEF T
<1>2. IsFiniteSet(T) /\ \A x \in T : left[x] \in Nat
  BY <1>1, FS_Subset
<1>3. SumFunctionOnSet(left, T) \in Nat
  BY <1>2, SumOfNats
<1>4. t[o] = LET rest == amount - SumFunctionOnSet(left, T)
             IN  IF rest <= 0 THEN 0 ELSE IF left[o] < rest THEN left[o] ELSE rest
  BY DEF IsGreedy, T
<1>5. left[o] \in Nat
  OBVIOUS
<1>6. QED
  BY <1>3, <1>4, <1>5 DEF T

\* Together they get the amount, or all there is.
LEMMA GreedyTotal ==
    ASSUME NEW S, IsFiniteSet(S), NEW before, IsStrictOrder(before, S),
           NEW left, \A o \in S : left[o] \in Nat,
           NEW amount \in Nat, NEW t, IsGreedy(t, left, amount, before, S)
    PROVE  SumFunctionOnSet(t, S) = IF SumFunctionOnSet(left, S) < amount
                                    THEN SumFunctionOnSet(left, S) ELSE amount
<1> DEFINE L(T) == SumFunctionOnSet(left, T)
           G(T) == SumFunctionOnSet(t, T)
           Down(T) == \A x \in T : Earlier(before, S, x) \subseteq T
           P == {T \in SUBSET S :
                   Down(T) => G(T) = IF L(T) < amount THEN L(T) ELSE amount}
<1>1. /\ \A o \in S : t[o] \in Int
      /\ \A o \in S : left[o] \in Int
  <2>1. \A o \in S : t[o] \in Nat /\ left[o] \in Nat
    BY GreedyType
  <2>2. QED
    BY <2>1
<1> HIDE DEF L, G
<1>2. {} \in P
  BY SumOfNothing DEF L, G
<1>3. \A T \in SUBSET S : L(T) \in Nat
  <2>1. SUFFICES ASSUME NEW T \in SUBSET S
                 PROVE  L(T) \in Nat
    OBVIOUS
  <2>2. IsFiniteSet(T) /\ \A x \in T : left[x] \in Nat
    BY FS_Subset
  <2>3. QED
    BY <2>2, SumOfNats DEF L
<1>4. ASSUME NEW T \in SUBSET S, T # {}, \A x \in T : T \ {x} \in P
      PROVE  T \in P
  <2>1. SUFFICES ASSUME Down(T)
                 PROVE  G(T) = IF L(T) < amount THEN L(T) ELSE amount
    OBVIOUS
  <2>2. PICK x \in T : \A y \in T \ {x} : <<y, x>> \in before
    BY <1>4, LastOne
  <2>3. Earlier(before, S, x) = T \ {x}
    <3>1. \A y \in T \ {x} : y \in Earlier(before, S, x)
      BY <2>2 DEF Earlier
    <3>2. Earlier(before, S, x) \subseteq T /\ x \notin Earlier(before, S, x)
      BY <2>1 DEF Earlier, IsStrictOrder
    <3>3. QED
      BY <3>1, <3>2
  <2>4. Down(T \ {x})
    <3>1. SUFFICES ASSUME NEW y \in T \ {x}, NEW p \in Earlier(before, S, y)
                   PROVE  p \in T \ {x}
      OBVIOUS
    <3>2. p \in T /\ <<p, y>> \in before /\ <<y, x>> \in before
      BY <2>1, <2>2 DEF Earlier
    <3>3. p # x
      BY <3>2 DEF IsStrictOrder
    <3>4. QED
      BY <3>2, <3>3
  <2>5. G(T \ {x}) = IF L(T \ {x}) < amount THEN L(T \ {x}) ELSE amount
    BY <1>4, <2>4
  <2>6. t[x] = LET rest == amount - L(T \ {x})
               IN  IF rest <= 0 THEN 0 ELSE IF left[x] < rest THEN left[x] ELSE rest
    BY <2>3 DEF IsGreedy, L
  <2>7. L(T) = left[x] + L(T \ {x})
    BY <1>1, SumRemove DEF L
  <2>8. G(T) = t[x] + G(T \ {x})
    <3>1. \A o \in S : t[o] \in Int
      BY <1>1
    <3>2. QED
      BY <3>1, SumRemove DEF G
  <2>9. L(T \ {x}) \in Nat /\ left[x] \in Nat
    <3>1. T \ {x} \in SUBSET S
      OBVIOUS
    <3>2. QED
      BY <1>3, <3>1
  <2>10. QED
    BY ONLY <2>5, <2>6, <2>7, <2>8, <2>9, amount \in Nat
<1>5. \A T \in SUBSET S : T \in P
  <2> HIDE DEF P
  <2>1. QED
    BY <1>2, <1>4, SubsetInduction
<1>6. Down(S)
  BY DEF Earlier
<1>7. QED
  BY <1>5, <1>6 DEF L, G

\* There is a price that splits the list: who asks for less gets all it has left, who
\* asks for more gets nothing.
LEMMA GreedyPrice ==
    ASSUME NEW S, IsFiniteSet(S), S # {}, NEW before, IsStrictOrder(before, S),
           NEW left, \A o \in S : left[o] \in Nat,
           NEW amount \in Nat, NEW t, IsGreedy(t, left, amount, before, S),
           NEW price, \A o \in S : price[o] \in Int,
           \A a, b \in S : <<a, b>> \in before => price[a] <= price[b]
    PROVE  \E split \in Int : \A o \in S : /\ price[o] < split => t[o] = left[o]
                                           /\ price[o] > split => t[o] = 0
<1> DEFINE L(T) == SumFunctionOnSet(left, T)
           more == {o \in S : t[o] # left[o]}
<1>1. CASE more = {}
  <2>1. PICK x \in S : \A y \in S \ {x} : <<y, x>> \in before
    BY LastOne
  <2>2. ASSUME NEW y \in S
        PROVE  price[y] <= price[x]
    <3>1. CASE y = x
      BY <3>1
    <3>2. CASE y # x
      BY <2>1, <3>2
    <3>3. QED
      BY <3>1, <3>2
  <2>3. QED
    BY <1>1, <2>2
<1>2. CASE more # {}
  <2>10. more \in SUBSET S
    OBVIOUS
  <2> HIDE DEF more
  <2>1. PICK x \in more : \A y \in more \ {x} : <<x, y>> \in before
    BY <1>2, <2>10, FirstOne
  <2>11. x \in S /\ t[x] # left[x]
    BY <2>10 DEF more
  <2>2. ASSUME NEW o \in S, price[o] < price[x]
        PROVE  t[o] = left[o]
    <3>1. SUFFICES ASSUME t[o] # left[o]
                   PROVE  FALSE
      OBVIOUS
    <3>2. o \in more \ {x}
      BY <2>2, <2>11, <3>1 DEF more
    <3>3. price[x] <= price[o] /\ price[x] \in Int /\ price[o] \in Int
      BY <2>1, <2>11, <3>2
    <3>4. QED
      BY <2>2, <3>3
  <2>3. ASSUME NEW o \in S, price[o] > price[x]
        PROVE  t[o] = 0
    <3>1. <<x, o>> \in before
      <4>1. price[x] \in Int /\ price[o] \in Int /\ ~ (price[o] <= price[x])
        BY <2>3, <2>11
      <4>2. o # x /\ <<o, x>> \notin before
        BY <2>11, <4>1
      <4>3. QED
        BY <2>11, <4>2 DEF IsStrictOrder
    <3>2. Earlier(before, S, x) \in SUBSET S /\ x \in S /\ x \notin Earlier(before, S, x)
      BY <2>11 DEF Earlier, IsStrictOrder
    <3>3. Earlier(before, S, x) \cup {x} \in SUBSET Earlier(before, S, o)
      <4>1. \A p \in Earlier(before, S, x) : p \in S /\ <<p, o>> \in before
        BY <2>11, <3>1 DEF Earlier, IsStrictOrder
      <4>2. QED
        BY <2>11, <3>1, <4>1 DEF Earlier
    <3>4. IsFiniteSet(Earlier(before, S, o)) /\ IsFiniteSet(Earlier(before, S, x) \cup {x})
      <4>1. Earlier(before, S, o) \in SUBSET S
        BY DEF Earlier
      <4>2. Earlier(before, S, x) \cup {x} \in SUBSET S
        BY <3>2
      <4>3. QED
        BY <4>1, <4>2, FS_Subset
    <3>5. /\ L(Earlier(before, S, x) \cup {x}) <= L(Earlier(before, S, o))
      <4>1. \A p \in Earlier(before, S, o) : left[p] \in Nat
        BY DEF Earlier
      <4>2. QED
        BY ONLY <3>3, <3>4, <4>1, SumOfPart
    <3>6. L(Earlier(before, S, x) \cup {x}) = left[x] + L(Earlier(before, S, x))
      <4>1. (Earlier(before, S, x) \cup {x}) \ {x} = Earlier(before, S, x)
        BY <3>2
      <4>2. \A p \in Earlier(before, S, x) \cup {x} : left[p] \in Int
        BY <3>2
      <4>3. x \in Earlier(before, S, x) \cup {x}
        OBVIOUS
      <4> DEFINE T == Earlier(before, S, x) \cup {x}
      <4> HIDE DEF T
      <4>4. SumFunctionOnSet(left, T) = left[x] + SumFunctionOnSet(left, T \ {x})
        <5>1. IsFiniteSet(T) /\ (\A p \in T : left[p] \in Int) /\ x \in T /\ T \in SUBSET T
          BY <3>4, <4>2 DEF T
        <5>2. QED
          BY ONLY <5>1, SumRemove
      <4>5. QED
        BY <4>1, <4>4 DEF T
    <3>7. /\ t[x] # left[x] /\ left[x] \in Nat
          /\ L(Earlier(before, S, x)) \in Nat /\ L(Earlier(before, S, o)) \in Nat
      <4>1. \A p \in S : SumFunctionOnSet(left, Earlier(before, S, p)) \in Nat
        BY GreedyType
      <4>2. left[x] \in Nat
        BY <2>11
      <4>3. QED
        BY <2>11, <4>1, <4>2
    <3>8. t[x] = LET rest == amount - L(Earlier(before, S, x))
                 IN  IF rest <= 0 THEN 0 ELSE IF left[x] < rest THEN left[x] ELSE rest
      BY <3>2 DEF IsGreedy
    <3>9. t[o] = LET rest == amount - L(Earlier(before, S, o))
                 IN  IF rest <= 0 THEN 0 ELSE IF left[o] < rest THEN left[o] ELSE rest
      BY DEF IsGreedy
    <3> HIDE DEF L
    <3>10. amount - L(Earlier(before, S, o)) <= 0
      BY ONLY <3>5, <3>6, <3>7, <3>8, amount \in Nat
    <3>11. QED
      BY <3>9, <3>10
  <2>4. price[x] \in Int
    BY <2>11
  <2>5. QED
    BY <2>2, <2>3, <2>4
<1>3. QED
  BY <1>1, <1>2

\* No other choice of as many costs less: against the splitting price, what another
\* choice takes more of is no cheaper, and what it takes less of no dearer.
LEMMA GreedyBest ==
    ASSUME NEW S, IsFiniteSet(S), S # {}, NEW before, IsStrictOrder(before, S),
           NEW left, \A o \in S : left[o] \in Nat,
           NEW amount \in Nat, NEW t, IsGreedy(t, left, amount, before, S),
           NEW price, \A o \in S : price[o] \in Int,
           \A a, b \in S : <<a, b>> \in before => price[a] <= price[b],
           NEW f, \A o \in S : f[o] \in Nat /\ f[o] <= left[o],
           SumFunctionOnSet(f, S) = SumFunctionOnSet(t, S),
           NEW tCost, \A o \in S : tCost[o] = t[o] * price[o],
           NEW fCost, \A o \in S : fCost[o] = f[o] * price[o]
    PROVE  SumFunctionOnSet(tCost, S) <= SumFunctionOnSet(fCost, S)
<1>1. PICK split \in Int : \A o \in S : /\ price[o] < split => t[o] = left[o]
                                        /\ price[o] > split => t[o] = 0
  BY GreedyPrice
<1>2. \A o \in S : t[o] \in Nat /\ t[o] <= left[o]
  BY GreedyType
<1> DEFINE g == [o \in S |-> tCost[o] + split * f[o]]
           h == [o \in S |-> fCost[o] + split * t[o]]
<1>3. ASSUME NEW o \in S
      PROVE  /\ tCost[o] \in Int /\ fCost[o] \in Int /\ f[o] \in Int /\ t[o] \in Int
             /\ g[o] \in Int /\ h[o] \in Int /\ g[o] <= h[o]
  <2>1. PICK p \in Int, a \in Nat, b \in Nat, c \in Nat :
          p = price[o] /\ a = t[o] /\ b = f[o] /\ c = left[o]
    BY <1>2
  <2>2. /\ p < split => a = c
        /\ p > split => a = 0
        /\ b <= c
    BY <1>1, <2>1
  <2>3. (b - a) * (p - split) >= 0
    <3>1. \A x, y \in Int : /\ x <= 0 /\ y <= 0 => x * y >= 0
                            /\ x >= 0 /\ y >= 0 => x * y >= 0
      BY Z3
    <3>2. PICK x \in Int, y \in Int : x = b - a /\ y = p - split
      OBVIOUS
    <3>3. \/ x <= 0 /\ y <= 0
          \/ x >= 0 /\ y >= 0
      BY <2>2, <3>2
    <3>4. QED
      BY <3>1, <3>2, <3>3
  <2>4. (b - a) * (p - split) = (b * p + split * a) - (a * p + split * b)
    OBVIOUS
  <2>5. /\ tCost[o] = a * p /\ fCost[o] = b * p
        /\ g[o] = a * p + split * b
        /\ h[o] = b * p + split * a
    BY <2>1
  <2>6. QED
    BY <2>1, <2>3, <2>4, <2>5
<1> HIDE DEF g, h
<1>4. SumFunctionOnSet(g, S) <= SumFunctionOnSet(h, S)
  <2>1. \A o \in S : g[o] \in Int /\ h[o] \in Int /\ g[o] <= h[o]
    BY <1>3
  <2>2. QED
    BY <2>1, SumMonotone
<1>5. SumFunctionOnSet(g, S) = SumFunctionOnSet(tCost, S) + split * SumFunctionOnSet(f, S)
  <2>1. \A o \in S : tCost[o] \in Int /\ f[o] \in Int /\ g[o] = tCost[o] + split * f[o]
    BY <1>3 DEF g
  <2>2. QED
    BY <2>1, SumLinear
<1>6. SumFunctionOnSet(h, S) = SumFunctionOnSet(fCost, S) + split * SumFunctionOnSet(t, S)
  <2>1. \A o \in S : fCost[o] \in Int /\ t[o] \in Int /\ h[o] = fCost[o] + split * t[o]
    BY <1>3 DEF h
  <2>2. QED
    BY <2>1, SumLinear
<1>7. /\ SumFunctionOnSet(tCost, S) \in Int /\ SumFunctionOnSet(fCost, S) \in Int
      /\ SumFunctionOnSet(f, S) \in Int
  <2>1. S \in SUBSET S
    OBVIOUS
  <2>2. /\ \A o \in S : tCost[o] \in Int
        /\ \A o \in S : fCost[o] \in Int
        /\ \A o \in S : f[o] \in Int
    BY <1>3
  <2>3. QED
    BY <2>1, <2>2, SumType
<1>8. PICK m \in Int : m = split * SumFunctionOnSet(f, S)
  BY <1>7
<1>9. QED
  BY <1>4, <1>5, <1>6, <1>7, <1>8

\* Zero and the members of a finite set's image have a greatest among them.
LEMMA MaxOfImage ==
    ASSUME NEW S, IsFiniteSet(S), NEW f, \A o \in S : f[o] \in Int
    PROVE  Max({0} \cup {f[o] : o \in S}) \in Int
<1> DEFINE Img(T) == {0} \cup {f[o] : o \in T}
           P == {T \in SUBSET S : \E m \in Img(T) : \A n \in Img(T) : m >= n}
<1>1. {} \in P
  OBVIOUS
<1>2. ASSUME NEW T \in SUBSET S, T # {}, \A x \in T : T \ {x} \in P
      PROVE  T \in P
  <2>1. PICK x \in T : TRUE
    BY <1>2
  <2>2. PICK m \in Img(T \ {x}) : \A n \in Img(T \ {x}) : m >= n
    BY <1>2
  <2>3. m \in Int /\ f[x] \in Int /\ m \in Img(T) /\ f[x] \in Img(T)
    OBVIOUS
  <2>4. \A n \in Img(T) : n \in Int /\ (n \in Img(T \ {x}) \/ n = f[x])
    OBVIOUS
  <2> HIDE DEF Img
  <2>5. CASE m >= f[x]
    BY <2>2, <2>3, <2>4, <2>5
  <2>6. CASE f[x] > m
    <3>1. \A n \in Img(T) : f[x] >= n
      BY ONLY <2>2, <2>3, <2>4, <2>6
    <3>2. QED
      BY <2>3, <3>1
  <2>7. QED
    BY <2>3, <2>5, <2>6
<1>3. S \in P
  <2>1. \A T \in SUBSET S : T \in P
    <3> HIDE DEF P
    <3>1. QED
      BY <1>1, <1>2, SubsetInduction
  <2>2. QED
    BY <2>1
<1>4. \A n \in Img(S) : n \in Int
  OBVIOUS
<1>5. Max(Img(S)) \in Img(S)
  <2>1. \E m \in Img(S) : \A n \in Img(S) : m >= n
    BY <1>3
  <2> HIDE DEF Img
  <2>2. QED
    BY <2>1 DEF Max
<1>6. QED
  BY <1>4, <1>5

\* What Trades gives, as a distribution over all the orders, each getting none or some.
LEMMA TradesAreGreedy ==
    ASSUME book \in Amounts, NEW amount \in Nat, NEW orders \in SUBSET DOMAIN book,
           NEW listing, NEW asks, \A o \in orders : Remaining(o) > 0,
           NEW before, NEW left, NEW t,
           \A a, b \in orders :
             <<a, b>> \in before <=> IF asks THEN CompareAsk(listing, a, b)
                                            ELSE CompareBid(listing, a, b),
           left = [o \in orders |-> Remaining(o)],
           t = [o \in orders |-> IF o \in DOMAIN Trades(amount, orders, listing, asks)
                                 THEN Trades(amount, orders, listing, asks)[o] ELSE 0]
    PROVE  IsGreedy(t, left, amount, before, orders)
<1> DEFINE Before(a, b) == IF asks THEN CompareAsk(listing, a, b)
                                   ELSE CompareBid(listing, a, b)
           Left(o) == amount - AllRemaining({p \in orders : Before(p, o)})
           trading == {o \in orders : Left(o) > 0}
<1>1. \A a, b \in orders : <<a, b>> \in before <=> Before(a, b)
  OBVIOUS
<1>2. Trades(amount, orders, listing, asks)
        = [o \in trading |-> IF Remaining(o) < Left(o) THEN Remaining(o) ELSE Left(o)]
  BY DEF Trades
<1> HIDE DEF Before
<1>3. SUFFICES ASSUME NEW o \in orders
               PROVE  t[o] = LET rest == amount - SumFunctionOnSet(left, Earlier(before, orders, o))
                             IN  IF rest <= 0 THEN 0 ELSE IF left[o] < rest THEN left[o] ELSE rest
  BY DEF IsGreedy
<1> DEFINE T == {p \in orders : Before(p, o)}
<1>4. T = Earlier(before, orders, o)
  BY <1>1 DEF Earlier
<1>5. T \in SUBSET DOMAIN book /\ T \in SUBSET orders /\ IsFiniteSet(T)
  BY AmountsType, FS_Subset
<1>6. Left(o) = amount - AllRemaining(T)
  OBVIOUS
<1> HIDE DEF T
<1>7. \A p \in T : Remaining(p) \in Int /\ left[p] = Remaining(p)
  BY <1>5, RemainingType
<1>8. AllRemaining(T) = SumFunctionOnSet(left, T)
  <2> DEFINE rows == [p \in T |-> Remaining(p)]
  <2>1. AllRemaining(T) = SumFunctionOnSet(rows, T)
    BY DEF AllRemaining, SumOf
  <2>2. \A p \in T : left[p] \in Int /\ rows[p] = left[p]
    BY <1>7
  <2> HIDE DEF rows
  <2>3. SumFunctionOnSet(rows, T) = SumFunctionOnSet(left, T)
    BY ONLY <1>5, <2>2, SumSame
  <2>4. QED
    BY <2>1, <2>3
<1>9. AllRemaining(T) \in Int
  BY <1>5, AllRemainingType
<1>10. t[o] = IF Left(o) > 0 THEN IF Remaining(o) < Left(o) THEN Remaining(o) ELSE Left(o)
                             ELSE 0
  <2> HIDE DEF Left
  <2>1. QED
    BY <1>2
<1>11. Left(o) = amount - SumFunctionOnSet(left, Earlier(before, orders, o))
  BY <1>4, <1>6, <1>8
<1>12. Left(o) \in Int /\ left[o] = Remaining(o)
  BY <1>6, <1>9
<1> HIDE DEF Left
<1>13. QED
  BY <1>10, <1>11, <1>12

\* Adding up what is traded is adding up what each order gets, of units and of cost.
LEMMA SumOverAll ==
    ASSUME NEW S, IsFiniteSet(S), NEW Part \in SUBSET S, NEW d, \A o \in Part : d[o] \in Int
    PROVE  SumFunctionOnSet([o \in S |-> IF o \in Part THEN d[o] ELSE 0], S)
             = SumFunctionOnSet(d, Part)
<1> DEFINE none == [o \in S |-> 0]
           g == [o \in S |-> IF o \in Part THEN d[o] ELSE 0]
<1>1. /\ \A o \in S : none[o] \in Int /\ g[o] \in Int
      /\ \A o \in Part : d[o] \in Int /\ g[o] = none[o] + d[o]
      /\ \A o \in S \ Part : g[o] = none[o]
      /\ \A o \in S : none[o] = 0
  OBVIOUS
<1> HIDE DEF none, g
<1>2. SumFunctionOnSet(g, S) = SumFunctionOnSet(none, S) + SumFunctionOnSet(d, Part)
  BY <1>1, SumGrows
<1>3. SumFunctionOnSet(none, S) = 0
  BY <1>1, SumOfZeros
<1>4. SumFunctionOnSet(d, Part) \in Int
  <2>1. IsFiniteSet(Part) /\ Part \in SUBSET Part
    BY FS_Subset
  <2>2. QED
    BY ONLY <2>1, \A o \in Part : d[o] \in Int, SumType
<1>5. QED
  BY <1>2, <1>3, <1>4 DEF g

\* The order of a list with no repetition.
LEMMA ListingIsOrder ==
    ASSUME NEW listing, DOMAIN listing \subseteq Nat,
           \A i, j \in DOMAIN listing : listing[i] = listing[j] => i = j,
           NEW S, \A o \in S : \E i \in DOMAIN listing : listing[i] = o
    PROVE  /\ \A a \in S : ~ListedBefore(listing, a, a)
           /\ \A a, b, c \in S : ListedBefore(listing, a, b) /\ ListedBefore(listing, b, c)
                                   => ListedBefore(listing, a, c)
           /\ \A a, b \in S : a = b \/ ListedBefore(listing, a, b) \/ ListedBefore(listing, b, a)
<1>1. \A a \in S : ~ListedBefore(listing, a, a)
  BY DEF ListedBefore
<1>2. ASSUME NEW a \in S, NEW b \in S, NEW c \in S,
             ListedBefore(listing, a, b), ListedBefore(listing, b, c)
      PROVE  ListedBefore(listing, a, c)
  <2>1. PICK i, j \in DOMAIN listing : i < j /\ listing[i] = a /\ listing[j] = b
    BY <1>2 DEF ListedBefore
  <2>2. PICK k, l \in DOMAIN listing : k < l /\ listing[k] = b /\ listing[l] = c
    BY <1>2 DEF ListedBefore
  <2>3. j = k
    BY <2>1, <2>2
  <2>4. i < l
    BY <2>1, <2>2, <2>3
  <2>5. QED
    BY <2>1, <2>2, <2>4 DEF ListedBefore
<1>3. ASSUME NEW a \in S, NEW b \in S
      PROVE  a = b \/ ListedBefore(listing, a, b) \/ ListedBefore(listing, b, a)
  <2>1. PICK i \in DOMAIN listing : listing[i] = a
    OBVIOUS
  <2>2. PICK j \in DOMAIN listing : listing[j] = b
    OBVIOUS
  <2>3. i = j \/ i < j \/ j < i
    OBVIOUS
  <2>4. QED
    BY <2>1, <2>2, <2>3 DEF ListedBefore
<1>4. QED
  BY <1>1, <1>2, <1>3

\* A list of the members of S, without repetition.
Lists(listing, S) ==
    /\ DOMAIN listing \subseteq Nat
    /\ \A i, j \in DOMAIN listing : listing[i] = listing[j] => i = j
    /\ \A o \in S : \E i \in DOMAIN listing : listing[i] = o

\* The relation is that of compareAskOrder or compareBidOrder, and the price what it
\* makes small: the limit price when the taker buys, its opposite when it sells.
Compares(before, price, listing, asks, S) ==
    /\ \A a, b \in S : <<a, b>> \in before <=> IF asks THEN CompareAsk(listing, a, b)
                                                      ELSE CompareBid(listing, a, b)
    /\ \A o \in S : price[o] = IF asks THEN Terms[o].limitPrice ELSE -Terms[o].limitPrice

LEMMA ComparingIsOrder ==
    ASSUME NEW listing, NEW S \in SUBSET Order, Lists(listing, S),
           NEW asks, NEW before, NEW price, Compares(before, price, listing, asks, S)
    PROVE  /\ IsStrictOrder(before, S)
           /\ \A o \in S : price[o] \in Int
           /\ \A a, b \in S : <<a, b>> \in before => price[a] <= price[b]
<1>1. \A o \in S : price[o] \in Int /\ Terms[o].limitPrice \in Int
  BY DEF Compares
<1>2. ASSUME NEW a \in S, NEW b \in S
      PROVE  <<a, b>> \in before
               <=> price[a] < price[b] \/ (price[a] = price[b] /\ ListedBefore(listing, a, b))
  <2>1. PICK p \in Int, q \in Int : p = Terms[a].limitPrice /\ q = Terms[b].limitPrice
    BY <1>1
  <2>2. CASE asks
    <3>1. <<a, b>> \in before <=> CompareAsk(listing, a, b)
      BY <2>2 DEF Compares
    <3>2. price[a] = p /\ price[b] = q
      BY <2>1, <2>2 DEF Compares
    <3>3. QED
      BY ONLY <2>1, <3>1, <3>2 DEF CompareAsk
  <2>3. CASE ~asks
    <3>1. <<a, b>> \in before <=> CompareBid(listing, a, b)
      BY <2>3 DEF Compares
    <3>2. price[a] = -p /\ price[b] = -q
      BY <2>1, <2>3 DEF Compares
    <3>3. QED
      BY ONLY <2>1, <3>1, <3>2, p \in Int, q \in Int DEF CompareBid
  <2>4. QED
    BY <2>2, <2>3
<1>3. /\ \A a \in S : ~ListedBefore(listing, a, a)
      /\ \A a, b, c \in S : ListedBefore(listing, a, b) /\ ListedBefore(listing, b, c)
                              => ListedBefore(listing, a, c)
      /\ \A a, b \in S : a = b \/ ListedBefore(listing, a, b) \/ ListedBefore(listing, b, a)
  BY ListingIsOrder DEF Lists
<1>4. \A a, b \in S : <<a, b>> \in before => price[a] <= price[b]
  BY ONLY <1>1, <1>2
<1>5. \A a \in S : <<a, a>> \notin before
  BY ONLY <1>1, <1>2, <1>3
<1>6. \A a, b, c \in S : <<a, b>> \in before /\ <<b, c>> \in before => <<a, c>> \in before
  BY ONLY <1>1, <1>2, <1>3
<1>7. \A a, b \in S : a = b \/ <<a, b>> \in before \/ <<b, a>> \in before
  <2>1. SUFFICES ASSUME NEW a \in S, NEW b \in S
                 PROVE  a = b \/ <<a, b>> \in before \/ <<b, a>> \in before
    OBVIOUS
  <2>2. PICK p \in Int, q \in Int : p = price[a] /\ q = price[b]
    BY <1>1
  <2>3. /\ <<a, b>> \in before <=> p < q \/ (p = q /\ ListedBefore(listing, a, b))
        /\ <<b, a>> \in before <=> q < p \/ (q = p /\ ListedBefore(listing, b, a))
    BY <1>2, <2>2
  <2>4. a = b \/ ListedBefore(listing, a, b) \/ ListedBefore(listing, b, a)
    BY <1>3
  <2>5. p < q \/ q < p \/ p = q
    BY <2>2
  <2>6. QED
    BY ONLY <2>3, <2>4, <2>5
<1>8. QED
  BY <1>1, <1>4, <1>5, <1>6, <1>7 DEF IsStrictOrder

LEMMA TradesAreBest ==
    ASSUME book \in Amounts, NEW amount \in Nat, NEW orders \in SUBSET DOMAIN book,
           \A o \in orders : Remaining(o) > 0,
           NEW listing, Lists(listing, orders), NEW asks
    PROVE  Best(Trades(amount, orders, listing, asks), amount, orders, asks)
<1> DEFINE trades == Trades(amount, orders, listing, asks)
           before == {w \in orders \X orders : IF asks THEN CompareAsk(listing, w[1], w[2])
                                                       ELSE CompareBid(listing, w[1], w[2])}
           left == [o \in orders |-> Remaining(o)]
           t == [o \in orders |-> IF o \in DOMAIN trades THEN trades[o] ELSE 0]
           price == [o \in orders |-> IF asks THEN Terms[o].limitPrice
                                              ELSE -Terms[o].limitPrice]
<1>1. \A a, b \in orders : <<a, b>> \in before <=> IF asks THEN CompareAsk(listing, a, b)
                                                          ELSE CompareBid(listing, a, b)
  OBVIOUS
<1>2. /\ \A o \in orders : left[o] = Remaining(o) /\ left[o] \in Nat
      /\ DOMAIN left = orders
  BY RemainingType
<1>3. \A o \in orders : price[o] = IF asks THEN Terms[o].limitPrice ELSE -Terms[o].limitPrice
  OBVIOUS
<1>4. trades \in Amounts /\ DOMAIN trades \in SUBSET orders
  BY TradesType
<1>5. orders \in SUBSET Order /\ IsFiniteSet(orders)
  BY AmountsType, FS_Subset
<1>6. IsGreedy(t, left, amount, before, orders)
  <2>1. left = [o \in orders |-> Remaining(o)]
    OBVIOUS
  <2>2. t = [o \in orders |-> IF o \in DOMAIN Trades(amount, orders, listing, asks)
                              THEN Trades(amount, orders, listing, asks)[o] ELSE 0]
    OBVIOUS
  <2> HIDE DEF before, left, t, trades
  <2>3. QED
    BY <1>1, <2>1, <2>2, TradesAreGreedy
<1>7. \A o \in orders : t[o] = IF o \in DOMAIN trades THEN trades[o] ELSE 0
  OBVIOUS
<1>8. t = [o \in orders |-> IF o \in DOMAIN trades THEN trades[o] ELSE 0]
  OBVIOUS
<1>9. AllRemaining(orders) = SumFunctionOnSet(left, orders)
  BY DEF AllRemaining, SumOf
<1> HIDE DEF before, left, t, price, trades
<1>10. /\ IsStrictOrder(before, orders)
       /\ \A o \in orders : price[o] \in Int
       /\ \A a, b \in orders : <<a, b>> \in before => price[a] <= price[b]
  <2>1. Compares(before, price, listing, asks, orders)
    BY <1>1, <1>3 DEF Compares
  <2>2. QED
    BY ONLY <1>5, <2>1, Lists(listing, orders), ComparingIsOrder
<1>11. \A o \in DOMAIN trades : trades[o] \in Nat
  BY <1>4, AmountsType
<1>12. SumOf(trades) = SumFunctionOnSet(t, orders)
  <2>1. \A o \in DOMAIN trades : trades[o] \in Int
    BY <1>11
  <2>2. SumFunctionOnSet([o \in orders |-> IF o \in DOMAIN trades THEN trades[o] ELSE 0], orders)
          = SumFunctionOnSet(trades, DOMAIN trades)
    BY ONLY <1>4, <1>5, <2>1, SumOverAll
  <2>3. QED
    BY <1>8, <2>2 DEF SumOf
<1>13. SumOf(trades) = IF AllRemaining(orders) < amount THEN AllRemaining(orders) ELSE amount
  <2>1. \A o \in orders : left[o] \in Nat
    BY <1>2
  <2>2. SumFunctionOnSet(t, orders) = IF SumFunctionOnSet(left, orders) < amount
                                      THEN SumFunctionOnSet(left, orders) ELSE amount
    BY ONLY <1>5, <1>6, <1>10, <2>1, amount \in Nat, GreedyTotal
  <2>3. QED
    BY <1>9, <1>12, <2>2
<1>14. ASSUME NEW f \in Allocations(orders), SumOf(f) = SumOf(trades)
       PROVE  IF asks THEN Cost(f) >= Cost(trades) ELSE Cost(f) <= Cost(trades)
  <2>1. Max({0} \cup {left[o] : o \in orders}) \in Int
    <3>1. \A o \in orders : left[o] \in Int
      BY <1>2
    <3>2. QED
      BY ONLY <1>5, <3>1, MaxOfImage
  <2>2. {left[o] : o \in orders} = {Remaining(o) : o \in orders}
    BY <1>2
  <2>3. PICK m \in Int : m = Max({0} \cup {Remaining(o) : o \in orders})
    BY <2>1, <2>2
  <2>4. f \in [orders -> 0..m] /\ \A o \in orders : f[o] <= Remaining(o)
    BY <2>3 DEF Allocations
  <2>5. /\ DOMAIN f = orders
        /\ \A o \in orders : f[o] \in Nat /\ f[o] <= left[o]
    BY <1>2, <2>4
  <2> DEFINE lp(o) == Terms[o].limitPrice
             sign == IF asks THEN 1 ELSE -1
             tSpent == [o \in DOMAIN trades |-> trades[o] * lp(o)]
             fSpent == [o \in DOMAIN f |-> f[o] * lp(o)]
             allSpent == [o \in orders |-> IF o \in DOMAIN trades THEN tSpent[o] ELSE 0]
             tCost == [o \in orders |-> t[o] * price[o]]
             fCost == [o \in orders |-> f[o] * price[o]]
  <2>6. /\ Cost(trades) = SumFunctionOnSet(tSpent, DOMAIN trades)
        /\ Cost(f) = SumFunctionOnSet(fSpent, orders)
    BY <2>5 DEF Cost, SumOf
  <2>7. ASSUME NEW o \in orders
        PROVE  /\ allSpent[o] \in Int /\ fSpent[o] \in Int
               /\ tCost[o] = sign * allSpent[o] /\ fCost[o] = sign * fSpent[o]
    <3>1. PICK a \in Nat, b \in Nat, p \in Nat : a = t[o] /\ b = f[o] /\ p = lp(o)
      BY <1>5, <1>7, <1>11, <2>5
    <3>2. allSpent[o] = a * p /\ fSpent[o] = b * p
      <4>1. CASE o \in DOMAIN trades
        BY <1>7, <2>5, <3>1, <4>1
      <4>2. CASE o \notin DOMAIN trades
        BY <1>7, <2>5, <3>1, <4>2
      <4>3. QED
        BY <4>1, <4>2
    <3>3. tCost[o] = a * price[o] /\ fCost[o] = b * price[o] /\ price[o] = sign * p
      BY <1>3, <3>1
    <3>4. CASE asks
      BY <3>2, <3>3, <3>4
    <3>5. CASE ~asks
      BY <3>2, <3>3, <3>5
    <3>6. QED
      BY <3>4, <3>5
  <2>8. SumFunctionOnSet(allSpent, orders) = SumFunctionOnSet(tSpent, DOMAIN trades)
    <3>1. \A o \in DOMAIN trades : tSpent[o] \in Int
      BY <1>4, <1>5, <1>11
    <3>2. allSpent = [o \in orders |-> IF o \in DOMAIN trades THEN tSpent[o] ELSE 0]
      OBVIOUS
    <3> HIDE DEF tSpent, allSpent
    <3>3. SumFunctionOnSet([o \in orders |-> IF o \in DOMAIN trades THEN tSpent[o] ELSE 0], orders)
            = SumFunctionOnSet(tSpent, DOMAIN trades)
      BY ONLY <1>4, <1>5, <3>1, SumOverAll
    <3>4. QED
      BY <3>2, <3>3
  <2>9. /\ \A o \in orders : tCost[o] = t[o] * price[o]
        /\ \A o \in orders : fCost[o] = f[o] * price[o]
    OBVIOUS
  <2>10. sign \in Int /\ (asks => sign = 1) /\ (~asks => sign = -1)
    OBVIOUS
  <2> HIDE DEF tSpent, fSpent, allSpent, tCost, fCost, sign
  <2>11. SumFunctionOnSet(f, orders) = SumFunctionOnSet(t, orders)
    BY <1>12, <1>14, <2>5 DEF SumOf
  <2>12. CASE orders = {}
    <3>1. DOMAIN trades = {}
      BY <1>4, <2>12
    <3>2. Cost(trades) = 0 /\ Cost(f) = 0
      BY <2>6, <2>12, <3>1, SumOfNothing
    <3>3. QED
      BY <3>2
  <2>13. CASE orders # {}
    <3>1. SumFunctionOnSet(tCost, orders) <= SumFunctionOnSet(fCost, orders)
      <4>1. \A o \in orders : left[o] \in Nat
        BY <1>2
      <4>2. \A o \in orders : f[o] \in Nat /\ f[o] <= left[o]
        BY <2>5
      <4>3. QED
        BY ONLY <1>5, <1>6, <1>10, <2>9, <2>11, <2>13, <4>1, <4>2, amount \in Nat, GreedyBest
    <3>2. /\ SumFunctionOnSet(tCost, orders) = sign * SumFunctionOnSet(allSpent, orders)
          /\ SumFunctionOnSet(fCost, orders) = sign * SumFunctionOnSet(fSpent, orders)
          /\ SumFunctionOnSet(allSpent, orders) \in Int
          /\ SumFunctionOnSet(fSpent, orders) \in Int
      <4> DEFINE none == [o \in orders |-> 0]
      <4>1. \A o \in orders : none[o] = 0
        OBVIOUS
      <4> HIDE DEF none
      <4>2. SumFunctionOnSet(none, orders) = 0
        BY <1>5, <4>1, SumOfZeros
      <4>3. /\ \A o \in orders : /\ none[o] \in Int /\ allSpent[o] \in Int
                                 /\ tCost[o] = none[o] + sign * allSpent[o]
            /\ \A o \in orders : /\ none[o] \in Int /\ fSpent[o] \in Int
                                 /\ fCost[o] = none[o] + sign * fSpent[o]
        <5>1. ASSUME NEW o \in orders
              PROVE  /\ none[o] \in Int /\ allSpent[o] \in Int /\ fSpent[o] \in Int
                     /\ tCost[o] = none[o] + sign * allSpent[o]
                     /\ fCost[o] = none[o] + sign * fSpent[o]
          <6>1. PICK a \in Int, b \in Int : a = sign * allSpent[o] /\ b = sign * fSpent[o]
            BY <2>7, <2>10
          <6>2. tCost[o] = a /\ fCost[o] = b
            BY <2>7, <6>1
          <6>3. QED
            BY <2>7, <4>1, <6>1, <6>2
        <5>2. QED
          BY <5>1
      <4>4. /\ SumFunctionOnSet(tCost, orders)
                 = SumFunctionOnSet(none, orders) + sign * SumFunctionOnSet(allSpent, orders)
            /\ SumFunctionOnSet(fCost, orders)
                 = SumFunctionOnSet(none, orders) + sign * SumFunctionOnSet(fSpent, orders)
        <5>1. SumFunctionOnSet(tCost, orders)
                = SumFunctionOnSet(none, orders) + sign * SumFunctionOnSet(allSpent, orders)
          <6>1. \A o \in orders : /\ none[o] \in Int /\ allSpent[o] \in Int
                                  /\ tCost[o] = none[o] + sign * allSpent[o]
            BY ONLY <4>3
          <6>2. QED
            BY ONLY <1>5, <2>10, <6>1, SumLinear
        <5>2. SumFunctionOnSet(fCost, orders)
                = SumFunctionOnSet(none, orders) + sign * SumFunctionOnSet(fSpent, orders)
          <6>1. \A o \in orders : /\ none[o] \in Int /\ fSpent[o] \in Int
                                  /\ fCost[o] = none[o] + sign * fSpent[o]
            BY ONLY <4>3
          <6>2. QED
            BY ONLY <1>5, <2>10, <6>1, SumLinear
        <5>3. QED
          BY <5>1, <5>2
      <4>5. /\ SumFunctionOnSet(allSpent, orders) \in Int
            /\ SumFunctionOnSet(fSpent, orders) \in Int
        <5>1. orders \in SUBSET orders
          OBVIOUS
        <5>2. /\ \A o \in orders : allSpent[o] \in Int
              /\ \A o \in orders : fSpent[o] \in Int
          BY <2>7
        <5>3. QED
          BY ONLY <1>5, <5>1, <5>2, SumType
      <4>6. PICK a \in Int, b \in Int : /\ a = sign * SumFunctionOnSet(allSpent, orders)
                                        /\ b = sign * SumFunctionOnSet(fSpent, orders)
        BY <2>10, <4>5
      <4>7. QED
        BY <4>2, <4>4, <4>5, <4>6
    <3>3. PICK a \in Int, b \in Int : /\ a = SumFunctionOnSet(allSpent, orders)
                                      /\ b = SumFunctionOnSet(fSpent, orders)
      BY <3>2
    <3>4. a = Cost(trades) /\ b = Cost(f)
      BY <2>6, <2>8, <3>3
    <3>5. sign * a <= sign * b
      BY <3>1, <3>2, <3>3
    <3>6. CASE asks
      BY <2>10, <3>4, <3>5, <3>6
    <3>7. CASE ~asks
      BY <2>10, <3>4, <3>5, <3>7
    <3>8. QED
      BY <3>6, <3>7
  <2>14. QED
    BY <2>12, <2>13
<1>15. Best(trades, amount, orders, asks)
  BY <1>13, <1>14 DEF Best
<1>16. QED
  BY <1>15 DEF trades

\* Matching an order with whatever the database lists, in whatever order it lists it,
\* trades as much as the limit price and the fills allow, at the best price to be had
\* (getMatchingOrders, fulfillOrderAsync).
THEOREM MatchingIsBest == Spec => []MatchIsBest
<1>1. BookInv => MatchIsBest
  <2>1. SUFFICES ASSUME BookInv, NEW taker \in Order,
                        NEW listing \in Listings(~Terms[taker].isBuy)
                 PROVE  Best(Matching(taker, listing), Terms[taker].amount,
                             {o \in Fillable(listing) : PriceMatches(taker, o)},
                             Terms[taker].isBuy)
    BY DEF MatchIsBest
  <2> DEFINE orders == {o \in Fillable(listing) : PriceMatches(taker, o)}
  <2>2. book \in Amounts
    BY <2>1 DEF BookInv, Types
  <2>3. \A o \in orders : o \in DOMAIN book /\ Remaining(o) > 0
    BY FillableOfSide
  <2>4. Lists(listing, orders)
    <3>1. /\ DOMAIN listing \subseteq Nat
          /\ \A i, j \in DOMAIN listing : listing[i] = listing[j] => i = j
      BY DEF Listings, SetToSeqs
    <3>2. \A o \in orders : \E i \in DOMAIN listing : listing[i] = o
      BY DEF Fillable
    <3>3. QED
      BY <3>1, <3>2 DEF Lists
  <2>6. Terms[taker].amount \in Nat
    OBVIOUS
  <2>7. orders \in SUBSET DOMAIN book
    BY <2>3
  <2>8. Matching(taker, listing)
          = Trades(Terms[taker].amount, orders, listing, Terms[taker].isBuy)
    BY DEF Matching
  <2> HIDE DEF orders
  <2>9. Best(Trades(Terms[taker].amount, orders, listing, Terms[taker].isBuy),
             Terms[taker].amount, orders, Terms[taker].isBuy)
    BY <2>2, <2>3, <2>4, <2>6, <2>7, TradesAreBest
  <2>10. QED
    BY <2>8, <2>9 DEF orders
<1>2. QED
  BY <1>1, BookInvariant, PTL
=============================================================================
