--------------------------- MODULE PerpetualOrders ---------------------------
(***************************************************************************)
(* PerpetualV1 with P1Orders and P1InverseOrders as its traders: every     *)
(* trade is the fill of an order its maker has signed or approved, and     *)
(* what the contracts record of orders is undone with the transaction that *)
(* reverts.  An order is for one of the two contracts, which its hash      *)
(* tells.                                                                  *)
(***************************************************************************)
EXTENDS PerpetualV1, OrderFills, FiniteSets, Functions

CONSTANTS
    P1Orders, P1InverseOrders,   \* addresses of the contracts
    OrderHash,  \* the orders there are
    Terms,      \* the order behind each hash
    Signed,     \* the hashes for which a signature of the maker exists
    Fills,      \* the fills a sender may ask for
    Anyone      \* address(0) as an order's taker

\* The limits that OrderFills checks, and who may fill the order, until when.
Order ==
    [amount: Nat, limitPrice: Nat, triggerPrice: Nat, limitFee: Nat,
     isNegativeLimitFee: BOOLEAN, isBuy: BOOLEAN, isInverse: BOOLEAN,
     isDecreaseOnly: BOOLEAN, maker: Account, taker: Account \cup {Anyone},
     expiration: Nat]

ASSUME OrdersAssumption ==
    /\ {P1Orders, P1InverseOrders} \subseteq Operator
    /\ 1 \in TraderFlag
    /\ IsFiniteSet(OrderHash) /\ Signed \subseteq OrderHash
    /\ Terms \in [OrderHash -> Order]
    /\ Fills \subseteq FillTerms

VARIABLES
    status,        \* _STATUS_
    filledAmount,  \* _FILLED_AMOUNT_
    call           \* the sender of the trade transaction and, for a revert,
                   \* the filled amounts before it; NoTx if there is none

ordersVars == <<status, filledAmount, call>>
allVars == <<vars, ordersVars>>

OrdersInit ==
    /\ Init
    /\ status = [h \in OrderHash |-> "Open"]
    /\ filledAmount = [h \in OrderHash |-> 0]
    /\ call = NoTx

-----------------------------------------------------------------------------
(* The contracts                                                           *)

\* Fault: a canceled order can be approved again.
ApproveAnew(h) ==
    /\ Idle
    /\ status' = [status EXCEPT ![h] = "Approved"]
    /\ UNCHANGED <<vars, filledAmount, call>>

\* The order's maker sends this, and cancelOrder.
ApproveOrder(h) ==
    /\ Idle
    /\ status[h] # "Canceled"
    /\ status' = [status EXCEPT ![h] = "Approved"]
    /\ UNCHANGED <<vars, filledAmount, call>>

CancelOrder(h) ==
    /\ Idle
    /\ status' = [status EXCEPT ![h] = "Canceled"]
    /\ UNCHANGED <<vars, filledAmount, call>>

\* _verifyOrderStateAndSignature
Authorized(h) ==
    \/ status[h] = "Open" /\ h \in Signed
    \/ status[h] = "Approved"

\* Fault: a decrease-only order is held against the position before the trade.
PositionAtStart(maker) == tx.initialBalances[maker].position

\* getAccountBalance in the middle of a trade transaction.
PositionNow(maker) == balances[maker].position

\* _verifyOrderRequest
ValidRequest(order, taker, fill) ==
    /\ order.taker \in {taker, Anyone}
    /\ order.expiration >= now \/ order.expiration = 0
    /\ ValidPrice(order, fill)
    /\ ValidFee(order, fill)
    /\ ValidTrigger(order, tx.price)
    /\ order.isDecreaseOnly =>
         DecreasesPosition(order, fill.amount, PositionNow(order.maker))

\* Fault: an order may be filled beyond its amount.
AnyAmount(h, fill) == TRUE

NotOverfilled(h, fill) == filledAmount[h] + fill.amount <= Terms[h].amount

NewFilledAmount(h, fill) == filledAmount[h] + fill.amount

TraderOf(order) == IF order.isInverse THEN P1InverseOrders ELSE P1Orders

\* trade: P1Trade's loop asks for this fill next.
FillOrder(h, taker, fill) ==
    LET order == Terms[h]
    IN  /\ tx.active
        /\ HasAccountPermissions(taker, call.sender)
        /\ Authorized(h)
        /\ ValidRequest(order, taker, fill)
        /\ NotOverfilled(h, fill)
        /\ Computable(order, fill)
        /\ TradeStep(TraderOf(order), order.maker, taker, OrderTrade(order, fill))
        /\ filledAmount' = [filledAmount EXCEPT ![h] = NewFilledAmount(h, fill)]
        /\ UNCHANGED <<status, call>>

-----------------------------------------------------------------------------
(* The transaction around the fills.                                       *)

BeginOrdersTrade(sender, accounts) ==
    /\ BeginTrade(accounts)
    /\ call' = [sender |-> sender, filledAmount |-> filledAmount]
    /\ UNCHANGED <<status, filledAmount>>

EndOrdersTrade ==
    /\ EndTrade
    /\ call' = NoTx
    /\ UNCHANGED <<status, filledAmount>>

RevertOrdersTrade ==
    /\ RevertTrade
    /\ filledAmount' = call.filledAmount
    /\ call' = NoTx
    /\ UNCHANGED status

OrdersNext ==
    \/ \E h \in OrderHash :
          \/ ApproveOrder(h) \/ CancelOrder(h)
          \/ \E taker \in Account, fill \in Fills : FillOrder(h, taker, fill)
    \/ \E sender \in Address, accounts \in SUBSET Account :
          BeginOrdersTrade(sender, accounts)
    \/ EndOrdersTrade
    \/ RevertOrdersTrade
    \/ /\ \/ MarginNext
          \/ \E account \in Account : WithdrawFinalSettlement(account)
          \/ AdminNext
          \/ \E account \in Account, operator \in Delegate, approved \in BOOLEAN :
                SetLocalOperator(account, operator, approved)
          \/ ChainNext
       /\ UNCHANGED ordersVars

OrdersSpec == OrdersInit /\ [][OrdersNext]_allVars

-----------------------------------------------------------------------------
(* Properties                                                              *)

\* Every position is backed by orders, each within its amount: an account is only
\* long by what its own orders to take position and other makers' orders to give it
\* have filled, and only short by the others, over all transactions and reverts.
PositionsBacked ==
    LET within == [h \in OrderHash |->
                     IF filledAmount[h] > Terms[h].amount THEN Terms[h].amount
                                                          ELSE filledAmount[h]]
        FilledSum(hashes) == SumFunctionOnSet(within, hashes)
        Towards(a) == {h \in OrderHash : (Terms[h].maker = a) = TakesPosition(Terms[h])}
    IN  ~finalSettlement =>
          \A a \in Account :
            /\ balances[a].position <= FilledSum(Towards(a))
            /\ -balances[a].position <= FilledSum(OrderHash \ Towards(a))

\* A canceled order stays canceled and is never filled again, however it was
\* signed or approved before.
CancelIsPermanent ==
    [][ \A h \in OrderHash : status[h] = "Canceled" =>
          status'[h] = "Canceled" /\ filledAmount'[h] = filledAmount[h] ]_allVars

\* Filling a decrease-only order never opens, enlarges or flips its maker's
\* position, however many fills the same transaction makes before it.
DecreaseOnlyDecreases ==
    [][ \A h \in OrderHash :
          Terms[h].isDecreaseOnly /\ filledAmount'[h] > filledAmount[h] =>
            LET before == balances[Terms[h].maker].position
                after == balances'[Terms[h].maker].position
            IN  Abs(after) <= Abs(before) /\ after * before >= 0 ]_allVars

\* A fill moves its maker's margin by no more than the order's own limits on
\* price and fee allow.  A limit price of zero sets none in the inverse contract.
MakersLimitKept ==
    [][ \A h \in OrderHash :
          LET order == Terms[h]
              amount == filledAmount'[h] - filledAmount[h]
              paid == balances[order.maker].margin - balances'[order.maker].margin
              limit == MarginAmount(order, AtLimits(order, amount))
          IN  tx.active /\ amount > 0 /\ order.limitFee <= BASE
                /\ (order.isInverse => order.limitPrice # 0)
                /\ balances'[order.maker].position # balances[order.maker].position
              => paid <= IF TakesPosition(order) THEN limit ELSE -limit ]_allVars
=============================================================================
