------------------------------ MODULE SignedOrders ------------------------------
(***************************************************************************)
(* The way of an order from the client library to the order contract: it   *)
(* is created and signed (src/api.ts, src/orders.ts), written as JSON,     *)
(* read by the server and kept as a row of text columns                    *)
(* (src/handlers/orderbook_handlers.ts, src/utils.ts), read back, matched, *)
(* and encoded once more for P1Orders, which hashes what it is given and   *)
(* recovers the signer of that hash.                                       *)
(*                                                                         *)
(* A number of the library is a decimal with a sign of its own; it is      *)
(* counted in tenths of the contract's smallest unit, so that it may lie   *)
(* between two numbers the contract knows.  A hash is what it is made of,  *)
(* and a signature knows its key and the message it is over.               *)
(***************************************************************************)
EXTENDS Integers, Tables

CONSTANTS
    Slot,          \* the orders under way
    Buys,          \* bound: those of them that buy
    Account,       \* makers
    Operator,      \* OPERATOR_ACCOUNT, the taker of every fill
    Nobody,        \* NULL_ADDRESS
    Amounts,       \* bound: amounts clients ask for, in tenths of a unit
    Prices,        \* bound: limit prices, in tenths of a unit
    Fees,          \* bound: limit fees clients choose, signed decimals
    Rebate, LargeFee, SmallFee, SmallAmount,  \* the terms of getFeeForOrder
    Lifetimes,     \* bound: expirations clients ask for, in seconds from now
    Salts,         \* bound: salts clients choose
    SaltRange,     \* 16^63, what is left of a salt in the flags
    MixedCase,     \* bound: whether clients write addresses in mixed case
    Takers,        \* bound: the takers clients name
    Methods,       \* bound: signing methods clients use
    NodePrepends,  \* bound: what the node's wallets prepend when they sign
    NodeVs,        \* bound: the recovery values the node's wallets answer
    MaxTime        \* bound: last second of the clock

ASSUME SignedOrdersAssumption ==
    /\ Buys \subseteq Slot
    /\ Operator # Nobody /\ Nobody \notin Account
    /\ Amounts \subseteq Nat /\ Prices \subseteq Nat /\ Salts \subseteq Nat
    /\ Fees \cup {Rebate, LargeFee, SmallFee} \subseteq [tenths : Nat, neg : BOOLEAN]
    /\ SmallAmount \in Nat
    /\ SaltRange \in Nat \ {0} /\ MaxTime \in Nat /\ Lifetimes \subseteq Nat
    /\ MixedCase \subseteq BOOLEAN
    /\ Takers \subseteq {Operator, Nobody} \cup Account
    /\ Methods \subseteq {"Hash", "UnsafeHash", "Compatibility"}
    /\ NodePrepends \subseteq {"none", "decimal", "hexadecimal"}
    /\ NodeVs \subseteq {"00", "1b", "other"}

VARIABLES
    draft,     \* per slot, the order the client made
    order,     \* the same order as its present holder sees it
    stage,     \* who that is
    signature, \* its typed signature
    row,       \* signed_orders: the row of the order
    fills,     \* the trade data of a match: the maker's and the taker's fill
    unlocked,  \* WalletProvider.walletByAddress: accounts with a local key
    now        \* the clock of all, in seconds

signedVars == <<draft, order, stage, signature, row, fills, unlocked, now>>

-----------------------------------------------------------------------------
(* Numbers: BigNumber and BaseValue                                        *)

Decimal(tenths, negative) == [tenths |-> tenths, neg |-> negative]
Positive(tenths) == Decimal(tenths, FALSE)
Signed(v) == IF v.neg THEN -v.tenths ELSE v.tenths

\* toFixed(0) of a magnitude: halves are rounded up.
ToFixed(tenths) == (tenths + 5) \div 10

\* BaseValue.toSolidity: the sign is left out.
ToSolidity(v) == ToFixed(v.tenths)

\* isNegative looks at the sign alone: minus zero is negative.
IsNegative(v) == v.neg

\* Fault: the sign is lost on the way.
WrittenUnsigned(v) == [v EXCEPT !.neg = FALSE]

\* toString, and the constructor on what it wrote: exact, but zero has no sign.
Written(v) == [v EXCEPT !.neg = v.neg /\ v.tenths # 0]

-----------------------------------------------------------------------------
(* Hashes and signatures                                                   *)

Spelled(account, mixedCase) == [account |-> account, mixedCase |-> mixedCase]

\* getOrderFlags: the salt loses its first hexadecimal digit to the flags.
OrderFlags(o) ==
    [salt |-> o.salt % SaltRange, negativeFee |-> IsNegative(o.limitFee),
     decreaseOnly |-> o.isDecreaseOnly, buy |-> o.isBuy]

\* getOrderHash, as the tuple it hashes.
OrderHash(o) ==
    <<OrderFlags(o), ToFixed(o.amount), ToSolidity(o.limitPrice),
      ToSolidity(o.triggerPrice), ToSolidity(o.limitFee),
      o.maker.account, o.taker.account, o.expiration>>

\* orderToSolidity: the struct that is encoded for the contract.
OrderToSolidity(o) ==
    [flags |-> OrderFlags(o), amount |-> ToFixed(o.amount),
     limitPrice |-> ToSolidity(o.limitPrice),
     triggerPrice |-> ToSolidity(o.triggerPrice),
     limitFee |-> ToSolidity(o.limitFee), maker |-> o.maker.account,
     taker |-> o.taker.account, expiration |-> o.expiration]

NoSignature == [key |-> Nobody, over |-> <<"none", <<>>>>, v |-> "none",
                type |-> "none"]

\* Fault: the recovery value is passed on as the wallet answered it.
AnyV(v) == v

\* fixRawSignature: "00" becomes "1b"; other values throw.
FixedV(v) == IF v \in {"00", "1b"} THEN "1b" ELSE "throws"

\* createTypedSignature.
TypedSignature(raw, type) ==
    [key |-> raw.key, over |-> raw.over, v |-> FixedV(raw.v), type |-> type]

\* ecRecoverTypedSignature, whose library reads any recovery value by its parity.
ClientRecovers(hash, signed, maker) ==
    signed.over = <<signed.type, hash>> /\ signed.key = maker.account

\* TypedSignature.recover: ecrecover knows two recovery values.
ContractRecovers(hash, signed, maker) ==
    /\ signed.type \in {"none", "decimal", "hexadecimal"}
    /\ signed.v = "1b"
    /\ signed.over = <<signed.type, hash>> /\ signed.key = maker

\* signOrder, once the wallet has answered.
SignedBy(o, raw, method) ==
    LET unsafe == TypedSignature(raw, "none")
    IN  IF \/ method = "UnsafeHash"
           \/ method = "Compatibility" /\ ClientRecovers(OrderHash(o), unsafe, o.maker)
        THEN unsafe
        ELSE TypedSignature(raw, "decimal")

\* What the signer of an account answers to signMessage: a local wallet prepends
\* the decimal length, the node's wallet what it likes.
RawSignatures(o) ==
    LET Raw(prepend, v) == [key |-> o.maker.account, over |-> <<prepend, OrderHash(o)>>,
                            v |-> v]
    IN  IF o.maker.account \in unlocked THEN {Raw("decimal", "1b")}
        ELSE {Raw(p, v) : p \in NodePrepends, v \in NodeVs}

-----------------------------------------------------------------------------
(* Forms of an order                                                       *)

\* getFeeForOrder.
FeeForOrder(amount, isTaker) ==
    IF ~isTaker THEN Rebate ELSE IF amount < SmallAmount THEN SmallFee ELSE LargeFee

\* The fee a client chose, or the default (which a chosen number 0 is taken for).
LimitFees(amount) == Fees \cup {FeeForOrder(amount, isTaker) : isTaker \in BOOLEAN}

\* getRealExpiration.
RealExpiration(lifetime) == IF lifetime = 0 THEN 0 ELSE now + lifetime

\* jsonifyPerpetualOrder, and what unmarshallOrder makes of it again.
ThroughJson(o) ==
    [o EXCEPT !.amount = 10 * ToFixed(o.amount),
              !.limitPrice = Written(o.limitPrice),
              !.triggerPrice = Written(o.triggerPrice),
              !.limitFee = Written(o.limitFee)]

\* addressNormalizer: addresses at the top of the body in lower case.
Normalized(o) == [o EXCEPT !.maker.mixedCase = FALSE, !.taker.mixedCase = FALSE]

\* serializeOrder and deserializeOrder: the columns are text.
ThroughRow(o) == ThroughJson(o)

\* isFreshOrder, for the first row of the list.
Fresh(o) == o.expiration > now

PriceMatches(taker, maker) ==
    IF taker.isBuy THEN Signed(maker.limitPrice) <= Signed(taker.limitPrice)
                   ELSE Signed(maker.limitPrice) >= Signed(taker.limitPrice)

\* Fault: the price is rounded down.
RoundedDown(o, signed, amount, price, fee) ==
    [order |-> OrderToSolidity(o), signature |-> signed,
     amount |-> ToFixed(amount), price |-> price.tenths \div 10,
     fee |-> ToSolidity(fee), isNegativeFee |-> IsNegative(fee)]

\* fillToTradeData.
FillToTradeData(o, signed, amount, price, fee) ==
    [order |-> OrderToSolidity(o), signature |-> signed,
     amount |-> ToFixed(amount), price |-> ToSolidity(price),
     fee |-> ToSolidity(fee), isNegativeFee |-> IsNegative(fee)]

-----------------------------------------------------------------------------
(* The contract's checks on trade data                                     *)

ContractHash(s) ==
    <<s.flags, s.amount, s.limitPrice, s.triggerPrice, s.limitFee,
      s.maker, s.taker, s.expiration>>

SignatureAccepted(data) ==
    ContractRecovers(ContractHash(data.order), data.signature, data.order.maker)

TermsAccepted(data) ==
    /\ IF data.order.flags.buy THEN data.price <= data.order.limitPrice
                               ELSE data.price >= data.order.limitPrice
    /\ IF data.order.flags.negativeFee
         THEN data.isNegativeFee /\ data.fee >= data.order.limitFee
         ELSE data.isNegativeFee \/ data.fee <= data.order.limitFee
    /\ data.amount <= data.order.amount
    /\ data.order.taker \in {Operator, Nobody}

-----------------------------------------------------------------------------
NoOrder == [isBuy |-> FALSE, isDecreaseOnly |-> FALSE, amount |-> 0,
            limitPrice |-> Positive(0), triggerPrice |-> Positive(0),
            limitFee |-> Positive(0), maker |-> Spelled(Nobody, FALSE),
            taker |-> Spelled(Nobody, FALSE), expiration |-> 0, salt |-> 0]

SignedInit ==
    /\ draft = [s \in Slot |-> NoOrder]
    /\ order = draft
    /\ stage = [s \in Slot |-> "none"]
    /\ signature = [s \in Slot |-> NoSignature]
    /\ row = [s \in {} |-> NoOrder]
    /\ fills = <<>>
    /\ unlocked \in SUBSET Account
    /\ now = 0

\* createPerpetualOrder (which signs with Hash) and getSignedOrder (with any
\* method): the order is made and signed, or signing throws.
Create(s, o, method) ==
    /\ stage[s] = "none"
    /\ \E raw \in RawSignatures(o) :
         /\ draft' = [draft EXCEPT ![s] = o]
         /\ order' = [order EXCEPT ![s] = o]
         /\ signature' = [signature EXCEPT ![s] = SignedBy(o, raw, method)]
         /\ stage' = [stage EXCEPT
              ![s] = IF SignedBy(o, raw, method).v = "throws" THEN "thrown" ELSE "signed"]
    /\ UNCHANGED <<row, fills, unlocked, now>>

\* The orders createPerpetualOrder may be asked for.
Requests(s) ==
    UNION {{[isBuy |-> s \in Buys, isDecreaseOnly |-> FALSE, amount |-> amount,
             limitPrice |-> Positive(price), triggerPrice |-> Positive(0),
             limitFee |-> fee, maker |-> Spelled(maker, mixed),
             taker |-> Spelled(taker, FALSE),
             expiration |-> RealExpiration(lifetime), salt |-> salt] :
               price \in Prices, fee \in LimitFees(amount), maker \in Account,
               mixed \in MixedCase, taker \in Takers, lifetime \in Lifetimes,
               salt \in Salts} :
           amount \in Amounts}

\* The order is posted: written as JSON, its addresses put in lower case, read.
Post(s) ==
    /\ stage[s] = "signed"
    /\ order' = [order EXCEPT ![s] = Normalized(ThroughJson(@))]
    /\ stage' = [stage EXCEPT ![s] = "received"]
    /\ UNCHANGED <<draft, signature, row, fills, unlocked, now>>

\* addOrderAsync saves it.
SaveRow(s) ==
    /\ stage[s] = "received"
    /\ row' = Put(s, ThroughRow(order[s]), row)
    /\ stage' = [stage EXCEPT ![s] = "saved"]
    /\ UNCHANGED <<draft, order, signature, fills, unlocked, now>>

\* fulfillOrderAsync matches an order it has received with a row, and encodes a
\* fill of both at the maker's limits.
Match(t, m) ==
    LET maker == ThroughRow(row[m])
        amount == IF order[t].amount < maker.amount THEN order[t].amount ELSE maker.amount
        Fill(s, o) == [slot |-> s,
                       data |-> FillToTradeData(o, signature[s], amount,
                                                maker.limitPrice, maker.limitFee)]
    IN  /\ stage[t] = "received" /\ m \in DOMAIN row /\ fills = <<>>
        /\ order[t].isBuy # maker.isBuy
        /\ Fresh(maker) /\ PriceMatches(order[t], maker)
        /\ fills' = [maker |-> Fill(m, maker), taker |-> Fill(t, order[t])]
        /\ UNCHANGED <<draft, order, stage, signature, row, unlocked, now>>

Tick ==
    /\ now < MaxTime
    /\ now' = now + 1
    /\ UNCHANGED <<draft, order, stage, signature, row, fills, unlocked>>

SignedNext ==
    \/ \E s \in Slot :
          \/ \E o \in Requests(s), method \in Methods : Create(s, o, method)
          \/ Post(s)
          \/ SaveRow(s)
    \/ \E t, m \in Slot : Match(t, m)
    \/ Tick

SignedSpec == SignedInit /\ [][SignedNext]_signedVars

-----------------------------------------------------------------------------
(* Properties                                                              *)

Posted == {s \in Slot : stage[s] \in {"signed", "received", "saved"}}
ValidAtFirst(s) == ClientRecovers(OrderHash(draft[s]), signature[s], draft[s].maker)

\* What orderHasValidSignature says of a signature the library made is what the
\* contract will say of it.
ClientCheckAgrees ==
    \A s \in Posted :
        ValidAtFirst(s) = ContractRecovers(OrderHash(draft[s]), signature[s],
                                           draft[s].maker.account)

\* A valid signature is still valid for what the contract is handed in the end,
\* after the order has been rounded, written, read and encoded by the server.
ValidStaysValid ==
    \A side \in DOMAIN fills :
        ValidAtFirst(fills[side].slot) => SignatureAccepted(fills[side].data)

\* Orders matched on exact prices are accepted by the contract on rounded ones;
\* and so is the maker's fee, by the maker always and by a taker who allows it,
\* as long as neither has named somebody else than the operator.
MatchIsFillable ==
    \A side \in DOMAIN fills :
        LET mine == draft[fills[side].slot]  makers == draft[fills.maker.slot]
        IN  /\ Signed(makers.limitFee) <= Signed(mine.limitFee)
            /\ mine.taker.account \in {Operator, Nobody}
            => TermsAccepted(fills[side].data)

=============================================================================
