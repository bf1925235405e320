---------------------------- MODULE TradeOperation ----------------------------
(***************************************************************************)
(* The client library's TradeOperation: collect trade arguments, commit    *)
(* them as one P1Trade transaction (src/tradeOperation.ts).                *)
(*                                                                         *)
(* commit awaits the network between taking the flag and answering, so     *)
(* further calls arrive while one is under way; a send that fails gives    *)
(* the flag back.  The chain requires the accounts of a trade sorted and   *)
(* without repetition (P1Trade.sol).                                       *)
(***************************************************************************)
EXTENDS Integers, Sequences, FiniteSets, SequencesExt

CONSTANTS
    Address,     \* addresses as callers write them: a value, in some letter case
    Trader,      \* trader contracts: P1Orders, P1Liquidation, P1Deleveraging
    Call,        \* calls of commit
    MaxTrades    \* bound: trade arguments of the operation

\* The letter case of an address is 0 for the one toLowerCase gives.
ASSUME OperationAssumption ==
    /\ Address \subseteq [value: Nat, upper: {0, 1}]
    /\ MaxTrades \in Nat

VARIABLES
    trades,     \* the arguments added so far
    committed,  \* the flag
    call,       \* per call of commit: "idle", what it is sending, or how it ended
    taken       \* the transactions the network has taken

operationVars == <<trades, committed, call, taken>>

OperationInit ==
    /\ trades = <<>>
    /\ committed = FALSE
    /\ call = [c \in Call |-> [stage |-> "idle"]]
    /\ taken = <<>>

\* Fault: addresses are kept as written.
AsWritten(a) == a

LowerCase(a) == [a EXCEPT !.upper = 0]

\* addTradeArg, called by fillSignedOrder, liquidate and deleverage.
AddTradeArg(maker, taker, trader) ==
    /\ ~committed /\ Len(trades) < MaxTrades
    /\ trades' = Append(trades, [maker |-> LowerCase(maker), taker |-> LowerCase(taker),
                                 trader |-> trader])
    /\ UNCHANGED <<committed, call, taken>>

\* Strings are sorted by code units: digits, then capitals, then small letters.
IsLetter(a) == a.value > 9
TextRank(a) == a.value + IF ~IsLetter(a) THEN 0 ELSE IF a.upper = 1 THEN 100 ELSE 200

AccountSet == {trades[i].maker : i \in DOMAIN trades} \cup {trades[i].taker : i \in DOMAIN trades}

Ascending(s) == \A i, j \in DOMAIN s : i < j => TextRank(s[i]) < TextRank(s[j])

SortedAccounts == CHOOSE s \in [1..Cardinality(AccountSet) -> AccountSet] : Ascending(s)

\* indexOf, counting from one; 0 for an account that is not there.
IndexOf(accounts, a) ==
    IF a \in ToSet(accounts) THEN CHOOSE i \in DOMAIN accounts : accounts[i] = a ELSE 0

\* What commit sends: the accounts and, per trade, indexes into them.
Payload ==
    LET accounts == SortedAccounts
    IN  [accounts |-> accounts,
         args |-> [i \in DOMAIN trades |->
                     [makerIndex |-> IndexOf(accounts, trades[i].maker),
                      takerIndex |-> IndexOf(accounts, trades[i].taker),
                      trader |-> trades[i].trader]]]

\* Fault: the flag is only looked at when the answer is there.
NotChecked == TRUE

MayCommit == ~committed

\* commit up to its await: take the flag, compose the transaction, send it.
Commit(c) ==
    /\ call[c].stage = "idle"
    /\ MayCommit /\ trades # <<>>
    /\ committed' = TRUE
    /\ call' = [call EXCEPT ![c] = [stage |-> "sending", payload |-> Payload]]
    /\ UNCHANGED <<trades, taken>>

\* 'Operation already committed', 'No tradeArgs have been added to trade'
CommitThrows(c) ==
    /\ call[c].stage = "idle"
    /\ ~MayCommit \/ trades = <<>>
    /\ call' = [call EXCEPT ![c].stage = "thrown"]
    /\ UNCHANGED <<trades, committed, taken>>

\* sendTransaction answers.
Sent(c) ==
    /\ call[c].stage = "sending"
    /\ taken' = Append(taken, call[c].payload)
    /\ call' = [call EXCEPT ![c].stage = "sent"]
    /\ UNCHANGED <<trades, committed>>

\* getSigner, the encoding or sendTransaction throws. The transaction may be with the
\* network all the same, its answer lost: for commit this is a failure like any other.
SendFails(c) ==
    /\ call[c].stage = "sending"
    /\ \/ UNCHANGED taken /\ call' = [call EXCEPT ![c].stage = "failed"]
       \/ /\ taken' = Append(taken, call[c].payload)
          /\ call' = [call EXCEPT ![c].stage = "lost"]
    /\ committed' = FALSE
    /\ UNCHANGED trades

OperationNext ==
    \/ \E maker, taker \in Address, trader \in Trader : AddTradeArg(maker, taker, trader)
    \/ \E c \in Call : Commit(c) \/ CommitThrows(c) \/ Sent(c) \/ SendFails(c)

OperationSpec == OperationInit /\ [][OperationNext]_operationVars

-----------------------------------------------------------------------------
(* Properties                                                              *)

\* Every transaction sent is one P1Trade accepts and means what was asked: its
\* accounts ascend by value, so that none is there twice in two spellings, and each
\* index leads back to the account its trade was added with.
PayloadsAreAccepted ==
    \A c \in Call : call[c].stage = "sending" =>
        LET p == call[c].payload
        IN  /\ \A i, j \in DOMAIN p.accounts :
                 i < j => p.accounts[i].value < p.accounts[j].value
            /\ DOMAIN p.args = DOMAIN trades
            /\ \A k \in DOMAIN p.args :
                 /\ p.accounts[p.args[k].makerIndex] = trades[k].maker
                 /\ p.accounts[p.args[k].takerIndex] = trades[k].taker

\* However calls of commit overlap and are repeated after failures, the network takes
\* an operation once, and once more only for each answer that was lost.
LostCalls == {c \in Call : call[c].stage = "lost"}
TakenOnce == Len(taken) <= 1 + Cardinality(LostCalls)

=============================================================================
