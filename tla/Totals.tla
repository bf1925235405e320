------------------------------- MODULE Totals -------------------------------
(***************************************************************************)
(* Sums over the accounts of the perpetual contract.  Addresses are        *)
(* ordered in the contract (P1Trade._verifyAccounts compares them), so     *)
(* accounts are the numbers 1..n and a sum is a recursive function on      *)
(* 0..n, about which TotalsProofs can prove things.                        *)
(***************************************************************************)
EXTENDS Integers

\* Running sums of f: PartialSum(f, n)[k] is f[1] + ... + f[k].
PartialSum(f, n) ==
    LET sum[k \in 0..n] == IF k = 0 THEN 0 ELSE sum[k - 1] + f[k]
    IN  sum

\* f[1] + ... + f[n]
Total(f, n) == PartialSum(f, n)[n]
=============================================================================
