------------------------------- MODULE Account -------------------------------
(***************************************************************************)
(* The balance of one currency (pkg/types/account.go), as operators on     *)
(* records.  Amounts are whole units: QuantityDelta is below one.          *)
(***************************************************************************)
EXTENDS Integers

Balance == [available : Int, locked : Nat]

NewBalance(fund) == [available |-> fund, locked |-> 0]

Total(b) == b.available + b.locked

(* AddBalance checks nothing: a fee is added as a negative fund. *)
AddBalance(b, fund) == [b EXCEPT !.available = @ + fund]

CanLock(b, fund) == b.available >= fund

LockBalance(b, fund) == [available |-> b.available - fund, locked |-> b.locked + fund]

CanUnlock(b, fund) == fund <= b.locked

UnlockBalance(b, fund) == [available |-> b.available + fund, locked |-> b.locked - fund]

CanUse(b, fund) == b.locked >= fund

UseLockedBalance(b, fund) == [b EXCEPT !.locked = @ - fund]
=============================================================================
