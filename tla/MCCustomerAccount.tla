------------------------- MODULE MCCustomerAccount -------------------------
(* A small instance of CustomerAccount for TLC.                            *)
EXTENDS CustomerAccount, TLC

CONSTANTS sale, cancel1, cancel2, collect, retry, correct, o1, k1

\* One sale on account, cancelled twice at once; one collection sent twice
\* with the same key; one correction that raises the debt.
CallKind ==
  sale :> "CHARGE" @@ cancel1 :> "CHARGE_REVERSAL" @@ cancel2 :> "CHARGE_REVERSAL" @@
  collect :> "PAYMENT" @@ retry :> "PAYMENT" @@ correct :> "ADJUSTMENT"

CallAmount ==
  sale :> 3 @@ cancel1 :> 0 @@ cancel2 :> 0 @@
  collect :> 2 @@ retry :> 2 @@ correct :> 2

CallOrder ==
  sale :> o1 @@ cancel1 :> o1 @@ cancel2 :> o1 @@
  collect :> NoOrder @@ retry :> NoOrder @@ correct :> NoOrder

CallKey ==
  sale :> NoKey @@ cancel1 :> NoKey @@ cancel2 :> NoKey @@
  collect :> k1 @@ retry :> k1 @@ correct :> NoKey
=============================================================================
