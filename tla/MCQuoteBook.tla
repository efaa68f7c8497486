---------------------------- MODULE MCQuoteBook ----------------------------
(***************************************************************************)
(* Quotes made at the same time in one store, and sales and a cancellation *)
(* of them. The sales of the branch are numbered apart.                    *)
(***************************************************************************)
EXTENDS QuoteBook, TLC

CONSTANTS q1, q2, q3, s1, s2, s3, c1, main, branch

\* Everybody wants the first quote; one of the three sales is in the branch.
OneQuote == [x \in Users |-> q1]
TwoStores == [x \in Numbered |-> IF x = s3 THEN branch ELSE main]

\* Two sales and the cancellation want the first quote, a sale the second, and
\* all sales want the next number of one store.
TwoQuotes == [x \in Users |-> IF x = s3 THEN q2 ELSE q1]
OneStore == [x \in Numbered |-> main]
=============================================================================
