-------------------------- MODULE MCLoanLifecycle ---------------------------
(* Small instances of LoanLifecycle: basis points in tenths, years of one  *)
(* tick, four fixed-point units per share.                                 *)
EXTENDS LoanLifecycle

MCPrices == {<<4, 4>>, <<8, 4>>}

=============================================================================
