------------------------------ MODULE Fp48Math ------------------------------
(***************************************************************************)
(* The integer arithmetic of the program (math.rs) and the share/atom      *)
(* conversions of the marginfi adapter (protocol/marginfi.rs).             *)
(*                                                                         *)
(* A marginfi bank keeps balances as shares; asset_share_value says what   *)
(* one share is worth.  Shares and share values are fixed-point numbers    *)
(* with 48 fractional bits.  SCALE stands for 2^48: every conversion is    *)
(* kept with its rounding, so an atom deposited at a share value that does *)
(* not divide it comes back as 0 atoms here exactly as it does on chain.   *)
(* Values are unbounded naturals: a u64/u128 overflow aborts the           *)
(* instruction and changes no state.                                       *)
(***************************************************************************)
EXTENDS Integers

CONSTANTS SCALE,          \* 2^48 in the program
          BPS_PER_UNIT    \* 10_000 in the program

ASSUME ScaleAssumption == /\ SCALE \in Nat \ {0}
                          /\ BPS_PER_UNIT \in Nat \ {0}

MinOf(a, b) == IF a <= b THEN a ELSE b

MaxOf(a, b) == IF a >= b THEN a ELSE b

\* u64::saturating_sub
SatSub(a, b) == IF a >= b THEN a - b ELSE 0

\* math::mul_div / mul_div_u64 with ceil = false
mul_div(a, b, c) == (a * b) \div c

\* a * b / 2^48
mul_scale(a, b) == (a * b) \div SCALE

\* a * 2^48 / b
div_scale(a, b) == (a * SCALE) \div b

to_scaled(amount) == amount * SCALE

from_scaled_floor(scaled) == scaled \div SCALE

from_scaled_ceil(scaled) ==
    IF scaled % SCALE # 0 THEN (scaled \div SCALE) + 1 ELSE scaled \div SCALE

-----------------------------------------------------------------------------
\* Atoms to shares at share value asv, rounded down.  Also the shares marginfi
\* credits for a deposit of that many atoms and burns for a withdrawal of them,
\* and (asv a stored snapshot) market_helpers::atoms_to_shares_at_snapshot.
amount_to_asset_shares(atoms, asv) == div_scale(to_scaled(atoms), asv)

\* Shares to atoms at share value asv, rounded down.
shares_to_amount(shares, asv) == from_scaled_floor(mul_scale(shares, asv))

amount_to_asset_shares_ceil(atoms, asv) ==
    LET floor == amount_to_asset_shares(atoms, asv)
    IN  IF shares_to_amount(floor, asv) < atoms THEN floor + 1 ELSE floor

=============================================================================
