------------------------------ MODULE MCErc20 ------------------------------
EXTENDS Erc20, TLC

CONSTANTS token, voucher, alice, bob

MCContracts == {token}
MCVouchers == {voucher}
MCUsers == {alice, bob}

\* The users have the same rights; one of them has the tokens at the start.
MCSymmetry == Permutations(MCUsers)
=============================================================================
