SPECIFICATION Spec
CONSTANTS
  token = token
  voucher = voucher
  alice = alice
  bob = bob
  Contracts <- MCContracts
  Vouchers <- MCVouchers
  Users <- MCUsers
  Module = Module
  Channel = Channel
  Tokens = 2
  MaxPackets = 2
SYMMETRY MCSymmetry
INVARIANTS
  CirculatingBacked
  PairsConsistent
