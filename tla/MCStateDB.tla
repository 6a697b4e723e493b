----------------------------- MODULE MCStateDB -----------------------------
EXTENDS StateDB

\* Account 1 is a user, 2 does not exist, has only received coins or is a
\* contract, 3 is a module account.
MCBlocked == {3}
MCValues  == {0, 1, 2}
Bits      == {0, 1}

Account(bal, code) ==
    [exists |-> TRUE, bal |-> bal, nonce |-> 0, code |-> code, slot |-> 0]

MCStores ==
    {[acct |-> <<Account(2, 0), second, Account(1, 0)>>, calls |-> 0] :
        second \in {Absent, Account(1, 0), Account(0, 1)}}

Program(uses, journal, revisions) ==
    [uses |-> uses, journal |-> journal, revisions |-> revisions]

Calls     == Program({"transfer", "storage", "precompile"}, 5, 2)
Nested    == Program({"transfer", "precompile"}, 4, 3)
Contracts == Program({"transfer", "create", "destruct", "precompile"}, 4, 1)
Registers == Program({"storage", "registers", "accesses"}, 3, 1)

MCPrograms == {Calls, Nested, Contracts, Registers}
Sends      == {Program({"transfer", "precompile"}, 5, 2)}
Slots      == {Program({"storage", "precompile"}, 4, 2)}
=============================================================================
