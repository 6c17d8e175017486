---------------------------- MODULE MCServeSession ----------------------------
EXTENDS ServeSession, TLC

Malformed == [kind |-> "malformed", decrypts |-> FALSE, presentations |-> <<>>]
Plaintext == [kind |-> "plaintext", decrypts |-> FALSE, presentations |-> <<>>]
Undecryptable == [kind |-> "encrypted", decrypts |-> FALSE, presentations |-> <<>>]
Carrying(ps) == [kind |-> "encrypted", decrypts |-> TRUE, presentations |-> ps]

\* One body for each path through the handlers.
AllBodies ==
  {Malformed, Plaintext, Undecryptable, Carrying(<<>>)}
  \cup {Carrying(<<v>>) : v \in Findings}
  \cup {Carrying(<<"valid", "revoked">>)}

\* The bodies that tell the races of two posts apart.
RaceBodies == {Malformed, Plaintext, Carrying(<<"valid">>), Carrying(<<"revoked">>)}

\* What a genuine wallet sends.
WalletBodies == {Carrying(<<"valid">>), Carrying(<<"revoked">>)}

Symmetry == Permutations(Posts) \cup Permutations(Sessions)
===============================================================================
