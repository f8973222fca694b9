-------------------------- MODULE MCCustomerAccount --------------------------
\* Instances of CustomerAccount for TLC.
EXTENDS CustomerAccount

OneToTwo == 1..2
OnlyTwo == {2}
OnlyOne == {1}
OneUpOrDown == {-1, 1}
Nothing == {}
=============================================================================
