-------------------------- MODULE MCErrorInjection ---------------------------
EXTENDS ErrorInjection

\* Unset or unreadable, the smallest rate, and one between.
Rates == {Unset, Junk, 0, 1}
\* Unset; empty and "-1", which ask for random errors; lists, one of them with a
\* number that wraps, one that ends in a token that is no number.
Lists == {Unset, <<>>, <<-1>>, <<2>>, <<1, 19>>, <<3, Junk, 2>>}
=============================================================================
