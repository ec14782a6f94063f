----------------------------- MODULE MCFixnums -----------------------------
\* Instances of Fixnums: words of 8 bits, two characters.
EXTENDS Fixnums
TwoCharacters == {0, 1}
=============================================================================
