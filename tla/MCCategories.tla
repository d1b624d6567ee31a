---------------------------- MODULE MCCategories ----------------------------
EXTENDS Categories
CONSTANTS albumA, albumB
MCCats == {albumA, albumB}
\* The albums are alike.
MCSymmetry == Permutations(MCCats)
\* Nothing is claimed of what comes after a step the proxy does not mend.
Mended == ~Unmended
=============================================================================
