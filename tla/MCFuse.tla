-------------------------------- MODULE MCFuse --------------------------------
EXTENDS Fuse, TLC

CONSTANTS i1, i2, d, e, x

MCPaths == {<<d>>, <<d, x>>, <<e>>, <<e, x>>}
MCInodes == {i1, i2}
Symmetry == {i @@ n : i \in Permutations(MCInodes), n \in Permutations({d, e})}
===============================================================================
