-------------------------------- MODULE MCLog ---------------------------------
EXTENDS Log

CONSTANTS l1, c1, c2

OneLogger == {l1}
TwoConnectors == {c1, c2}
TwoLevels == {0, 1}
=============================================================================
