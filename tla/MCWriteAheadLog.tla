--------------------------- MODULE MCWriteAheadLog ---------------------------
EXTENDS WriteAheadLog
MCShapes == {<<1>>, <<2, 1>>, <<1, 1, 1>>}
=============================================================================
