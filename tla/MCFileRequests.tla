--------------------------- MODULE MCFileRequests ---------------------------
EXTENDS FileRequests
CONSTANTS x, y

Chunks == {<<>>, <<x>>, <<y>>, <<x, y>>}
=============================================================================
