--------------------------- MODULE MCFileTransport ---------------------------
EXTENDS FileTransport

MCBytes == [l \in 1..MaxLines |-> IF l % 3 = 2 THEN 2 ELSE 1]
=============================================================================
