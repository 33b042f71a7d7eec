--------------------------- MODULE MCMatrixFiles ---------------------------
EXTENDS MatrixFiles

Geometry(byte, block, piece, cols, hasStates, mayRestart) ==
    [byte |-> byte, block |-> block, piece |-> piece, cols |-> cols,
     states |-> hasStates, restarts |-> mayRestart]

(* Blocks of a bit, of half a byte, of a byte and of two, in two pieces.   *)
(* The server may be killed where a block is one column, or where it keeps *)
(* no state bits and writes whole bytes.                                   *)
MCGeometries ==
    {Geometry(2, 1, 1, 4, TRUE, TRUE), Geometry(2, 1, 2, 4, FALSE, TRUE),
     Geometry(4, 2, 1, 8, TRUE, FALSE), Geometry(4, 2, 1, 8, FALSE, FALSE),
     Geometry(2, 2, 1, 4, TRUE, FALSE), Geometry(2, 2, 1, 4, FALSE, TRUE),
     Geometry(2, 4, 4, 16, TRUE, FALSE), Geometry(2, 4, 2, 8, FALSE, TRUE)}

(* Blocks of half a byte, and a server that may be killed.                 *)
MCHalfBytes == {Geometry(4, 2, 1, 8, FALSE, TRUE)}
=============================================================================
