------------------------------ MODULE MCConnection ------------------------------
(* Four descriptors: the server's, and three for the connections, which    *)
(* are not closed, and the result file. The fourth client finds none.      *)
EXTENDS Connection

==============================================================================
