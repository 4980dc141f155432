------------------------- MODULE MCDatabaseHandles -------------------------
(* One thread with the default context; another with a context that has    *)
(* auxiliary databases.                                                    *)
EXTENDS DatabaseHandles

CONSTANTS t1, t2, a, c

MCThreadOf == [x \in Contexts |-> IF x = c THEN t2 ELSE t1]
=============================================================================
