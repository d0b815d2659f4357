----------------------------- MODULE MCCamelLock -----------------------------
(* TLC instances of CamelLock: t1 and t2 are threads of one program, t3 is *)
(* the thread of another.                                                  *)
EXTENDS CamelLock

CONSTANTS p1, p2, t1, t2, t3

MCProgramOf == [t \in Threads |-> IF t = t3 THEN p2 ELSE p1]
=============================================================================
