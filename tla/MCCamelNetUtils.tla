---------------------------- MODULE MCCamelNetUtils ----------------------------
(* One operation, a thread in camel_read_socket and one in an NSPR stream;  *)
(* both look up names as well.                                              *)
EXTENDS CamelNetUtils

CONSTANTS t1, t2

MCPipeOf == [t \in {t1, t2} |-> IF t = t1 THEN "pipe" ELSE "prpipe"]
=============================================================================
