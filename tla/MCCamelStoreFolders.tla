-------------------------- MODULE MCCamelStoreFolders --------------------------
\* Small instances of CamelStoreFolders: two threads open folders and Trash,
\* the third deletes and renames.
EXTENDS CamelStoreFolders

CONSTANTS t1, t2, t3, o1, o2, o3, o4, inbox, sent, trash

MCKeys == {inbox, sent, trash}
MCRank == [k \in MCKeys |-> IF k = trash THEN 1 ELSE 0]
MCOpens == [t \in Threads |-> CASE t = t1 -> {inbox, sent}
                                [] t = t2 -> {inbox, trash}
                                [] t = t3 -> {}]
MCDeletes == [t \in Threads |-> IF t = t3 THEN {inbox} ELSE {}]
MCRenames == [t \in Threads |-> IF t = t3 THEN {<<inbox, sent>>, <<sent, inbox>>} ELSE {}]
=============================================================================
