-------------------------- MODULE MCCamelImapxServer --------------------------
\* Small instances of CamelImapxServer: jobs named for what they are.
EXTENDS CamelImapxServer

CONSTANTS x, y, get, append, refresh, store, fetch

MCKind == [j \in Jobs |-> CASE j = append -> "append"
                            [] j = refresh -> "steps"
                            [] j = store -> "store"
                            [] OTHER -> "single"]
MCFolderOf == [j \in Jobs |-> CASE j = append -> NULL
                                [] j = refresh -> y
                                [] OTHER -> x]
MCPri == [j \in Jobs |-> CASE j = get -> 100
                           [] j = store -> 150
                           [] j = append -> -60
                           [] j = refresh -> 0]
MCParts == [j \in Jobs |-> IF j = refresh THEN 2 ELSE 1]
TwoStores == [j \in Jobs |-> IF j = store THEN 2 ELSE 1]
=============================================================================
