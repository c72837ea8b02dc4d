------------------------------- MODULE KeyMap -------------------------------
(***************************************************************************)
(* What the index promises its callers: a map from keys to RIDs, as the    *)
(* std::map the tests compare it with.                                     *)
(***************************************************************************)
EXTENDS TLC

CONSTANT Entries       \* the [key, rid] pairs callers insert

VARIABLES
    map,               \* key -> RID
    answer             \* the last operation, its key, its RIDs and its result

Answers(call, key, rids, ok) ==
    answer' = [call |-> call, key |-> key, rids |-> rids, ok |-> ok]

MapInit ==
    /\ map = << >>
    /\ answer = [call |-> "none", key |-> 0, rids |-> <<>>, ok |-> FALSE]

MapInsert(e) ==
    /\ Answers("Insert", e.key, <<e.rid>>, e.key \notin DOMAIN map)
    /\ map' = IF e.key \in DOMAIN map THEN map ELSE map @@ (e.key :> e.rid)

MapDelete(k) ==
    /\ Answers("Delete", k, <<>>, k \in DOMAIN map)
    /\ map' = [j \in DOMAIN map \ {k} |-> map[j]]

MapGetValue(k) ==
    /\ Answers("GetValue", k, IF k \in DOMAIN map THEN <<map[k]>> ELSE <<>>, k \in DOMAIN map)
    /\ UNCHANGED map

MapNext ==
    \E e \in Entries : MapInsert(e) \/ MapDelete(e.key) \/ MapGetValue(e.key)
=============================================================================
