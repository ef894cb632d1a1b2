------------------------------ MODULE Idempotency ------------------------------
(***************************************************************************)
(* One namespace of the idempotency registry (idempotency_manager.py,      *)
(* idempotency_service.py): a sequence of entries, oldest first, that      *)
(* every lookup and registration prunes.  The handlers that use it look a  *)
(* request up, do the work and register the answer.                        *)
(***************************************************************************)
EXTENDS Naturals, Sequences

(* prune_idempotency_registry: the entries past the TTL and then those over
   the cap are dropped, oldest first.  Which are too old is not known. *)
Pruned(entries, cap) ==
    {SubSeq(entries, k, Len(entries)) : k \in
        {j \in 1 .. Len(entries) + 1 : Len(entries) + 1 - j <= cap}}

(* idempotency_lookup_or_raise, after its pruning: the key's entry, if any. *)
Hits(entries, key) == {e \in {entries[k] : k \in DOMAIN entries} : e.key = key}

(* idempotency_register: the key's entry is replaced and is now the newest. *)
WithoutKey(entries, key) ==
    IF Hits(entries, key) = {} THEN entries
    ELSE LET at == CHOOSE k \in DOMAIN entries : entries[k].key = key
         IN [k \in 1 .. Len(entries) - 1 |-> entries[IF k < at THEN k ELSE k + 1]]

Registered(entries, entry, cap) == Pruned(Append(WithoutKey(entries, entry.key), entry), cap)
=============================================================================
