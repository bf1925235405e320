-------------------------------- MODULE Tables --------------------------------
(***************************************************************************)
(* Tables: the rows of a database or the entries of a map, as functions    *)
(* from the keys that are there.                                           *)
(***************************************************************************)

\* The entries of old with those of new written over them.
Override(new, old) ==
    [key \in DOMAIN new \cup DOMAIN old |->
        IF key \in DOMAIN new THEN new[key] ELSE old[key]]

Put(key, value, table) == Override([k \in {key} |-> value], table)
Without(table, keys) == [key \in DOMAIN table \ keys |-> table[key]]
=============================================================================
