-------------------------- MODULE StorageContract --------------------------
(***************************************************************************)
(* What the trait Storage of src/storage.rs promises its writer: entries   *)
(* lie one after the other, put adds one where the last one ends, and      *)
(* truncate removes an entry and all behind it.  Module Slate uses storage *)
(* this way; BlockStorage and KeyValueStorage implement it.                *)
(***************************************************************************)
EXTENDS Entry

VARIABLE storage

Init == storage = EmptyStorage

\* An entry knows where it is stored: its address is the position it is read at.
Put == \E e \in entries_of(storage') :
          /\ position_of(e) = storage.end
          /\ storage' = storage_put(storage, storage.end, e)

Cut == \E p \in DOMAIN storage.data : storage' = storage_truncate(storage, p)

Next == Put \/ Cut

Spec == Init /\ [][Next]_storage
=============================================================================
