------------------------------- MODULE KeyMap -------------------------------
(***************************************************************************)
(* What the hash table of DuiLib promises: a map from texts to pointers.   *)
(* A table that has been given no room takes nothing, and its Set answers  *)
(* with the pointer it was given.                                          *)
(***************************************************************************)
EXTENDS Naturals

CONSTANTS Keys, Data, NULL

VARIABLES
  map,    \* the pointer of each text, NULL for a text that is not there
  room,
  result  \* what the last call returned

vars == <<map, room, result>>

Init ==
  /\ map = [k \in Keys |-> NULL]
  /\ room = TRUE
  /\ result = NULL

Find(k) == result' = map[k] /\ UNCHANGED <<map, room>>

Insert(k, d) ==
  IF room /\ map[k] = NULL
  THEN result' = TRUE /\ map' = [map EXCEPT ![k] = d] /\ UNCHANGED room
  ELSE result' = FALSE /\ UNCHANGED <<map, room>>

Set(k, d) ==
  IF room
  THEN result' = map[k] /\ map' = [map EXCEPT ![k] = d] /\ UNCHANGED room
  ELSE result' = d /\ UNCHANGED <<map, room>>

Remove(k) ==
  /\ result' = (map[k] # NULL)
  /\ map' = [map EXCEPT ![k] = NULL]
  /\ UNCHANGED room

Resize(n) ==
  /\ result' = NULL
  /\ map' = [k \in Keys |-> NULL]
  /\ room' = (n > 0)

Next ==
  \/ \E k \in Keys :
       \/ Find(k) \/ Remove(k)
       \/ \E d \in Data : Insert(k, d) \/ Set(k, d)
  \/ \E n \in {0, 1} : Resize(n)

Spec == Init /\ [][Next]_vars
=============================================================================
