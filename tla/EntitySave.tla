------------------------------ MODULE EntitySave ------------------------------
(***************************************************************************)
(* What repository.save(entity) of TypeORM does to a row that exists, as   *)
(* the services use it (reviews.service.ts:133, products.service.ts:207).  *)
(* Outside a transaction that has locked the row it is two statements: a   *)
(* SELECT without a lock reads the row once more, and then one UPDATE      *)
(* writes the columns in which the entity differed from what was read,     *)
(* over whatever the row holds by then.  A module that uses it gives each  *)
(* statement an action of its own.                                         *)
(***************************************************************************)

\* The row after the UPDATE: entity is what is saved, before what the save has
\* read once more, and now what the row holds.
Written(entity, before, now) ==
  [c \in DOMAIN now |-> IF entity[c] = before[c] THEN now[c] ELSE entity[c]]

===============================================================================
