----------------------------- MODULE ServerTable -----------------------------
(***************************************************************************)
(* A server with any number of threads implements IndexedTable: where no   *)
(* client makes or deletes mappings, what its threads do to the container  *)
(* users, each step of a command interleaved with the others', comes to    *)
(* the steps of a table at which one command is served at a time.          *)
(***************************************************************************)
EXTENDS Serial, RukoDbTable

(* Its document and its indices, as the last command that ended left them. *)
Doc     == Began.db
Indices == Began.mappers

Served == INSTANCE IndexedTable WITH
  Key <- RowKey, Interactive <- FALSE, NoReply <- NoAnswer,
  rows <- RowsIn(Doc),
  phantom <- Append(Users, "") \in DOMAIN Doc,
  mapper <- MapperIn(Indices),
  status <- IF status = "up" THEN "up" ELSE "down",
  disk <- [rows |-> RowsIn(disk.db), mapper |-> MapperIn(disk.mappers)],
  reply <- TableReply(reply)

(* The table is served one command at a time. *)
ServesTable == Served!Spec
=============================================================================
