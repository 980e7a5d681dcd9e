---------------------------- MODULE MCZfsMigrate ----------------------------
(* Model values for ZfsMigrate: a dataset with one child, written once or *)
(* twice, and sockets that hold one record, half of the stream.            *)
EXTENDS ZfsMigrate
=============================================================================
