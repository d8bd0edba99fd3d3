----------------------------- MODULE MC_Session -----------------------------
(***************************************************************************)
(* Instances of Session for TLC.  Commands come in groups so that a run    *)
(* gets the ones its question is about and stays small.                    *)
(***************************************************************************)
EXTENDS Session

StatusCommands == {"begin", "commit", "rollback", "select", "insert"}
TxCommands == StatusCommands \union {"show", "scroll", "declarewrite", "declareinto", "fetch"}
PortalCommands ==
  {"begin", "ddl", "set", "declare", "fetch", "scroll", "close", "closeall"}
WriterCommands == {"begin", "declarewrite", "fetch"}
MessageCommands == (PortalCommands \ {"scroll"}) \union {"rollback", "select", "declarewrite"}
=============================================================================
