---------------------------- MODULE MCIpcServer ----------------------------
(* Values for the constants of IpcServer: root names the operator while the  *)
(* operator and a stranger have requests of their own.                       *)
EXTENDS IpcServer

MCClient == {"root", "op", "guest"}
MCThread == MCClient \cup {"cli"}

MCJob ==
    [t \in MCThread |->
        CASE t = "root" -> "set_operator"
          [] t = "op" -> "activate"
          [] t = "guest" -> "status"
          [] t = "cli" -> "config_set"]

MCUid ==
    [c \in MCClient |->
        CASE c = "root" -> "root" [] c = "op" -> "operator" [] c = "guest" -> "other"]
=============================================================================
