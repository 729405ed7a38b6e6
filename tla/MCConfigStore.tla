--------------------------- MODULE MCConfigStore ---------------------------
(* Values for the constants of ConfigStore: a thread for every kind of job.  *)
EXTENDS ConfigStore

MCThread == {"root", "op", "guest", "cli", "listener", "worker", "poller", "leaver"}

MCJob ==
    [t \in MCThread |->
        CASE t = "root" -> "set_operator"
          [] t = "op" -> "activate"
          [] t = "guest" -> "status"
          [] t = "cli" -> "config_set"
          [] t = "listener" -> "grant"
          [] t = "worker" -> "roster"
          [] t = "poller" -> "hostname"
          [] t = "leaver" -> "leave"]
=============================================================================
