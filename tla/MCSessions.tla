----------------------------- MODULE MCSessions -----------------------------
(* Two clients, each over any of the protocols. *)
EXTENDS Sessions

MCProtocols == {"http", "tcp", "ws", "bosswave"}
WebSockets  == {"ws"}

=============================================================================
