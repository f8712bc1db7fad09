---------------------------- MODULE MCConnection ----------------------------
(* One agent, two registries, one of which may be known as an agent too. *)
EXTENDS Connection, TLC

CONSTANTS me, h1, r1, r2

Row(host, device) == [host |-> host, device |-> device]

MCInventories ==
  {<<>>, h1 :> Row("online", "online"), h1 :> Row("online", "offline"),
   h1 :> Row("offline", "online"), r2 :> Row("online", "none"),
   (h1 :> Row("busy", "busy")) @@ (r2 :> Row("online", "none"))}
=============================================================================
