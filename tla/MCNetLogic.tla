----------------------------- MODULE MCNetLogic -----------------------------
(* The router on a small instance: any messages about a few clients.       *)
EXTENDS NetLogic

MCUids     == 3 .. 5
MCIoMsgs   == UNION {{New(u), Data(u, "LOG_REQ"), Data(u, "BAD_LOG_REQ"), Closed(u)} :
                        u \in MCUids}
MCGameMsgs == {Broadcast("LOG_RSP", <<3>>, 3)}
=============================================================================
