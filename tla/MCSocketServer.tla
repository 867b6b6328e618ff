--------------------------- MODULE MCSocketServer ---------------------------
(* net_io on small instances.  The rest of the server is an environment     *)
(* that sends broadcasts to clients it knows: it has read their 'S' and not *)
(* their 'C', and refuses a client, if at all, when it reads its 'S'.       *)
EXTENDS SocketServer, TLC

CONSTANT MaxBroadcasts    \* messages the environment sends

VARIABLES known, broadcasts

mcvars == <<vars, known, broadcasts>>

Symmetry == Permutations(Clients)

MCInit == Init /\ known = {} /\ broadcasts = MaxBroadcasts

\* net_logic reads a message, and may answer an 'S' with a refusal.
EnvReads ==
    LET m == Head(io2netlogic_que) IN
    \/ /\ NetLogicStep(TRUE, <<>>)
       /\ known' = IF m.type = "C" THEN known \ {m.uid} ELSE known \cup {m.uid}
       /\ UNCHANGED broadcasts
    \/ /\ broadcasts > 0
       /\ NetLogicStep(TRUE, <<ServiceFull(m.uid)>>)
       /\ m.type = "S"
       /\ broadcasts' = broadcasts - 1
       /\ UNCHANGED known

EnvSends(to) ==
    /\ broadcasts > 0
    /\ broadcasts' = broadcasts - 1
    /\ NetLogicStep(FALSE, <<ToNetIo(Broadcast("ENEMY_MSG", to, 0))>>)
    /\ UNCHANGED known

Env == EnvReads \/ \E u, v \in known : EnvSends(<<u>>) \/ (u # v /\ EnvSends(<<u, v>>))

MCNext ==
    \/ NetIoStep /\ UNCHANGED <<known, broadcasts>>
    \/ \E c \in Clients : ClientStep(c) /\ UNCHANGED <<known, broadcasts>>
    \/ Env

MCSpec == MCInit /\ [][MCNext]_mcvars
=============================================================================
