---------------------------- MODULE RequestStream ----------------------------
(***************************************************************************)
(* How the net_io thread cuts the byte streams of its clients into         *)
(* requests (socket_server.c: readn, dispose_readmessage).  A request is   *)
(* one byte of length and that many bytes, and arrives in pieces of any    *)
(* size, several requests in a piece or one in several pieces.             *)
(*                                                                         *)
(* One action is one read(2).  A read that finds nothing (EAGAIN, EINTR)   *)
(* is tried again at once, for ever: it changes no variable, and so is a   *)
(* step that stutters.  Bytes are lengths and contents alike, so that a    *)
(* reader out of step takes one for the other.                             *)
(***************************************************************************)
EXTENDS Integers, Sequences, FiniteSetsExt

S == INSTANCE SequencesExt

CONSTANTS
    Clients,
    Bodies,       \* the requests a client may send, without the length
    MaxSent,      \* the clients send at most this many in all
    MaxEvent,     \* MAX_EVENT
    NoClient

ASSUME BodiesAssumption == \A b \in Bodies : b \in Seq(0 .. 255) /\ Len(b) \in 0 .. 255
ASSUME LimitsAssumption ==
    /\ IsFiniteSet(Clients) /\ NoClient \notin Clients
    /\ MaxSent \in Nat \ {0} /\ MaxEvent \in Nat \ {0}

VARIABLES
    events,    \* clients of the last epoll_wait not yet handled
    pc,        \* "loop", or the call of readn under way: "length" or "body"
    cur,       \* the client being read
    nleft,     \* bytes readn still wants
    buf,       \* bytes readn has
    passed,    \* the requests passed on to net_logic
    status,    \* kernel: "open", "fin" or "reset", until the server closes it
    stream,    \* kernel: bytes that arrived and were not read
    unsent,    \* client: the rest of the request it is sending
    sent,      \* history: the requests the client began to send
    ended      \* history: how the client ended

netio == <<events, pc, cur, nleft, buf, passed>>
kernel == <<status, stream>>
client == <<unsent, sent, ended>>
vars == <<netio, kernel, client>>

Init ==
    /\ events = {} /\ pc = "loop" /\ cur = NoClient /\ nleft = 0 /\ buf = <<>>
    /\ passed = [c \in Clients |-> <<>>]
    /\ status = [c \in Clients |-> "open"]
    /\ stream = [c \in Clients |-> <<>>]
    /\ unsent = [c \in Clients |-> <<>>]
    /\ sent = [c \in Clients |-> <<>>]
    /\ ended = [c \in Clients |-> "no"]

-----------------------------------------------------------------------------
(* net_io.                                                                 *)

\* A slip: a client whose stream ended is not reported any more.
Readable_NoEnd(c) == status[c] # "closed" /\ stream[c] # <<>>

\* epoll is level-triggered: whatever was left unread is reported again.
Readable(c) ==
    status[c] # "closed" /\ (stream[c] # <<>> \/ status[c] # "open")

EpollWait ==
    LET Ready == {c \in Clients : Readable(c)} IN
    /\ pc = "loop" /\ events = {} /\ Ready # {}
    /\ \E R \in SUBSET Ready :
          /\ Cardinality(R) = IF Cardinality(Ready) <= MaxEvent
                              THEN Cardinality(Ready) ELSE MaxEvent
          /\ events' = R
    /\ UNCHANGED <<pc, cur, nleft, buf, passed, kernel, client>>

\* readn is called for n bytes.
Readn(call, n) == pc' = call /\ nleft' = n /\ buf' = <<>>

ReadEvent(c) ==
    /\ pc = "loop" /\ c \in events
    /\ events' = events \ {c}
    /\ cur' = c
    /\ Readn("length", 1)
    /\ UNCHANGED <<passed, kernel, client>>

PassOn(request) ==
    /\ passed' = [passed EXCEPT ![cur] = Append(@, request)]
    /\ Readn("loop", 0)

\* readn is done: the length is known, or the request whole.  A length of 0
\* is accepted: readn of no bytes returns at once.
ReadnReturns(bytes) ==
    IF pc = "body" THEN PassOn(bytes)
    ELSE IF bytes[1] = 0 THEN PassOn(<<>>)
    ELSE Readn("body", bytes[1]) /\ UNCHANGED passed

\* A slip: what one read(2) brings is taken for all that was asked for.
Read_Once ==
    LET Least(m, n) == IF m <= n THEN m ELSE n
        n == Least(nleft, Len(stream[cur]))
    IN
    /\ pc # "loop"
    /\ status[cur] # "reset" /\ stream[cur] # <<>>
    /\ stream' = [stream EXCEPT ![cur] = SubSeq(@, n + 1, Len(@))]
    /\ ReadnReturns(SubSeq(stream[cur], 1, n))
    /\ UNCHANGED <<events, cur, status, client>>

\* A read(2) that finds data takes as much of it as readn still wants.
Read ==
    LET Least(m, n) == IF m <= n THEN m ELSE n
        n == Least(nleft, Len(stream[cur]))
        got == buf \o SubSeq(stream[cur], 1, n)
    IN
    /\ pc # "loop"
    /\ status[cur] # "reset" /\ stream[cur] # <<>>
    /\ stream' = [stream EXCEPT ![cur] = SubSeq(@, n + 1, Len(@))]
    /\ IF n = nleft
       THEN ReadnReturns(got)
       ELSE /\ nleft' = nleft - n
            /\ buf' = got
            /\ UNCHANGED <<pc, passed>>
    /\ UNCHANGED <<events, cur, status, client>>

\* A slip: a stream that has ended is closed before it is empty.
ReadEnd_Early ==
    /\ pc # "loop"
    /\ status[cur] # "open"
    /\ status' = [status EXCEPT ![cur] = "closed"]
    /\ stream' = [stream EXCEPT ![cur] = <<>>]
    /\ Readn("loop", 0)
    /\ UNCHANGED <<events, cur, passed, client>>

\* The end of the stream, or an error: what was read of a request is freed
\* and the connection closed.
ReadEnd ==
    /\ pc # "loop"
    /\ \/ status[cur] = "reset"
       \/ status[cur] = "fin" /\ stream[cur] = <<>>
    /\ status' = [status EXCEPT ![cur] = "closed"]
    /\ stream' = [stream EXCEPT ![cur] = <<>>]
    /\ Readn("loop", 0)
    /\ UNCHANGED <<events, cur, passed, client>>

NetIo == EpollWait \/ (\E c \in events : ReadEvent(c)) \/ Read \/ ReadEnd

-----------------------------------------------------------------------------
(* The clients and the network between.                                    *)

Sent == MapThenSumSet(LAMBDA c : Len(sent[c]), Clients)

Begin(c, b) ==
    /\ status[c] = "open" /\ unsent[c] = <<>> /\ Sent < MaxSent
    /\ unsent' = [unsent EXCEPT ![c] = <<Len(b)>> \o b]
    /\ sent' = [sent EXCEPT ![c] = Append(@, b)]
    /\ UNCHANGED <<netio, kernel, ended>>

Deliver(c, n) ==
    /\ status[c] = "open"
    /\ stream' = [stream EXCEPT ![c] = @ \o SubSeq(unsent[c], 1, n)]
    /\ unsent' = [unsent EXCEPT ![c] = SubSeq(@, n + 1, Len(@))]
    /\ UNCHANGED <<netio, status, sent, ended>>

\* The client ends its stream, even within a request.
End(c) ==
    /\ status[c] = "open"
    /\ status' = [status EXCEPT ![c] = "fin"]
    /\ ended' = [ended EXCEPT ![c] = IF unsent[c] = <<>> THEN "whole" ELSE "half"]
    /\ UNCHANGED <<netio, stream, unsent, sent>>

\* A reset takes what was not read with it.
Reset(c) ==
    /\ status[c] \in {"open", "fin"}
    /\ status' = [status EXCEPT ![c] = "reset"]
    /\ stream' = [stream EXCEPT ![c] = <<>>]
    /\ ended' = [ended EXCEPT ![c] = "reset"]
    /\ UNCHANGED <<netio, unsent, sent>>

Sends(c) == \E n \in 1 .. Len(unsent[c]) : Deliver(c, n)

Next ==
    \/ NetIo
    \/ \E c \in Clients : Sends(c) \/ End(c) \/ Reset(c) \/ \E b \in Bodies : Begin(c, b)

Spec == Init /\ [][Next]_vars

(***************************************************************************)
(* The thread is scheduled.  Clients owe nothing: each may stop anywhere,  *)
(* in the middle of a request too.                                         *)
(***************************************************************************)
FairSpec == Spec /\ WF_vars(NetIo)

-----------------------------------------------------------------------------
(* Properties.                                                             *)

Byte == 0 .. 255

TypeOK ==
    /\ events \subseteq Clients
    /\ pc \in {"loop", "length", "body"}
    /\ cur \in Clients \cup {NoClient} /\ (pc # "loop" => cur \in Clients)
    /\ nleft \in Byte /\ (nleft = 0 <=> pc = "loop")
    /\ buf \in Seq(Byte)
    /\ \A c \in Clients :
          /\ status[c] \in {"open", "fin", "reset", "closed"}
          /\ ended[c] \in {"no", "whole", "half", "reset"}
          /\ stream[c] \in Seq(Byte) /\ unsent[c] \in Seq(Byte)
          /\ \A i \in DOMAIN passed[c] : passed[c][i] \in Seq(Byte)
          /\ \A i \in DOMAIN sent[c] : sent[c][i] \in Bodies

(***************************************************************************)
(* net_logic gets the requests each client sent, in order and each whole,  *)
(* however the network cuts the stream (socket_server.c:314-358).          *)
(***************************************************************************)
RequestsAsSent == \A c \in Clients : S!IsPrefix(passed[c], sent[c])

(***************************************************************************)
(* A connection is closed only when every whole request that came before   *)
(* the end of its stream has been passed on; half a request is not         *)
(* (socket_server.c:324-331, 348).                                         *)
(***************************************************************************)
ReadBeforeClosed ==
    \A c \in Clients : status[c] = "closed" =>
        /\ ended[c] = "whole" => passed[c] = sent[c]
        /\ ended[c] = "half"  => passed[c] = S!Front(sent[c])

(***************************************************************************)
(* readn waits for good, in the middle of a request whose client neither   *)
(* goes on nor ends the connection: it tries again without a timeout       *)
(* (socket_server.c:319-324).                                              *)
(***************************************************************************)
HeldUp ==
    <>[](/\ pc = "body" /\ status[cur] = "open" /\ stream[cur] = <<>>
         /\ unsent[cur] # <<>>)

(***************************************************************************)
(* Every request whose bytes have all arrived is passed on, unless its     *)
(* client resets the connection, and every client that ended is closed,    *)
(* however clients share the events (socket_server.c:706-766).  The one    *)
(* thing that can prevent it, for all clients, is one of them that stops   *)
(* within a request for ever.                                              *)
(***************************************************************************)
AllRead ==
    \/ HeldUp
    \/ \A c \in Clients :
          /\ \A n \in 1 .. MaxSent :
                Len(sent[c]) >= n /\ unsent[c] = <<>>
                    ~> Len(passed[c]) >= n \/ ended[c] = "reset"
          /\ status[c] # "open" ~> status[c] = "closed"
=============================================================================
