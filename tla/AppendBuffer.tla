---------------------------- MODULE AppendBuffer ----------------------------
(***************************************************************************)
(* The bytes net_io writes to one client (socket_server.c): send_data      *)
(* writes a message or, when the kernel's buffer is full, appends the rest *)
(* to the list of blocks of the socket; send_buffer writes the list when   *)
(* the socket is writable again.  SocketServer keeps of all this only      *)
(* whether something is buffered.                                          *)
(*                                                                         *)
(* Bytes are numbered from 1 in the order send_data is given them.  Of a   *)
(* message's contents only the place of its first zero byte matters: the   *)
(* bytes behind it are other than zero.                                    *)
(***************************************************************************)
EXTENDS Integers, Sequences

CONSTANTS
    MaxLen,         \* the longest message
    MaxBytes        \* the bytes given to send_data in all

ASSUME LimitsAssumption == MaxLen \in Nat \ {0} /\ MaxBytes \in Nat

VARIABLES
    blocks,         \* head .. tail: [current, last, zero], as byte numbers
    remain_size,
    epollout,       \* EPOLLOUT is asked for
    phase,          \* "idle" in the event loop, "writable" or "writing" in
                    \* send_buffer, "closed" after close_fd
    given,          \* history: the bytes given to send_data so far
    wire,           \* history: the bytes the kernel took, in order
    blanked,        \* history: bytes that went out as zero and were not
    lost            \* history: bytes of blocks freed with a part unsent

history == <<given, wire, blanked, lost>>
bufferVars == <<blocks, remain_size, epollout, phase, history>>

Block == [current : Nat, last : Nat, zero : Nat]

\* node->size
SizeOf(block) == block.last + 1 - block.current

Run(from, n) == [i \in 1 .. n |-> from + i - 1]

BufferInit ==
  /\ blocks = <<>> /\ remain_size = 0
  /\ epollout = FALSE /\ phase = "idle"
  /\ given = 0 /\ wire = <<>> /\ blanked = {} /\ lost = {}

-----------------------------------------------------------------------------
(* append_remaindata: the block holds the whole message, its unsent part   *)
(* starts behind the n bytes the kernel took.  strncpy stops at the first  *)
(* zero byte and fills the rest with zeros.                                *)

Rest(len, zero, n) ==
  [current |-> given + n + 1, last |-> given + len, zero |-> given + zero]

AppendRemaindata(len, zero, n) ==
  /\ blocks' = Append(blocks, Rest(len, zero, n))
  /\ remain_size' = remain_size + (len - n)

-----------------------------------------------------------------------------
(* send_data of a message of len bytes with its first zero byte at zero;   *)
(* zero = len when there is none (nothing is behind it then, either).      *)

\* Nothing is buffered: the kernel takes n of the bytes, none on EAGAIN.
SendDirect(len, zero, n) ==
  /\ blocks = <<>>
  /\ wire' = wire \o Run(given + 1, n)
  /\ IF n = len
     THEN UNCHANGED <<blocks, remain_size, epollout>>
     ELSE AppendRemaindata(len, zero, n) /\ epollout' = TRUE

\* A slip: the list is not looked at.
SendBehind_Slip(len, zero) ==
  /\ blocks # <<>>
  /\ wire' = wire \o Run(given + 1, len)
  /\ UNCHANGED <<blocks, remain_size, epollout>>

SendBehind(len, zero) ==
  /\ blocks # <<>>
  /\ AppendRemaindata(len, zero, 0)
  /\ UNCHANGED <<wire, epollout>>

SendData ==
  /\ phase = "idle"
  /\ \E len \in 1 .. MaxLen : \E zero \in 1 .. len :
       /\ given + len <= MaxBytes
       /\ given' = given + len
       /\ SendBehind(len, zero) \/ \E n \in 0 .. len : SendDirect(len, zero, n)
  /\ UNCHANGED <<phase, blanked, lost>>

-----------------------------------------------------------------------------
(* send_buffer, one write(2) at a time.                                    *)

\* epoll_wait reports EPOLLOUT: the kernel has room for a byte at least.
Writable ==
  /\ phase = "idle" /\ epollout
  /\ phase' = "writable"
  /\ UNCHANGED <<blocks, remain_size, epollout, history>>

\* The block behind a write that left a part of it.
Written(block, n) == [block EXCEPT !.current = @ + n]

(* The block is freed when the write took all of it, and when the write    *)
(* took as much as it left: size is compared after it was brought down.    *)
Done(block, n) == n = SizeOf(block) \/ n = SizeOf(Written(block, n))

WriteBlock(n) ==
  /\ phase \in {"writable", "writing"} /\ blocks # <<>>
  /\ LET tmp == Head(blocks)
         rest == Written(tmp, n)
     IN
     /\ n \in 1 .. SizeOf(tmp)
     /\ wire' = wire \o Run(tmp.current, n)
     /\ blanked' = blanked \cup {b \in tmp.current .. tmp.current + n - 1 : b > tmp.zero}
     /\ IF Done(tmp, n)
        THEN /\ blocks' = Tail(blocks)
             /\ lost' = lost \cup rest.current .. rest.last
        ELSE /\ blocks' = [blocks EXCEPT ![1] = rest]
             /\ UNCHANGED lost
     /\ remain_size' = remain_size - n
  /\ phase' = "writing"
  /\ UNCHANGED <<epollout, given>>

\* A slip: EPOLLOUT is given up although the kernel is full again.
BufferFull_Slip ==
  /\ phase = "writing" /\ blocks # <<>>
  /\ phase' = "idle"
  /\ epollout' = FALSE
  /\ UNCHANGED <<blocks, remain_size, history>>

\* EAGAIN: the socket stays in the write set.
BufferFull ==
  /\ phase = "writing" /\ blocks # <<>>
  /\ phase' = "idle"
  /\ UNCHANGED <<blocks, remain_size, epollout, history>>

BufferSent ==
  /\ phase \in {"writable", "writing"} /\ blocks = <<>>
  /\ epollout' = FALSE
  /\ phase' = "idle"
  /\ UNCHANGED <<blocks, remain_size, history>>

-----------------------------------------------------------------------------
(* A write fails, or the end of the client's stream is read: close_fd      *)
(* frees the list.                                                         *)
Close ==
  /\ phase # "closed"
  /\ phase' = "closed"
  /\ blocks' = <<>> /\ remain_size' = 0
  /\ epollout' = FALSE
  /\ UNCHANGED history

SendBuffer == BufferFull \/ BufferSent \/ \E n \in 1 .. MaxLen : WriteBlock(n)

BufferNext == SendData \/ Writable \/ SendBuffer \/ Close

(* The loop of net_io goes on, and the client reads what it is sent, so a  *)
(* socket in the write set is reported in the end.                         *)
BufferFairness == WF_bufferVars(Writable) /\ WF_bufferVars(SendBuffer)

BufferSpec == BufferInit /\ [][BufferNext]_bufferVars
FairBufferSpec == BufferSpec /\ BufferFairness

-----------------------------------------------------------------------------
(* Properties.                                                             *)

Sent == {wire[i] : i \in 1 .. Len(wire)}
Buffered == UNION {blocks[i].current .. blocks[i].last : i \in 1 .. Len(blocks)}

BufferTypeOK ==
  /\ blocks \in Seq(Block)
  /\ \A i \in 1 .. Len(blocks) : blocks[i].current <= blocks[i].last
  /\ remain_size \in Int
  /\ epollout \in BOOLEAN
  /\ phase \in {"idle", "writable", "writing", "closed"}
  /\ given \in Nat
  /\ wire \in Seq(Nat)
  /\ blanked \subseteq Nat /\ lost \subseteq Nat

(***************************************************************************)
(* Whatever the kernel takes of each write, and wherever the list stood    *)
(* when a message came, bytes leave in the order they were given: none     *)
(* overtakes another and none leaves twice (socket_server.c:98-106,        *)
(* 426-433, 456-488).                                                      *)
(***************************************************************************)
InOrder ==
  /\ \A i, j \in 1 .. Len(wire) : i < j => wire[i] < wire[j]
  /\ \A i \in 1 .. Len(wire), j \in 1 .. Len(blocks) : wire[i] < blocks[j].current
  /\ \A i, j \in 1 .. Len(blocks) : i < j => blocks[i].last < blocks[j].current
  /\ \A j \in 1 .. Len(blocks) : blocks[j].last <= given

(***************************************************************************)
(* Where the bytes of a living connection are: each has left, waits in the *)
(* list, or was freed with a block of which exactly half was written.      *)
(* That "this block has been sent completely" (the comment at              *)
(* socket_server.c:431) is not true of those blocks; of all others it is   *)
(* (socket_server.c:426-440).                                              *)
(***************************************************************************)
Accounted ==
  phase # "closed" => /\ Sent \cup Buffered \cup lost = 1 .. given
             /\ lost \cap (Sent \cup Buffered) = {}

(***************************************************************************)
(* remain_size is brought up in one function and down in another, by       *)
(* different amounts: it stays the number of bytes that were given and not *)
(* taken by the kernel (socket_server.c:96, 425).                          *)
(***************************************************************************)
RemainCounts == phase # "closed" => remain_size = given - Len(wire)

(***************************************************************************)
(* A byte that was put aside does not stay: while the connection lives and *)
(* the client reads, it leaves, or is lost with a half-written block       *)
(* (EPOLLOUT asked for at socket_server.c:482, given up only at 444).      *)
(***************************************************************************)
Delivered ==
  \A b \in 1 .. MaxBytes : b <= given ~> b \in Sent \cup lost \/ phase = "closed"
=============================================================================
