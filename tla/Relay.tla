------------------------------- MODULE Relay --------------------------------
(***************************************************************************)
(* The blocking transfers of src/server/netutils.c and the two buffers, end *)
(* to end: a program fills the server's buffer and sends it with            *)
(* sock_blocking_write; a proxy moves the bytes on with sock_blocking_copy; *)
(* a client receives them into the client's buffer and takes them out.      *)
(* No program of the repository calls these functions yet: the three that   *)
(* do here are as open as the interfaces let them be.                       *)
(*                                                                          *)
(* The bytes are 1, 2, ... in the order in which they are written.  send    *)
(* and recv move any number of bytes that they are allowed to, or fail.     *)
(***************************************************************************)
EXTENDS Integers, Sequences

CONSTANTS
    Size,           \* capacity of the server's buffer
    Limit,          \* capacity of the client's buffer
    CopySize,       \* the array in sock_blocking_copy
    Total,          \* bound: the bytes the program writes
    MaxFailures,    \* bound: the calls of send and recv that fail
    Garbage         \* what the buffers hold at first

ASSUME RelayAssumption ==
    /\ {Size, Limit, CopySize} \subseteq Nat \ {0}
    /\ {Total, MaxFailures} \subseteq Nat

VARIABLES
    s_data, s_read, s_write,    \* the server's buffer
    produced,                   \* the bytes written so far
    w_pc,                       \* the server: in sock_blocking_write or not
    w_ret,                      \* what sock_blocking_write returned last
    errno,                      \* of the server
    wire1,                      \* sent by the server, not received yet
    p_pc, p_buf, p_ret,         \* sock_blocking_copy: where it is, buf, ret
    wire2,                      \* sent by the copy, not received yet
    c_data, c_read, c_write,    \* the client's buffer
    consumed,                   \* what the client has taken out
    failures

s_buffer == <<s_data, s_read, s_write>>
server == <<s_buffer, produced, w_pc, w_ret, errno>>
proxy == <<p_pc, p_buf, p_ret>>
client == <<c_data, c_read, c_write, consumed>>
vars == <<server, wire1, proxy, wire2, client, failures>>

Server == INSTANCE ServerBuffer WITH data <- s_data, read <- s_read, write <- s_write
Client == INSTANCE ClientBuffer WITH data <- c_data, read <- c_read, write <- c_write

AnErrno == 1    \* stands for every errno but 0

First(n, bytes) == SubSeq(bytes, 1, n)
Rest(n, bytes) == SubSeq(bytes, n + 1, Len(bytes))

Init ==
    /\ Server!buffer_init
    /\ produced = 0
    /\ w_pc = "program" /\ w_ret = 0 /\ errno = 0
    /\ wire1 = <<>>
    /\ p_pc = "recv" /\ p_buf = <<>> /\ p_ret = 0
    /\ wire2 = <<>>
    /\ Client!buffer_init
    /\ consumed = <<>>
    /\ failures = 0

Fails == failures < MaxFailures /\ failures' = failures + 1

-----------------------------------------------------------------------------
(* The program of the server.                                              *)

\* One byte with buffer_write, or several in place and buffer_write_adv; the
\* program looks at the room first.
Produce ==
    /\ w_pc = "program"
    /\ Server!buffer_can_write
    /\ \/ /\ produced < Total
          /\ Server!buffer_write(produced + 1)
          /\ produced' = produced + 1
       \/ \E n \in 2..Server!buffer_available_write :
            /\ produced + n <= Total
            /\ Server!buffer_write_adv([k \in 1..n |-> produced + k])
            /\ produced' = produced + n
    /\ UNCHANGED <<w_pc, w_ret, errno, wire1, proxy, wire2, client, failures>>

Flush ==
    /\ w_pc = "program"
    /\ w_pc' = "send"
    /\ UNCHANGED <<s_buffer, produced, w_ret, errno, wire1, proxy, wire2, client, failures>>

\* The program takes one byte with buffer_read and sends it itself.
SendByte ==
    /\ w_pc = "program"
    /\ Server!buffer_can_read
    /\ wire1' = Append(wire1, s_data[s_read])
    /\ Server!buffer_read
    /\ UNCHANGED <<produced, w_pc, w_ret, errno, proxy, wire2, client, failures>>

\* buffer_read leaves an empty buffer where it is: the program has to reset it.
Reset ==
    /\ w_pc = "program"
    /\ ~Server!buffer_can_read
    /\ s_write # 0
    /\ Server!buffer_reset
    /\ UNCHANGED <<produced, w_pc, w_ret, errno, wire1, proxy, wire2, client, failures>>

Close ==
    /\ w_pc = "program"
    /\ produced = Total
    /\ ~Server!buffer_can_read
    /\ w_pc' = "closed"
    /\ UNCHANGED <<s_buffer, produced, w_ret, errno, wire1, proxy, wire2, client, failures>>

-----------------------------------------------------------------------------
(* sock_blocking_write.                                                    *)

WriteReturns(ret) == w_pc' = "program" /\ w_ret' = ret

\* send takes some of the bytes; the loop goes on while there are more.
WriteSend ==
    /\ w_pc = "send"
    /\ \E n \in 1..Server!buffer_available_read :
        /\ wire1' = wire1 \o First(n, Server!Readable)
        /\ Server!buffer_read_adv(n)
        /\ \/ n < Server!buffer_available_read /\ UNCHANGED <<w_pc, w_ret>>
           \/ n = Server!buffer_available_read /\ WriteReturns(0)
    /\ UNCHANGED <<produced, errno, proxy, wire2, client, failures>>

\* With nothing in the buffer send is asked for no bytes and returns 0: the
\* function returns whatever errno an earlier call has left.
WriteNothing ==
    /\ w_pc = "send"
    /\ ~Server!buffer_can_read
    /\ WriteReturns(errno)
    /\ UNCHANGED <<s_buffer, produced, errno, wire1, proxy, wire2, client, failures>>

\* Deliberate defect: the error is not kept, as when recv fails in the copy.
WriteFailsQuietly ==
    /\ w_pc = "send"
    /\ Server!buffer_can_read
    /\ Fails
    /\ errno' = AnErrno
    /\ WriteReturns(0)
    /\ UNCHANGED <<s_buffer, produced, wire1, proxy, wire2, client>>

\* What was not sent stays in the buffer; the program may call again.
WriteFails ==
    /\ w_pc = "send"
    /\ Server!buffer_can_read
    /\ Fails
    /\ errno' = AnErrno
    /\ WriteReturns(AnErrno)
    /\ UNCHANGED <<s_buffer, produced, wire1, proxy, wire2, client>>

sock_blocking_write == WriteSend \/ WriteNothing \/ WriteFails

-----------------------------------------------------------------------------
(* sock_blocking_copy.                                                     *)

CopyReceives ==
    /\ p_pc = "recv"
    /\ \E n \in 1..Len(wire1) :
        /\ n <= CopySize
        /\ p_buf' = First(n, wire1)
        /\ wire1' = Rest(n, wire1)
    /\ p_pc' = "send"
    /\ UNCHANGED <<server, p_ret, wire2, client, failures>>

\* The source is closed; so the copy is complete.
CopyEnds ==
    /\ p_pc = "recv"
    /\ wire1 = <<>> /\ w_pc = "closed"
    /\ p_pc' = "returned"
    /\ UNCHANGED <<server, wire1, p_buf, p_ret, wire2, client, failures>>

\* recv returns -1, which ends the loop as well; ret stays 0.
CopyReceiveFails ==
    /\ p_pc = "recv"
    /\ Fails
    /\ p_pc' = "returned"
    /\ UNCHANGED <<server, wire1, p_buf, p_ret, wire2, client>>

\* Deliberate defect: out_ptr does not advance.
CopySendsFromStart ==
    /\ p_pc = "send"
    /\ \E n \in 1..Len(p_buf) :
        /\ wire2' = wire2 \o First(n, p_buf)
        /\ p_buf' = First(Len(p_buf) - n, p_buf)
    /\ p_pc' = IF p_buf' = <<>> THEN "recv" ELSE "send"
    /\ UNCHANGED <<server, wire1, p_ret, client, failures>>

CopySends ==
    /\ p_pc = "send"
    /\ \E n \in 1..Len(p_buf) :
        /\ wire2' = wire2 \o First(n, p_buf)
        /\ p_buf' = Rest(n, p_buf)
    /\ p_pc' = IF p_buf' = <<>> THEN "recv" ELSE "send"
    /\ UNCHANGED <<server, wire1, p_ret, client, failures>>

\* What is left in buf is lost with the call.
CopySendFails ==
    /\ p_pc = "send"
    /\ Fails
    /\ p_ret' = AnErrno
    /\ p_pc' = "returned"
    /\ UNCHANGED <<server, wire1, p_buf, wire2, client>>

sock_blocking_copy ==
    CopyReceives \/ CopyEnds \/ CopyReceiveFails \/ CopySends \/ CopySendFails

-----------------------------------------------------------------------------
(* The client.                                                             *)

\* recv into buffer_write_ptr, then buffer_write_adv; or one byte, which goes
\* in with buffer_write.
ClientReceives ==
    /\ Client!buffer_can_write
    /\ \E n \in 1..Len(wire2) :
        /\ n <= Client!Room
        /\ \/ Client!buffer_write_adv(n, First(n, wire2))
           \/ n = 1 /\ Client!buffer_write(wire2[1])
        /\ wire2' = Rest(n, wire2)
    /\ UNCHANGED <<server, wire1, proxy, consumed, failures>>

\* The -1 goes into buffer_write_adv as it is.
ClientReceiveFails ==
    /\ Fails
    /\ Client!buffer_write_adv(-1, <<>>)
    /\ UNCHANGED <<server, wire1, proxy, wire2, consumed>>

\* One byte with buffer_read, or several and buffer_read_adv.
ClientConsumes ==
    /\ Client!buffer_can_read
    /\ \/ /\ consumed' = Append(consumed, c_data[c_read])
          /\ Client!buffer_read
       \/ \E n \in 2..Len(Client!Readable) :
            /\ consumed' = consumed \o First(n, Client!Readable)
            /\ Client!buffer_read_adv(n)
    /\ UNCHANGED <<server, wire1, proxy, wire2, failures>>

ClientCompacts ==
    /\ Client!buffer_compact
    /\ UNCHANGED <<server, wire1, proxy, wire2, consumed, failures>>

-----------------------------------------------------------------------------
Next ==
    \/ Produce \/ Flush \/ SendByte \/ Reset \/ Close
    \/ sock_blocking_write
    \/ sock_blocking_copy
    \/ ClientReceives \/ ClientReceiveFails \/ ClientConsumes \/ ClientCompacts

(* The three processes keep running.  The program does not flush an empty   *)
(* buffer for ever, whence the strong fairness of what gets it further.     *)
Fairness ==
    /\ SF_vars(Produce \/ Reset \/ Close \/ (Flush /\ Server!buffer_can_read))
    /\ WF_vars(sock_blocking_write)
    /\ WF_vars(sock_blocking_copy)
    /\ WF_vars(ClientReceives)
    /\ WF_vars(ClientConsumes)

Spec == Init /\ [][Next]_vars /\ Fairness

-----------------------------------------------------------------------------
(* Properties.                                                             *)

Byte == 1..Total

\* Type invariant, with the invariant that client/buffer.h:25-26 draws:
\* 0 <= R <= W <= limit.
RelayTypeOK ==
    /\ s_data \in [0..Size - 1 -> Byte \cup {Garbage}]
    /\ s_write \in 0..Size /\ s_read \in 0..s_write
    /\ produced \in 0..Total
    /\ w_pc \in {"program", "send", "closed"}
    /\ w_ret \in {0, AnErrno} /\ errno \in {0, AnErrno}
    /\ wire1 \in Seq(Byte) /\ wire2 \in Seq(Byte)
    /\ p_pc \in {"recv", "send", "returned"}
    /\ p_buf \in Seq(Byte) /\ Len(p_buf) <= CopySize
    /\ p_ret \in {0, AnErrno}
    /\ c_data \in [0..Limit - 1 -> Byte \cup {Garbage}]
    /\ c_write \in 0..Limit /\ c_read \in 0..c_write
    /\ consumed \in Seq(Byte)
    /\ failures \in 0..MaxFailures

\* Whatever send and recv cut short or fail to do, and however the buffers are
\* filled, emptied, reset and compacted, every byte written is in one place,
\* and the places follow each other in the order of the bytes (buffer.c,
\* client/buffer.c:57-103, netutils.c:57-98).
InOrder ==
    consumed \o Client!Readable \o wire2 \o p_buf \o wire1 \o Server!Readable
        = [k \in 1..produced |-> k]

\* When sock_blocking_write returns 0 the whole buffer has been sent
\* (netutils.h:26-30).
WriteReports ==
    [][w_pc = "send" /\ w_pc' = "program" /\ w_ret' = 0
        => s_read' = s_write']_vars

\* sock_blocking_write reports an error only if a send has failed: "Retorna 0 si se
\* realizó sin problema" (netutils.h:29).
WriteErrorsAreReal ==
    [][w_pc = "send" /\ w_pc' = "program" /\ w_ret' # 0
        => failures' # failures]_vars

\* All the source will ever send has been passed on.
AllCopied == w_pc = "closed" /\ wire1 = <<>> /\ p_buf = <<>>

\* When sock_blocking_copy returns 0, it has copied the whole of the source
\* (netutils.h:36-38).
CopyReports == p_pc = "returned" /\ p_ret = 0 => AllCopied

\* The client gets everything, unless the copy has been cut short: no buffer
\* is ever full and empty at once, or left without room (buffer.c:74-77,
\* client/buffer.c:63-66).
AllDelivered == <>(Len(consumed) = Total \/ (p_pc = "returned" /\ ~AllCopied))

-----------------------------------------------------------------------------
(* Refinement: both buffers are queues.                                    *)

ServerQueue == INSTANCE ByteQueue WITH
    queue <- Server!Readable, Capacity <- Size, Bytes <- Byte
ClientQueue == INSTANCE ByteQueue WITH
    queue <- Client!Readable, Capacity <- Limit, Bytes <- Byte

\* Positions, resets and compaction implement queues of bytes.
BuffersAreQueues == ServerQueue!Spec /\ ClientQueue!Spec
=============================================================================
