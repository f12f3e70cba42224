-------------------------------- MODULE Rpc --------------------------------
(***************************************************************************)
(* ggml/src/ggml-rpc.cpp: buffers that live on a server.  The processes    *)
(* that use it share one connection per endpoint, kept by the buffers that *)
(* were allocated through it; the server serves one connection at a time   *)
(* and frees what a connection has allocated when it ends.                 *)
(*                                                                         *)
(* A request is sent and answered as a whole; the data of a buffer is one  *)
(* value, which SET_TENSOR, BUFFER_CLEAR and GRAPH_COMPUTE write.          *)
(***************************************************************************)
EXTENDS Integers, Sequences, SequencesExt

CONSTANTS
    Clients, Nobody,
    Addrs,      \* addresses of buffers on the server
    Values,
    MaxCalls    \* bound: calls a client makes before it exits

VARIABLES
    calls,      \* calls a client has made, or MaxCalls + 1 when it is gone
    sock,       \* the connection of a client, 0 if it has none
    bufs,       \* per client, its buffers: address and the value last written
    waiting,    \* per client, the call it waits for the answer of
    up,         \* connections whose client has not closed them
    backlog,    \* connections the server has not accepted
    serving,    \* the connection it serves, or 0
    request, answer,  \* per connection, what is on its way
    buffers,    \* rpc_server::buffers
    heap        \* what is allocated on the server, and its data

rpcvars == <<calls, sock, bufs, waiting, up, backlog, serving, request, answer, buffers, heap>>
server  == <<backlog, serving, buffers, heap>>

None  == [op |-> "none"]
Error == [op |-> "error"]

NobodyConnected ==
    /\ sock = [c \in Clients |-> 0] /\ bufs = [c \in Clients |-> {}]
    /\ waiting = [c \in Clients |-> None] /\ up = {}
    /\ backlog = <<>> /\ serving = 0
    /\ request = <<>> /\ answer = <<>>
    /\ buffers = {} /\ heap = [a \in {} |-> 0]

RpcInit == calls = [c \in Clients |-> 0] /\ NobodyConnected

Gone(c) == calls[c] > MaxCalls

----------------------------------------------------------------------------
(* A client.                                                               *)

Calls(c) ==
    [op : {"alloc", "ask"}]
      \cup [op : {"free", "get"}, buf : bufs[c]]
      \cup [op : {"set"}, buf : bufs[c], value : Values]

\* get_socket: the connection there is, or a new one
Call(c, m) ==
    /\ calls[c] < MaxCalls /\ waiting[c] = None
    /\ calls' = [calls EXCEPT ![c] = @ + 1]
    /\ waiting' = [waiting EXCEPT ![c] = m]
    /\ IF sock[c] # 0
       THEN /\ request' = [request EXCEPT ![sock[c]] = m]
            /\ UNCHANGED <<sock, up, backlog, answer>>
       ELSE LET new == Len(request) + 1
            IN  /\ sock' = [sock EXCEPT ![c] = new]
                /\ up' = up \cup {new} /\ backlog' = Append(backlog, new)
                /\ request' = Append(request, m) /\ answer' = Append(answer, None)
    /\ UNCHANGED <<bufs, serving, buffers, heap>>

\* mutation: the buffers do not keep the connection
KeptNot(B) == FALSE

\* the buffers hold the last references to the socket
Kept(B) == B # {}

Exits(c) ==
    /\ calls' = [calls EXCEPT ![c] = MaxCalls + 1]
    /\ sock' = [sock EXCEPT ![c] = 0] /\ up' = up \ {sock[c]}
    /\ bufs' = [bufs EXCEPT ![c] = {}] /\ waiting' = [waiting EXCEPT ![c] = None]

\* what the client has after the answer to its call
After(c, m, r) ==
    CASE m.op = "alloc" -> IF r.addr = Nobody THEN bufs[c] ELSE bufs[c] \cup {[addr |-> r.addr, value |-> Nobody]}
      [] m.op = "free"  -> bufs[c] \ {m.buf}
      [] m.op = "set"   -> (bufs[c] \ {m.buf}) \cup {[m.buf EXCEPT !.value = m.value]}
      [] OTHER          -> bufs[c]

\* GGML_ASSERT(status): a client whose connection fails aborts.
Receive(c) ==
    /\ waiting[c] # None /\ answer[sock[c]] # None
    /\ IF answer[sock[c]] = Error
       THEN Exits(c)
       ELSE LET B == After(c, waiting[c], answer[sock[c]])
            IN  /\ bufs' = [bufs EXCEPT ![c] = B]
                /\ IF Kept(B) THEN UNCHANGED <<sock, up>>
                   ELSE sock' = [sock EXCEPT ![c] = 0] /\ up' = up \ {sock[c]}
                /\ waiting' = [waiting EXCEPT ![c] = None]
                /\ UNCHANGED calls
    /\ answer' = [answer EXCEPT ![sock[c]] = None]
    /\ UNCHANGED <<request, server>>

\* it exits when it likes, whatever it waits for
Exit(c) ==
    /\ ~Gone(c)
    /\ Exits(c)
    /\ UNCHANGED <<request, answer, server>>

----------------------------------------------------------------------------
(* The server.                                                             *)

Accept ==
    /\ serving = 0 /\ backlog # <<>>
    /\ serving' = Head(backlog) /\ backlog' = Tail(backlog)
    /\ UNCHANGED <<calls, sock, bufs, waiting, up, request, answer, buffers, heap>>

\* mutation: what the connection allocated stays
Leaked == UNCHANGED heap

\* rpc_server::~rpc_server
FreedAll == heap' = [a \in DOMAIN heap \ buffers |-> heap[a]]

EndService == serving' = 0 /\ buffers' = {} /\ FreedAll

Answer(r) ==
    /\ request' = [request EXCEPT ![serving] = None]
    /\ answer' = [answer EXCEPT ![serving] = r]
    /\ UNCHANGED <<calls, sock, bufs, waiting, up, backlog>>

Ok == [op |-> "ok"]
Serves(op) == serving # 0 /\ request[serving].op = op

\* ... or there is no memory, and the pointer is null
AllocBuffer ==
    /\ Serves("alloc")
    /\ \/ \E a \in Addrs \ DOMAIN heap :
             /\ heap' = [x \in DOMAIN heap \cup {a} |-> IF x = a THEN Nobody ELSE heap[x]]
             /\ buffers' = buffers \cup {a}
             /\ Answer([op |-> "ok", addr |-> a])
       \/ /\ UNCHANGED <<heap, buffers>>
          /\ Answer([op |-> "ok", addr |-> Nobody])
    /\ UNCHANGED serving

\* A request for a buffer; if it is not of this connection, that is closed.
OnBuffer(op, b, Do) ==
    /\ Serves(op)
    /\ IF b \in buffers THEN Do /\ UNCHANGED serving
       ELSE Answer(Error) /\ EndService

Addr == request[serving].buf.addr

FreeBuffer ==
    OnBuffer("free", Addr, /\ heap' = [a \in DOMAIN heap \ {Addr} |-> heap[a]]
                           /\ buffers' = buffers \ {Addr}
                           /\ Answer(Ok))

SetTensor ==
    OnBuffer("set", Addr, /\ heap' = [heap EXCEPT ![Addr] = request[serving].value]
                          /\ Answer(Ok) /\ UNCHANGED buffers)

GetTensor ==
    OnBuffer("get", Addr, Answer([op |-> "ok", value |-> heap[Addr]]) /\ UNCHANGED <<buffers, heap>>)

\* GET_ALIGNMENT, GET_MAX_SIZE, GET_DEVICE_MEMORY
Tell == Serves("ask") /\ Answer(Ok) /\ UNCHANGED <<serving, buffers, heap>>

\* mutation: the end of the stream is not taken for one (n < 0 for n <= 0)
NeverClosed == FALSE

\* recv_data fails once the client has closed the connection
Closed == serving \notin up

HangUp ==
    /\ serving # 0 /\ Closed /\ request[serving] = None
    /\ EndService
    /\ UNCHANGED <<calls, sock, bufs, waiting, up, backlog, request, answer>>

Server == Accept \/ AllocBuffer \/ FreeBuffer \/ SetTensor \/ GetTensor \/ Tell \/ HangUp

Client(c) == (\E m \in Calls(c) : Call(c, m)) \/ Receive(c) \/ Exit(c)

\* all clients have gone, and the server is back at accept
RpcEnded == (\A c \in Clients : Gone(c)) /\ serving = 0 /\ backlog = <<>> /\ UNCHANGED rpcvars

RpcNext == Server \/ (\E c \in Clients : Client(c)) \/ RpcEnded

\* The server is one thread; a process that waits for nothing goes on, and ends.
RpcFairness ==
    /\ WF_rpcvars(Server)
    /\ \A c \in Clients : WF_rpcvars(Receive(c)) /\ WF_rpcvars(waiting[c] = None /\ Exit(c))

RpcSpec == RpcInit /\ [][RpcNext]_rpcvars /\ RpcFairness

----------------------------------------------------------------------------

\* A client reads what it has last written: while it has a buffer, its
\* connection and with it the memory on the server stay its own, however
\* clients come, wait, go or die (get_socket, rpc_serve_client).
ReadsItsWrites ==
    \A c \in Clients :
        (waiting[c].op = "get" /\ answer[sock[c]] # None) =>
            answer[sock[c]] = [op |-> "ok", value |-> waiting[c].buf.value]

\* Memory on the server belongs to the connection that is served.
NothingLeaks == DOMAIN heap = buffers /\ (serving = 0 => buffers = {})

\* Every client is served in the end, once those before it have left.
AllServed == <>(\A c \in Clients : Gone(c))

=============================================================================
