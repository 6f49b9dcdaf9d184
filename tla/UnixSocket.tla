----------------------------- MODULE UnixSocket -----------------------------
(***************************************************************************)
(* ipc/unix_domain_socket/: a server that takes one connection and reads   *)
(* until its end, and a client that connects, writes a message and closes. *)
(* The two are started by hand, in either order, and the client may be     *)
(* started again; a server that was killed leaves its path behind.  Either *)
(* may be killed at any step.  A call of socket, listen or accept that     *)
(* fails ends the program as a kill does, and is one.                      *)
(*                                                                         *)
(* A byte is its place in the message.                                     *)
(***************************************************************************)
EXTENDS Naturals, Sequences, FiniteSets

CONSTANTS
  Length,       \* of the message
  BufferSize,   \* what one read takes at most
  MaxClients    \* bound: the clients started, one after another

VARIABLES
  path,         \* SOCKET_PATH: "none", "stale", "bound" or "listening"
  stream,       \* for each connection the bytes on the way, and whether its client closed
  pc,           \* where the server is, and the client
  clients,      \* the number of clients started
  received      \* what the server has written out

vars == <<path, stream, pc, clients, received>>

Message == [n \in 1 .. Length |-> n]

Init ==
  /\ path \in {"none", "stale"} /\ stream = <<>>
  /\ pc = [server |-> "unlink", client |-> "connect"]
  /\ clients = 1 /\ received = <<>>

To(p, l) == pc' = [pc EXCEPT ![p] = l]

-----------------------------------------------------------------------------
(* Slips a maintainer could make *)

(* the path a killed server left is not unlinked *)
Unlinked_Never == path

(* the server stops when the client has closed, read or not *)
AtEnd_Early == stream[1].closed

-----------------------------------------------------------------------------

Unlinked == "none"
ServerUnlink ==
  /\ pc.server = "unlink" /\ path' = Unlinked /\ To("server", "bind")
  /\ UNCHANGED <<stream, clients, received>>

(* bind fails if the path is there *)
Bind ==
  /\ pc.server = "bind"
  /\ IF path = "none" THEN path' = "bound" /\ To("server", "listen")
     ELSE To("server", "failed") /\ UNCHANGED path
  /\ UNCHANGED <<stream, clients, received>>

Listen ==
  /\ pc.server = "listen" /\ path' = "listening" /\ To("server", "accept")
  /\ UNCHANGED <<stream, clients, received>>

(* the first connection made *)
Accept ==
  /\ pc.server = "accept" /\ stream # <<>>
  /\ To("server", "read") /\ UNCHANGED <<path, stream, clients, received>>

AtEnd == stream[1].bytes = <<>> /\ stream[1].closed

(* read waits for a byte or for the end, and takes some of what is there *)
Read ==
  /\ pc.server = "read"
  /\ \/ \E n \in 1 .. BufferSize :
          /\ n <= Len(stream[1].bytes)
          /\ received' = received \o SubSeq(stream[1].bytes, 1, n)
          /\ stream' = [stream EXCEPT ![1].bytes = SubSeq(@, n + 1, Len(@))]
          /\ UNCHANGED pc
     \/ AtEnd /\ To("server", "close") /\ UNCHANGED <<stream, received>>
  /\ UNCHANGED <<path, clients>>

ServerClose ==
  /\ pc.server = "close" /\ path' = "none" /\ To("server", "exited")
  /\ UNCHANGED <<stream, clients, received>>

(* no connection without a listening server *)
Connect ==
  /\ pc.client = "connect"
  /\ IF path = "listening"
     THEN /\ stream' = Append(stream, [bytes |-> <<>>, closed |-> FALSE]) /\ To("client", "write")
     ELSE To("client", "failed") /\ UNCHANGED stream
  /\ UNCHANGED <<path, clients, received>>

Closed == [stream EXCEPT ![Len(stream)].closed = TRUE]

(* without a server, write fails *)
Write ==
  /\ pc.client = "write"
  /\ IF path = "listening"
     THEN To("client", "close") /\ stream' = [stream EXCEPT ![Len(stream)].bytes = Message]
     ELSE To("client", "failed") /\ stream' = Closed
  /\ UNCHANGED <<path, clients, received>>

ClientClose ==
  /\ pc.client = "close" /\ To("client", "exited") /\ stream' = Closed
  /\ UNCHANGED <<path, clients, received>>

(* a process that is killed has its files closed *)
KillClient ==
  /\ pc.client \in {"connect", "write", "close"} /\ To("client", "killed")
  /\ stream' = IF pc.client = "connect" THEN stream ELSE Closed
  /\ UNCHANGED <<path, clients, received>>

KillServer ==
  /\ pc.server \notin {"exited", "failed", "killed"} /\ To("server", "killed")
  /\ path' = IF path = "none" THEN path ELSE "stale"
  /\ UNCHANGED <<stream, clients, received>>

(* the client is started again *)
NextClient ==
  /\ pc.client \in {"exited", "failed", "killed"} /\ clients < MaxClients
  /\ clients' = clients + 1 /\ To("client", "connect")
  /\ UNCHANGED <<path, stream, received>>

Server == ServerUnlink \/ Bind \/ Listen \/ Accept \/ Read \/ ServerClose
Client == Connect \/ Write \/ ClientClose

Next == Server \/ Client \/ KillClient \/ KillServer \/ NextClient

(* a process that can go on does; it need not be started again *)
Fairness == WF_vars(Server) /\ WF_vars(Client)
Spec == Init /\ [][Next]_vars /\ Fairness

-----------------------------------------------------------------------------
(* The server writes out what the first client to connect has written, in  *)
(* order, and has all of it when it ends (server.cpp:45).                  *)
StreamInOrder ==
  /\ IF stream = <<>> THEN received = <<>> ELSE received \o stream[1].bytes \in {<<>>, Message}
  /\ pc.server \in {"close", "exited"} => stream[1].bytes = <<>>
  /\ pc.server = "exited" /\ pc.client = "exited" /\ clients = 1 => received = Message

(* the server waits for a client, or has ended *)
Settled == pc.server \in {"killed", "exited"} \/ (pc.server = "accept" /\ stream = <<>>)
=============================================================================
