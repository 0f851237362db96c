-------------------------- MODULE MulticastNotifier --------------------------
(***************************************************************************)
(* MulticastNotifier (transport/shm/multicast_notifier.cpp), the notifier  *)
(* over UDP that NotifierFactory can make instead of the ConditionNotifier, *)
(* and the ReadableInfo it sends (readable_info.cpp).                      *)
(*                                                                         *)
(* One notifier of one process.  Any system call of Init may fail; the     *)
(* constructor then shuts the notifier down.  Threads notify, listen and   *)
(* shut down.  File numbers come from the smallest free one, as in POSIX,  *)
(* and the rest of the process opens files too (Other), so a number that   *)
(* was closed may come back as another file.                               *)
(***************************************************************************)
EXTENDS Integers, FiniteSets, FiniteSetsExt

CONSTANTS
  Listeners,      \* threads in Listen
  Infos,          \* ReadableInfos
  MaxFiles        \* bound on file numbers

VARIABLES
  file,           \* open file numbers: number -> "notify", "listen" or "other"
  notify_fd, listen_fd,
  is_shutdown,
  at,             \* where the constructor and, after it, Shutdown are
  buffer,         \* datagrams that wait on the listening socket
  listener,       \* each thread: where it is, the polled number, its info and result
  foreign         \* history: recvfrom was called on another file

multiVars == <<file, notify_fd, listen_fd, is_shutdown, at, buffer, listener, foreign>>

Unset == [host |-> 0, block |-> 0, channel |-> 0]
Quiet == [at |-> "out", fd |-> -1, info |-> Unset, result |-> FALSE]
Free == (0 .. MaxFiles - 1) \ DOMAIN file
Opened(what) == file' = [n \in DOMAIN file \cup {Min(Free)} |-> IF n = Min(Free) THEN what ELSE file[n]]
Closed(fd) == file' = [n \in DOMAIN file \ {fd} |-> file[n]]

MultiInit ==
  /\ file = [n \in {} |-> "other"] /\ notify_fd = -1 /\ listen_fd = -1
  /\ is_shutdown = FALSE /\ at = "notify" /\ buffer = {}
  /\ listener = [t \in Listeners |-> Quiet] /\ foreign = FALSE

-----------------------------------------------------------------------------
(* Init: the two sockets, then the options of the second; FALSE from any   *)
(* of them goes to Shutdown.                                               *)
InitNotifySocket ==
  /\ at = "notify"
  /\ \/ /\ Free # {} /\ Opened("notify") /\ notify_fd' = Min(Free) /\ at' = "listen"
     \/ at' = "failed" /\ UNCHANGED <<file, notify_fd>>
  /\ UNCHANGED <<listen_fd, is_shutdown, buffer, listener, foreign>>

InitListenSocket ==
  /\ at = "listen"
  /\ \/ /\ Free # {} /\ Opened("listen") /\ listen_fd' = Min(Free) /\ at' = "options"
     \/ at' = "failed" /\ UNCHANGED <<file, listen_fd>>
  /\ UNCHANGED <<notify_fd, is_shutdown, buffer, listener, foreign>>

(* O_NONBLOCK, SO_REUSEADDR, bind, IP_MULTICAST_LOOP, IP_ADD_MEMBERSHIP. *)
InitOptions ==
  /\ at = "options" /\ at' \in {"up", "failed"}
  /\ UNCHANGED <<file, notify_fd, listen_fd, is_shutdown, buffer, listener, foreign>>

(* Shutdown, called once the constructor has failed, or by a thread. *)
ShutdownBegin ==
  /\ at \in {"up", "failed"} /\ ~is_shutdown
  /\ is_shutdown' = TRUE /\ at' = "close"
  /\ UNCHANGED <<file, notify_fd, listen_fd, buffer, listener, foreign>>

(* Fault: the notifying socket is only forgotten. *)
ShutdownNotifyForgetting ==
  /\ at = "close" /\ at' = "closing"
  /\ notify_fd' = -1
  /\ UNCHANGED <<file, listen_fd, is_shutdown, buffer, listener, foreign>>

ShutdownNotify ==
  /\ at = "close" /\ at' = "closing"
  /\ IF notify_fd = -1 THEN UNCHANGED <<file, notify_fd>>
     ELSE Closed(notify_fd) /\ notify_fd' = -1
  /\ UNCHANGED <<listen_fd, is_shutdown, buffer, listener, foreign>>

(* close of the listening socket, and only then listen_fd_ = -1. *)
ShutdownListen ==
  /\ at = "closing"
  /\ IF listen_fd = -1 THEN file' = file /\ at' = "down" ELSE Closed(listen_fd) /\ at' = "forget"
  /\ buffer' = {}
  /\ UNCHANGED <<notify_fd, listen_fd, is_shutdown, listener, foreign>>

ShutdownForget ==
  /\ at = "forget" /\ at' = "down" /\ listen_fd' = -1
  /\ UNCHANGED <<file, notify_fd, is_shutdown, buffer, listener, foreign>>

-----------------------------------------------------------------------------
SerializeTo(info) == <<info.host, info.block, info.channel>>

(* The parse is behind a return: nothing is taken, and the answer is FALSE. *)
DeserializeFrom(info, bytes) == [info |-> info, result |-> FALSE]

(* Notify: a datagram to every socket of the group, or to none of them. *)
Notify(info) ==
  /\ at = "up" /\ ~is_shutdown
  /\ \/ buffer' = buffer \cup {SerializeTo(info)}
     \/ UNCHANGED buffer
  /\ UNCHANGED <<file, notify_fd, listen_fd, is_shutdown, at, listener, foreign>>

(* Listen: the test of is_shutdown_ and the number given to poll. *)
Listen(t) ==
  /\ listener[t].at = "out" /\ ~is_shutdown /\ at = "up"
  /\ listener' = [listener EXCEPT ![t].at = "poll", ![t].fd = listen_fd]
  /\ UNCHANGED <<file, notify_fd, listen_fd, is_shutdown, at, buffer, foreign>>

(* poll: a datagram, anything a file of the number's new owner may report, *)
(* or the timeout.                                                         *)
Poll(t) ==
  /\ listener[t].at = "poll"
  /\ \/ /\ listener[t].fd \in DOMAIN file
        /\ file[listener[t].fd] = "listen" => buffer # {}
        /\ listener' = [listener EXCEPT ![t].at = "receive"]
     \/ listener' = [listener EXCEPT ![t].at = "out", ![t].result = FALSE]
  /\ UNCHANGED <<file, notify_fd, listen_fd, is_shutdown, at, buffer, foreign>>

(* recvfrom reads listen_fd_ again; the socket does not block, so it may   *)
(* find that another thread took the datagram.                             *)
Receive(t) ==
  /\ listener[t].at = "receive"
  /\ \/ /\ listen_fd \in DOMAIN file /\ file[listen_fd] = "listen"
        /\ \E d \in buffer :
             /\ buffer' = buffer \ {d}
             /\ LET r == DeserializeFrom(listener[t].info, d)
                IN  listener' = [listener EXCEPT ![t] =
                      [at |-> "out", fd |-> -1, info |-> r.info, result |-> r.result]]
        /\ UNCHANGED foreign
     \/ /\ foreign' = (foreign \/ (listen_fd \in DOMAIN file /\ file[listen_fd] # "listen"))
        /\ listener' = [listener EXCEPT ![t].at = "out", ![t].result = FALSE]
        /\ UNCHANGED buffer
  /\ UNCHANGED <<file, notify_fd, listen_fd, is_shutdown, at>>

(* The rest of the process opens and closes a file of its own. *)
OtherOpen ==
  /\ Free # {} /\ Opened("other")
  /\ UNCHANGED <<notify_fd, listen_fd, is_shutdown, at, buffer, listener, foreign>>

OtherClose ==
  /\ \E fd \in DOMAIN file : file[fd] = "other" /\ Closed(fd)
  /\ UNCHANGED <<notify_fd, listen_fd, is_shutdown, at, buffer, listener, foreign>>

MultiNext ==
  \/ InitNotifySocket \/ InitListenSocket \/ InitOptions
  \/ ShutdownBegin \/ ShutdownNotify \/ ShutdownListen \/ ShutdownForget
  \/ \E info \in Infos : Notify(info)
  \/ \E t \in Listeners : Listen(t) \/ Poll(t) \/ Receive(t)
  \/ OtherOpen \/ OtherClose

MultiSpec == MultiInit /\ [][MultiNext]_multiVars

-----------------------------------------------------------------------------
(***************************************************************************)
(* Whatever step of Init failed, and whoever is in Listen, once Shutdown   *)
(* is over no socket of the notifier is open and every file of the rest of *)
(* the process still is its own: none was closed in place of a socket.     *)
(***************************************************************************)
SocketsClosed ==
  /\ at = "down" => \A n \in DOMAIN file : file[n] = "other"
  /\ at \in {"up", "failed", "close"} =>
       /\ listen_fd # -1 => listen_fd \in DOMAIN file /\ file[listen_fd] = "listen"
       /\ notify_fd # -1 => notify_fd \in DOMAIN file /\ file[notify_fd] = "notify"
=============================================================================
