-------------------------------- MODULE Kernel --------------------------------
(***************************************************************************)
(* The operating system as the server uses it, and the peers behind it:    *)
(* the descriptor table, TCP sockets, and one level-triggered epoll set.   *)
(* None of it is in the repository; it is modelled from the calls of       *)
(* network/dan_scheduler.hpp and dan_net.hpp.                              *)
(*                                                                         *)
(* A peer connects once, sends at most MaxRequests requests, and, as the   *)
(* constants say, may close or reset its end or stop reading its replies.  *)
(***************************************************************************)
EXTENDS Integers, FiniteSets

CONSTANTS Conns,        \* the connections peers may open
          MaxFds,       \* the process's limit on open descriptors
          MaxRequests,  \* bound: requests each peer sends
          PeersEnd,     \* how a peer may end: close ("shut"), abort ("reset")
          PeersStall,   \* may a peer stop reading, so that sends would block?
          Listener,     \* the listening socket
          Free          \* an unused entry of the descriptor table

ASSUME KernelAssumption ==
  /\ MaxFds \in Nat \ {0}
  /\ MaxRequests \in [Conns -> Nat]
  /\ PeersEnd \subseteq {"shut", "reset"}
  /\ PeersStall \in BOOLEAN
  /\ Listener \notin Conns /\ Free \notin Conns \cup {Listener}

VARIABLES socket,    \* the state of every connection
          files,     \* the descriptor table: what each number denotes
          interest   \* the epoll set: descriptor -> registered pointer and events

kernelVars == <<socket, files, interest>>

Fds == 1 .. MaxFds
ListenFd == 1

FreeFds == {n \in Fds : files[n] = Free}
LowestFree == CHOOSE n \in FreeFds : \A m \in FreeFds : n <= m

Backlog == {c \in Conns : socket[c].at = "backlog"}

KernelInit ==
  /\ socket = [c \in Conns |-> [at |-> "away", sent |-> 0, unread |-> 0, answers |-> 0,
                                shut |-> FALSE, broken |-> FALSE, full |-> FALSE]]
  /\ files = [n \in Fds |-> Free]
  /\ interest = [n \in {} |-> Free]

-----------------------------------------------------------------------------
(* System calls.  Each is what one call returns or does in one go. *)

(* socket, bind and listen: another process may have the port. *)
Listened == files' = [files EXCEPT ![ListenFd] = Listener]

(* What epoll finds on a descriptor; ERR is reported whether asked or not. *)
Pending(n) ==
  IF files[n] = Listener THEN IF Backlog = {} THEN {} ELSE {"IN"}
  ELSE LET s == socket[files[n]]
       IN  {e \in {"IN", "OUT", "ERR"} :
              \/ e = "IN"  /\ (s.unread > 0 \/ s.shut \/ s.broken)
              \/ e = "OUT" /\ (~ s.full \/ s.broken)
              \/ e = "ERR" /\ s.broken}

Reported(n) == Pending(n) \cap {interest[n].events, "ERR"}

ReadyFds == {n \in DOMAIN interest : Reported(n) # {}}

(* epoll_ctl: adding a registered (EEXIST) or closed (EBADF) descriptor, or *)
(* deleting one that is not there (ENOENT), fails; the callers ignore it.  *)
EpollAdd(n, ptr, events) ==
  interest' = IF n \in DOMAIN interest \/ files[n] = Free THEN interest
              ELSE [m \in DOMAIN interest \cup {n} |->
                      IF m = n THEN [ptr |-> ptr, events |-> events] ELSE interest[m]]

EpollDel(n) == interest' = [m \in DOMAIN interest \ {n} |-> interest[m]]

(* accept: the descriptor is found first, so a full table is an error even *)
(* when nobody waits. *)
AcceptResults == IF FreeFds = {} THEN {"error"}
                 ELSE IF Backlog = {} THEN {"again"} ELSE {"accepted"}

Accepted(c) ==
  /\ socket' = [socket EXCEPT ![c].at = "open"]
  /\ files' = [files EXCEPT ![LowestFree] = c]

RecvResults(n) ==
  IF files[n] = Free THEN {"error"}
  ELSE LET s == socket[files[n]]
       IN  IF s.broken THEN {"error", "eof"}
           ELSE IF s.unread > 0 THEN {"data"}
           ELSE IF s.shut THEN {"eof"} ELSE {"again"}

Received(n) == socket' = [socket EXCEPT ![files[n]].unread = 0]

(* send on a connection the peer has reset fails, and raises SIGPIPE when   *)
(* the pending error has been reported or is EPIPE itself: the server does *)
(* not ignore the signal and passes no MSG_NOSIGNAL. *)
SendResults(n) ==
  IF files[n] = Free THEN {"error"}
  ELSE LET s == socket[files[n]]
       IN  IF s.broken THEN {"error", "sigpipe"}
           ELSE IF s.full THEN {"again"} ELSE {"sent"}

Sent(n) == socket' = [socket EXCEPT ![files[n]].answers = @ + 1]

(* close: the number is free at once, epoll forgets it, and a connection   *)
(* still waiting on a closed listening socket is refused. *)
Closed(n) ==
  /\ files' = [files EXCEPT ![n] = Free]
  /\ interest' = [m \in DOMAIN interest \ {n} |-> interest[m]]
  /\ socket' = [c \in Conns |->
                  IF files[n] = c \/ (files[n] = Listener /\ c \in Backlog)
                  THEN [socket[c] EXCEPT !.at = "closed"] ELSE socket[c]]

-----------------------------------------------------------------------------
(* The peers. *)

Listening == Listener \in {files[n] : n \in Fds}

Connect(c) == /\ socket[c].at = "away" /\ Listening
              /\ socket' = [socket EXCEPT ![c].at = "backlog"]

Connected(c) == socket[c].at \in {"backlog", "open"} /\ ~ socket[c].broken

Request(c) == /\ Connected(c) /\ ~ socket[c].shut
              /\ socket[c].sent < MaxRequests[c]
              /\ socket' = [socket EXCEPT ![c].sent = @ + 1, ![c].unread = @ + 1]

Shut(c) == /\ "shut" \in PeersEnd
           /\ Connected(c) /\ ~ socket[c].shut
           /\ socket' = [socket EXCEPT ![c].shut = TRUE]

Reset(c) == /\ "reset" \in PeersEnd
            /\ Connected(c)
            /\ socket' = [socket EXCEPT ![c].broken = TRUE, ![c].shut = TRUE,
                                        ![c].unread = 0]

Stall(c) == /\ PeersStall
            /\ Connected(c)
            /\ socket' = [socket EXCEPT ![c].full = ~ @]

PeerStep == /\ \E c \in Conns : Connect(c) \/ Request(c) \/ Shut(c) \/ Reset(c) \/ Stall(c)
            /\ UNCHANGED <<files, interest>>

Socket == [at : {"away", "backlog", "open", "closed"}, sent : Nat, unread : Nat, answers : Nat,
           shut : BOOLEAN, broken : BOOLEAN, full : BOOLEAN]

=============================================================================
