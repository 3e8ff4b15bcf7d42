------------------------- MODULE MCConnectionStore --------------------------
(***************************************************************************)
(* Instances of ConnectionStore for TLC.                                   *)
(***************************************************************************)
EXTENDS ConnectionStore

CONSTANTS
    MaxMsgs,        \* the messages of a call of Update
    MaxClosed       \* the fds it closes, the same one twice included

(* What a caller says to a connection is the fd, as what a peer says is.    *)
AllInputs ==
    {[msgs |-> [i \in DOMAIN to |-> To(to[i], to[i])], closed |-> fds,
      opened |-> NoFd] : to \in SeqOf(Fds, MaxMsgs), fds \in SeqOf(Fds, MaxClosed)}
=============================================================================
