------------------------------ MODULE Network -------------------------------
(***************************************************************************)
(* What the server and its ConnectionStore share: the descriptors, the     *)
(* record they exchange and the ways the network fails.                    *)
(***************************************************************************)
EXTENDS Integers, Sequences, SequencesExt, FiniteSets

CONSTANTS
    Fds,            \* socket numbers; bounds the connections open at a time
    NoFd            \* an empty std::optional<int>

ASSUME FdsAssumption == Fds \subseteq Nat /\ IsFiniteSet(Fds) /\ NoFd \notin Fds

FaultKinds == {"Disconnect",    \* a connection the server reads from is lost
               "LingeringLost", \* one it no longer reads from is lost
               "WriteFails",    \* a write fails right after a good read
               "SlowPeer",      \* a peer that does not read blocks a write
               "SocketError"}   \* a system call fails with another errno

(* ConnectionStore::UpdateData and ::Message. *)
NoUpdate  == [msgs |-> <<>>, closed |-> <<>>, opened |-> NoFd]
To(fd, m) == [fd |-> fd, content |-> m]

Addressed(data) == {data.msgs[i].fd : i \in DOMAIN data.msgs}

(* accept returns the lowest descriptor not in use. *)
Free(inUse) == Fds \ inUse
=============================================================================
