------------------------------ MODULE MCSockets ------------------------------
(* Instances of UdpSend, BatchReader and SocketOptions for TLC, side by side:    *)
(* part says which of them a behaviour is of.                                    *)
EXTENDS UdpSend, TLC

CONSTANTS g1, g2

VARIABLES part, sent, queue, msgs, n, i, pos, seen, call, sock, at, read, err, ran, event

batchVars == <<sent, queue, msgs, n, i, pos, seen>>
optionVars == <<call, sock, at, read, err, ran, event>>

\* Control messages as the kernel lays them out, in units of 4 bytes: the drop count,
\* and others before it, after the larger of which it does not fit.
drops == [type |-> "drops", len |-> 5]
other(k) == [type |-> "other", len |-> k]
Kinds == [from : {"v4", "v6", "v4 in v6"}, size : {1, 3}, cmsgs : {<<>>, <<drops>>, <<other(5), drops>>, <<other(8), drops>>}]

BR == INSTANCE BatchReader WITH Batch <- 2, OOBSize <- 12, MaxPacket <- 2, Datagrams <- Kinds, MaxArrivals <- 3, at <- pos

SO == INSTANCE SocketOptions WITH Platforms <- {"linux", "darwin", "freebsd", "windows", "plan9"}, Sizes <- {0, 2}

TwoSenders == {g1, g2}
\* Senders are alike.
Alike == Permutations(TwoSenders)

\* The options of a part that does not move.
NoCall == [plat |-> "linux", via |-> "SetBuffers", network |-> "tcp", opts |-> SO!Zero, hook |-> "none", base |-> "default", conn |-> "nil"]

InitParts ==
  /\ part \in {"send", "batch", "options"}
  /\ BR!Init
  /\ SO!Init /\ (part # "options" => call = NoCall)
  /\ Init /\ (part # "send" => o = Gone /\ conn.port = 0)

NextParts ==
  /\ UNCHANGED part
  /\ \/ part = "send" /\ Next /\ UNCHANGED <<batchVars, optionVars>>
     \/ part = "batch" /\ BR!Next /\ UNCHANGED <<vars, optionVars>>
     \/ part = "options" /\ SO!Next /\ UNCHANGED <<vars, batchVars>>

SpecParts == InitParts /\ [][NextParts]_<<part, vars, batchVars, optionVars>>
-----------------------------------------------------------------------------
\* readBatch sees every datagram as it arrived, whatever an earlier one left in its header.
SeenAsArrived == BR!SeenAsArrived

\* A call that returns no error left a socket with everything the options ask for
\* (ListenConfig, Dialer, SetBuffers).
AppliedOrRefused == SO!AppliedOrRefused

\* A call that returns an error names the option, hook or system call at fault.
RefusedForCause == SO!RefusedForCause
=============================================================================
