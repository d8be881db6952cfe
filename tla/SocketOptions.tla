---------------------------- MODULE SocketOptions ----------------------------
(* socket.ListenConfig, socket.Dialer (also under tcp.Dialer) and                *)
(* socket.SetBuffers: the making of one socket, from the user's hook to the      *)
(* options, with one step per system call.  The kernel may fail every call and   *)
(* may grant less than it is asked for.                                          *)
EXTENDS Integers, FiniteSets

CONSTANTS
  Platforms,  \* of "linux", "darwin", "freebsd", "windows", "plan9"
  Sizes       \* requested buffer sizes; 0 leaves the buffer alone

VARIABLES
  call,  \* fixed: platform, via (ListenConfig, Dialer, SetBuffers), network, opts and what the
         \* caller brings: hook of the base dialer, its keep-alive, the kind of connection
  sock,  \* what the kernel granted (recv, send), and what is set: reuse, fast, keep (alive)
  at,    \* the next step, and whether it concerns the recv or the send buffer
  read,  \* actual in ensureBuffer
  err,   \* the error of the call
  ran,   \* history: the hooks that ran, and whether the socket was still untouched
  event  \* the error in tcp.Dialer's DialEvent

vars == <<call, sock, at, read, err, ran, event>>

Zero == [recv |-> 0, send |-> 0, reuse |-> FALSE, fast |-> FALSE, keep |-> "default"]

\* What the platform's build supports.
kernelDoublesBuffers == call.plat = "linux"
HasForce == call.plat = "linux"
HasBuffers == call.plat # "plan9"
HasReusePort == call.plat \in {"linux", "darwin", "freebsd"}
HasFastOpen == call.plat \in {"linux", "darwin"}

Init ==
  /\ call \in [plat : Platforms, via : {"ListenConfig", "Dialer", "SetBuffers"}, network : {"tcp", "udp", "unix"},
               opts : [recv : Sizes, send : Sizes, reuse : BOOLEAN, fast : BOOLEAN, keep : {"default", "off", "tuned"}],
               hook : {"none", "Control", "ControlContext", "both"}, base : {"default", "off"},
               conn : {"nil", "plain", "syscall"}]
  /\ call.via # "Dialer" => call.hook = "none" /\ call.base = "default"
  /\ call.via # "SetBuffers" => call.conn = "syscall"
  /\ call.via = "SetBuffers" => call.opts = [Zero EXCEPT !.recv = call.opts.recv, !.send = call.opts.send]
  /\ sock = Zero /\ at = <<"start", "recv">> /\ read = 0
  /\ err = "none" /\ ran = <<>> /\ event = "none"

Goto(step, buffer) == at' = <<step, buffer>>
Ends(e) == Goto("end", "recv") /\ err' = e
-----------------------------------------------------------------------------
\* KeepAlive.apply, and what the net package makes of its two results: KeepAliveConfig
\* when enabled, otherwise KeepAlive, which switches it off when negative.
KeepAliveApply(k) == [dur |-> IF k = "off" THEN -1 ELSE 0, cfg |-> k = "tuned"]
InEffect(ka) == IF ka.cfg THEN "tuned" ELSE IF ka.dur < 0 THEN "off" ELSE "default"

\* Dialer keeps what base asks for when the options do not say.
KeepAlive ==
  IF call.via = "Dialer" /\ call.opts.keep = "default" THEN InEffect(KeepAliveApply(call.base))
  ELSE InEffect(KeepAliveApply(call.opts.keep))

\* The hook of the base dialer: ControlContext if both are set.
UserHook == IF call.hook = "both" THEN "ControlContext" ELSE call.hook

RunHook(e) ==
  /\ at[1] = "start" /\ call.via = "Dialer" /\ ran = <<>> /\ UserHook # "none"
  /\ ran' = <<UserHook, sock = Zero>>
  /\ IF e = "nil" THEN UNCHANGED <<at, err>> ELSE Ends(e)
  /\ UNCHANGED <<call, sock, read, event>>

\* checkNetwork, and control's refusal of Fast Open on a dialed connection.
Unsupported ==
  \/ call.network = "unix" /\ call.opts # Zero
  \/ call.network = "udp" /\ (call.opts.fast \/ call.opts.keep # "default")
  \/ call.via = "Dialer" /\ call.opts.fast

control ==
  /\ at[1] = "start" /\ call.via # "SetBuffers"
  /\ call.via = "Dialer" /\ UserHook # "none" => ran # <<>>
  /\ \/ Unsupported /\ Ends("unsupported")
     \/ ~Unsupported /\ call.opts = Zero /\ Ends("nil")
     \/ ~Unsupported /\ call.opts # Zero /\ ((Goto("buffer", "recv") /\ UNCHANGED err) \/ Ends("control"))
  /\ UNCHANGED <<call, sock, read, ran, event>>

SetBuffers ==
  LET sizes == call.opts.recv > 0 \/ call.opts.send > 0 IN
  /\ at[1] = "start" /\ call.via = "SetBuffers"
  /\ \/ call.conn = "nil" /\ Ends("nil connection")
     \/ call.conn = "syscall" /\ sizes /\ ((Goto("buffer", "recv") /\ UNCHANGED err) \/ Ends("control"))
     \/ call.conn # "nil" /\ ~sizes /\ Ends("nil")
     \/ call.conn = "plain" /\ sizes /\ Goto("buffer", "recv") /\ UNCHANGED err
  /\ UNCHANGED <<call, sock, read, ran, event>>
-----------------------------------------------------------------------------
\* applyBuffers: the receive buffer, then the send buffer, then applyOptions.
Requested == call.opts[at[2]]
NextBuffer == IF at[2] = "recv" THEN Goto("buffer", "send") ELSE Goto("options", "recv")

Buffer ==
  /\ at[1] = "buffer"
  /\ IF Requested <= 0 THEN NextBuffer /\ UNCHANGED err
     ELSE IF ~HasBuffers /\ call.conn # "plain" THEN Ends("unsupported")
     ELSE Goto("set", at[2]) /\ UNCHANGED err
  /\ UNCHANGED <<call, sock, read, ran, event>>

\* ensureBuffer: setsockopt fails, or grants some size up to the one requested.
Set(granted) ==
  /\ at[1] = "set"
  /\ \/ granted > 0 /\ sock' = [sock EXCEPT ![at[2]] = granted] /\ UNCHANGED err
        /\ IF call.conn = "plain" THEN NextBuffer ELSE Goto("get", at[2])
     \/ granted = 0 /\ Ends("setsockopt") /\ UNCHANGED sock
  /\ UNCHANGED <<call, read, ran, event>>

\* readBuffer halves what Linux reports.
NotHalved(v) == v                                                  \* mutated form
Halved(v) == IF kernelDoublesBuffers THEN v \div 2 ELSE v
Reported == IF kernelDoublesBuffers THEN 2 * sock[at[2]] ELSE sock[at[2]]

Get(e) ==
  /\ at[1] \in {"get", "get again"}
  /\ LET actual == Halved(Reported) IN
     IF e # "nil" THEN Ends(e) /\ UNCHANGED read
     ELSE /\ read' = actual
          /\ IF actual >= Requested THEN NextBuffer /\ UNCHANGED err
             ELSE IF at[1] = "get" /\ HasForce THEN Goto("force", at[2]) /\ UNCHANGED err
             ELSE Ends("size")
  /\ UNCHANGED <<call, sock, ran, event>>

\* SO_RCVBUFFORCE or SO_SNDBUFFORCE, whose error is ignored.
Force(ok) ==
  /\ at[1] = "force" /\ Goto("get again", at[2])
  /\ sock' = IF ok THEN [sock EXCEPT ![at[2]] = Requested] ELSE sock
  /\ UNCHANGED <<call, read, err, ran, event>>

\* applyOptions; SetBuffers does not call it.
ReusePort(ok) ==
  /\ at[1] = "options"
  /\ IF call.via = "SetBuffers" THEN Ends("nil") /\ UNCHANGED sock
     ELSE IF ~call.opts.reuse THEN Goto("fast", "recv") /\ UNCHANGED <<err, sock>>
     ELSE IF ~HasReusePort THEN Ends("unsupported") /\ UNCHANGED sock
     ELSE IF ~ok THEN Ends("setsockopt") /\ UNCHANGED sock
     ELSE Goto("fast", "recv") /\ sock' = [sock EXCEPT !.reuse = TRUE] /\ UNCHANGED err
  /\ UNCHANGED <<call, read, ran, event>>

\* fastOpenResult: a kernel without Fast Open is no error.
fastOpenStrict(e) == IF e = "ok" THEN "nil" ELSE e                 \* mutated form
fastOpenResult(e) == IF e \in {"ok", "unavailable"} THEN "nil" ELSE e

FastOpen(e) ==
  /\ at[1] = "fast"
  /\ IF call.opts.fast /\ HasFastOpen
       THEN Ends(fastOpenResult(e)) /\ sock' = [sock EXCEPT !.fast = e = "ok"]
       ELSE Ends("nil") /\ UNCHANGED sock
  /\ UNCHANGED <<call, read, ran, event>>

\* The net package drops the socket on an error; otherwise it listens or connects,
\* which may fail, and sets keep-alive.  tcp.Dialer reports every dial.
Finish(e) ==
  /\ at[1] = "end" /\ Goto("returned", "recv")
  /\ err' = IF err = "nil" /\ call.via # "SetBuffers" THEN e ELSE err
  /\ sock' = IF call.network = "tcp" /\ err' = "nil" /\ call.via # "SetBuffers" THEN [sock EXCEPT !.keep = KeepAlive] ELSE sock
  /\ event' = IF call.via = "Dialer" THEN err' ELSE "none"
  /\ UNCHANGED <<call, read, ran>>

Next ==
  \/ \E e \in {"nil", "hook"} : RunHook(e)
  \/ control \/ SetBuffers \/ Buffer
  \/ \E granted \in 0 .. Requested : Set(granted)
  \/ \E e \in {"nil", "getsockopt"} : Get(e)
  \/ \E ok \in BOOLEAN : Force(ok) \/ ReusePort(ok)
  \/ \E e \in {"ok", "unavailable", "setsockopt"} : FastOpen(e)
  \/ \E e \in {"nil", "bind"} : Finish(e)

Spec == Init /\ [][Next]_vars
-----------------------------------------------------------------------------
\* What the socket offers, as far as the caller asked for it.
AsRequested ==
  /\ call.conn # "plain" => sock.recv >= call.opts.recv /\ sock.send >= call.opts.send
  /\ sock.reuse = call.opts.reuse
  /\ call.opts.keep # "default" => sock.keep = call.opts.keep
  /\ call.via = "Dialer" /\ call.network = "tcp" /\ call.opts.keep = "default" => sock.keep = call.base

\* Options are applied or refused, never dropped: a socket that is returned without
\* an error has the buffer sizes the caller asked for, however the kernel rounds,
\* doubles or caps them, and the other options that change what it does; the
\* caller's own hook ran on it first; and a DialEvent carries the error returned.
AppliedOrRefused ==
  at[1] = "returned" =>
    /\ err = "nil" => AsRequested /\ (call.via = "Dialer" /\ UserHook # "none" => ran = <<UserHook, TRUE>>)
    /\ call.via = "Dialer" => event = err

\* One configuration runs everywhere: "unsupported" is only for options that change
\* what the socket does, a BufferSizeError only for a size that was not granted,
\* and names the one that was; and a platform or a kernel without Fast Open is no reason to fail a listener.
RefusedForCause ==
  at[1] = "returned" =>
    /\ err = "unsupported" => \/ call.network = "unix" \/ call.network = "udp" \/ call.via = "Dialer"
                              \/ call.opts.reuse /\ ~HasReusePort
                              \/ ~HasBuffers /\ call.opts.recv + call.opts.send > 0
    /\ err = "size" => \E b \in {"recv", "send"} : read = sock[b] /\ read < call.opts[b]
    /\ err # "unavailable"
=============================================================================
