------------------------------ MODULE ClientBind ------------------------------
(***************************************************************************)
(* ClientBind of transport/wireguard/client_bind.go: the UDP socket of a   *)
(* WireGuard device, which connect dials when somebody needs it.           *)
(*                                                                         *)
(* The device opens and closes the bind under its net lock and waits for   *)
(* the receiver in between.  Senders are not waited for:                   *)
(* SendHandshakeCookie takes no lock.  Channels, contexts and sockets are  *)
(* numbered as they are made; 0 is nil for the latter two.                 *)
(***************************************************************************)
EXTENDS Integers

CONSTANT Senders

VARIABLES
    dev,               \* where the device is: idle, or in Close or Open
    up,                \* the receiver of the last Open was started
    done, shut,        \* c.done, and the channels that were closed
    bindCtx, cancelled,
    conn,              \* c.conn
    sockets, open, ended, \* the sockets: how many, which are open, whose done is closed
    lock,              \* connAccess
    user               \* the calls of receive and Send

bindVars == <<dev, up, done, shut, bindCtx, cancelled, conn, sockets, open, ended, lock, user>>

Receiver == "receiver"
Device == "device"
Nobody == "nobody"

BindUsers == Senders \union {Receiver}

deviceVars == <<dev, up, done, shut, bindCtx, cancelled>>

BindInit ==
    /\ dev = "idle" /\ up = FALSE
    /\ done = 0 /\ shut = {}
    /\ bindCtx = 0 /\ cancelled = {}
    /\ conn = 0 /\ sockets = 0 /\ open = {} /\ ended = {}
    /\ lock = Nobody
    /\ user = [u \in BindUsers |-> [pc |-> IF u = Receiver THEN "over" ELSE "idle",
                                    ch |-> 0, ctx |-> 0, sock |-> 0]]

\* c.conn can be used.
LiveSocket == conn # 0 /\ conn \notin ended

-----------------------------------------------------------------------------
(* connect, by receive or by Send *)

\* The look at c.conn without the lock.  Nothing is sent before the first Open.
Connect(u) ==
    /\ user[u].pc = "idle" /\ bindCtx # 0
    /\ user' = IF LiveSocket THEN [user EXCEPT ![u].pc = "use", ![u].sock = conn]
               ELSE [user EXCEPT ![u].pc = "want"]
    /\ UNCHANGED <<deviceVars, conn, sockets, open, ended, lock>>

\* The lock, and the read of c.done, which Open may replace before it is looked at.
Lock(u) ==
    /\ user[u].pc = "want" /\ lock = Nobody
    /\ lock' = u
    /\ user' = [user EXCEPT ![u].pc = "check", ![u].ch = done]
    /\ UNCHANGED <<deviceVars, conn, sockets, open, ended>>

Check(u) ==
    /\ user[u].pc = "check"
    /\ \/ /\ user[u].ch \in shut
          /\ user' = [user EXCEPT ![u].pc = "refused"]
          /\ lock' = Nobody
       \/ /\ user[u].ch \notin shut /\ LiveSocket
          /\ user' = [user EXCEPT ![u].pc = "use", ![u].sock = conn]
          /\ lock' = Nobody
       \/ /\ user[u].ch \notin shut /\ ~LiveSocket
          /\ user' = [user EXCEPT ![u].pc = "dial"]
          /\ UNCHANGED lock
    /\ UNCHANGED <<deviceVars, conn, sockets, open, ended>>

\* The dial under c.bindCtx, which keeps the lock.
BindDial(u) ==
    /\ user[u].pc = "dial"
    /\ user' = [user EXCEPT ![u].pc = "dialing", ![u].ctx = bindCtx]
    /\ UNCHANGED <<deviceVars, conn, sockets, open, ended, lock>>

Dialed(u) ==
    /\ user[u].pc = "dialing"
    /\ sockets' = sockets + 1
    /\ open' = open \union {sockets'} /\ conn' = sockets'
    /\ user' = [user EXCEPT ![u].pc = "use", ![u].sock = sockets']
    /\ lock' = Nobody
    /\ UNCHANGED <<deviceVars, ended>>

DialFails(u) ==
    /\ user[u].pc = "dialing"
    /\ user' = [user EXCEPT ![u].pc = "failed"]
    /\ lock' = Nobody
    /\ UNCHANGED <<deviceVars, conn, sockets, open, ended>>

-----------------------------------------------------------------------------
(* receive and Send *)

\* A packet is read or written.
Packet(u) ==
    /\ user[u].pc = "use" /\ user[u].sock \in open
    /\ user' = [user EXCEPT ![u].pc = "idle"]
    /\ UNCHANGED <<deviceVars, conn, sockets, open, ended, lock>>

PacketFails(u) ==
    /\ user[u].pc = "use"
    /\ user' = [user EXCEPT ![u].pc = "closing"]
    /\ UNCHANGED <<deviceVars, conn, sockets, open, ended, lock>>

\* Nobody is inside wireConn.Close of the socket, which has a lock of its own.
NobodyInside(s) ==
    /\ \A v \in BindUsers : user[v].pc = "inside" => user[v].sock # s
    /\ dev = "inside" => conn # s

\* wireConn.Close closes the socket, then its done.
CloseSocket(u) ==
    /\ user[u].pc = "closing" /\ NobodyInside(user[u].sock)
    /\ IF user[u].sock \in ended
       THEN user' = [user EXCEPT ![u].pc = "failed"] /\ UNCHANGED open
       ELSE /\ user' = [user EXCEPT ![u].pc = "inside"]
            /\ open' = open \ {user[u].sock}
    /\ UNCHANGED <<deviceVars, conn, sockets, ended, lock>>

CloseSocketDone(u) ==
    /\ user[u].pc = "inside"
    /\ ended' = ended \union {user[u].sock}
    /\ user' = [user EXCEPT ![u].pc = "failed"]
    /\ UNCHANGED <<deviceVars, conn, sockets, open, lock>>

\* The call returns.  receive passes an error on if c.done is closed; the device's
\* loop ends with net.ErrClosed and with some of the other errors.
Failed(u) ==
    /\ user[u].pc \in {"failed", "refused"}
    /\ \E pc \in {"idle", "over"} :
         /\ pc = "over" => u = Receiver /\ done \in shut
         /\ pc = "idle" => ~(u = Receiver /\ done \in shut /\ user[u].pc = "refused")
         /\ user' = [user EXCEPT ![u].pc = pc]
    /\ UNCHANGED <<deviceVars, conn, sockets, open, ended, lock>>

-----------------------------------------------------------------------------
(* Close and Open, by BindUpdate and BindClose *)

BindClose ==
    /\ \/ dev = "idle"
       \/ dev = "start"   \* the route listener could not be started
    /\ dev' = "cancel" /\ up' = FALSE
    /\ shut' = shut \union {done}
    /\ UNCHANGED <<done, bindCtx, cancelled, conn, sockets, open, ended, lock, user>>

CloseCancel ==
    /\ dev = "cancel"
    /\ dev' = "lock"
    /\ cancelled' = cancelled \union {bindCtx}
    /\ UNCHANGED <<up, done, shut, bindCtx, conn, sockets, open, ended, lock, user>>

CloseLock ==
    /\ dev = "lock" /\ lock = Nobody
    /\ dev' = "close" /\ lock' = Device
    /\ UNCHANGED <<up, done, shut, bindCtx, cancelled, conn, sockets, open, ended, user>>

CloseConn ==
    /\ dev = "close" /\ NobodyInside(conn)
    /\ IF LiveSocket THEN dev' = "inside" /\ open' = open \ {conn} /\ UNCHANGED lock
       ELSE dev' = "wait" /\ lock' = Nobody /\ UNCHANGED open
    /\ UNCHANGED <<up, done, shut, bindCtx, cancelled, conn, sockets, ended, user>>

CloseConnDone ==
    /\ dev = "inside"
    /\ dev' = "wait" /\ lock' = Nobody
    /\ ended' = ended \union {conn}
    /\ UNCHANGED <<up, done, shut, bindCtx, cancelled, conn, sockets, open, user>>

\* closeBindLocked waits for the receiver.  BindClose is over then, and so is
\* BindUpdate if the device is down.
Wait ==
    /\ dev = "wait" /\ user[Receiver].pc = "over"
    /\ dev' \in {"idle", "open"}
    /\ UNCHANGED <<up, done, shut, bindCtx, cancelled, conn, sockets, open, ended, lock, user>>

Open ==
    /\ dev = "open"
    /\ dev' = "context"
    /\ done' = IF done \in shut THEN done + 1 ELSE done
    /\ UNCHANGED <<up, shut, bindCtx, cancelled, conn, sockets, open, ended, lock, user>>

OpenContext ==
    /\ dev = "context"
    /\ dev' = "start"
    /\ bindCtx' = bindCtx + 1
    /\ UNCHANGED <<up, done, shut, cancelled, conn, sockets, open, ended, lock, user>>

StartReceiver ==
    /\ dev = "start"
    /\ dev' = "idle" /\ up' = TRUE
    /\ user' = [user EXCEPT ![Receiver].pc = "idle"]
    /\ UNCHANGED <<done, shut, bindCtx, cancelled, conn, sockets, open, ended, lock>>

UserStep(u) ==
    \/ Connect(u) \/ Lock(u) \/ Check(u) \/ BindDial(u) \/ Dialed(u) \/ DialFails(u)
    \/ Packet(u) \/ PacketFails(u) \/ CloseSocket(u) \/ CloseSocketDone(u) \/ Failed(u)

DeviceStep ==
    \/ BindClose \/ CloseCancel \/ CloseLock \/ CloseConn \/ CloseConnDone
    \/ Wait \/ Open \/ OpenContext \/ StartReceiver

BindNext == DeviceStep \/ \E u \in BindUsers : UserStep(u)

BindSpec == BindInit /\ [][BindNext]_bindVars

-----------------------------------------------------------------------------
(* Properties *)

\* Close has done its work, and Open has not begun.
Shut == dev \in {"wait", "open"} \/ (dev = "idle" /\ ~up)

\* A closed bind has no socket and gets none, whoever was in connect when it was
\* closed; and at all times a socket that is open is c.conn, so Close finds it.
NoSocketLeft ==
    /\ Shut => open = {} /\ \A u \in BindUsers : user[u].pc # "dialing"
    /\ open \subseteq {conn}

\* Close does not wait for a network: whoever dials while it wants the lock does so
\* under a context that has been cancelled, though Open replaces it without the lock.
CloseNotStuck ==
    dev = "lock" => \A u \in BindUsers : user[u].pc = "dialing" => user[u].ctx \in cancelled

\* The done of a socket is closed once (twice would be a panic), though receive, Send
\* and Close all close the socket.
DoneClosedOnce ==
    /\ \A u \in BindUsers : user[u].pc = "inside" =>
         /\ user[u].sock \notin ended
         /\ \A v \in BindUsers : user[v].pc = "inside" /\ user[v].sock = user[u].sock => u = v
         /\ dev = "inside" => user[u].sock # conn
    /\ dev = "inside" => conn \notin ended

\* The receiver goes on, whatever errors it meets, until the bind is closed.
ReceiverStays == dev = "idle" /\ up => user[Receiver].pc # "over"
===============================================================================
