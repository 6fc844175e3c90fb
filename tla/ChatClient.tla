----------------------------- MODULE ChatClient -----------------------------
(***************************************************************************)
(* The chat client (client.c): the thread that reads commands and answers, *)
(* and the one that keeps the session alive.  They share the socket, a     *)
(* flag and a lock, which the second takes twice over.                     *)
(*                                                                         *)
(* The client keeps no record of its session or its channels: it tells its *)
(* user that a channel was joined without an answer from the server, and   *)
(* only prints what the server sends, so that receiving changes nothing    *)
(* here.  What it has told its user is kept in believed.                   *)
(***************************************************************************)
EXTENDS Naturals, Sequences

CONSTANTS
    Channel, COMMON,    \* the channels, and the one every client starts on
    PERIOD,             \* the sleep of the keep-alive thread
    MAX_FLIGHT,         \* bound: datagrams in flight when a command is typed
    Links               \* how the client may be connected

ASSUME CommonIsChannel == COMMON \in Channel
ASSUME PeriodIsNat == PERIOD \in Nat /\ MAX_FLIGHT \in Nat
ASSUME LinksAreLinks ==
    Links \subseteq [delay : Nat, drift : Nat, lossy : BOOLEAN, fifo : BOOLEAN]

VARIABLES
    main,           \* what the main thread does next
    keeper,         \* what the keep-alive thread does next
    slept,          \* how long the keep-alive thread has been sleeping
    activity,       \* activity_last_minute
    client_lock,    \* the thread that holds the lock, or "free"
    cur_channel,    \* where what is typed is said
    believed,       \* the channels the user was told to be on
    net,            \* the datagrams on their way to the server, in order
    link            \* the connection; it stays as it is

threads    == <<main, keeper, slept>>
clientVars == <<threads, activity, client_lock, cur_channel, believed, net, link>>

Requests == [type : {"LOGIN", "LOGOUT", "LIST", "KEEP_ALIVE"}]
                \cup [type : {"JOIN", "LEAVE", "SAY", "WHO"}, channel : Channel]

Request(type)     == [type |-> type]
RequestOn(type, c) == [type |-> type, channel |-> c]

\* Fault: the lock is not re-entrant.
FaultPlainLock(thread) == client_lock = "free"

\* The mutex is PTHREAD_MUTEX_RECURSIVE.
CanLock(thread) == client_lock \in {"free", thread}

\* send_msg: the flag is set, and cleared again if sendto fails.
send_msg(thread, req) ==
    /\ CanLock(thread)
    /\ \/ activity' = TRUE /\ net' = Append(net, [req |-> req, age |-> 0])
       \/ link.lossy /\ activity' = FALSE /\ UNCHANGED net
    /\ UNCHANGED <<client_lock, link>>

ClientInit ==
    /\ main = "login"
    /\ keeper = "none"
    /\ slept = 0
    /\ activity = FALSE
    /\ client_lock = "free"
    /\ cur_channel = COMMON
    /\ believed = {}
    /\ net = <<>>
    /\ link \in Links
-------------------------------------------------------------------------------
\* The main thread.

handle_cmd_login ==
    /\ main = "login"
    /\ send_msg("main", Request("LOGIN"))
    /\ main' = "join"
    /\ UNCHANGED <<keeper, slept, cur_channel, believed>>

JoinCommon ==
    /\ main = "join"
    /\ send_msg("main", RequestOn("JOIN", COMMON))
    /\ believed' = believed \cup {COMMON}
    /\ main' = "start"
    /\ UNCHANGED <<keeper, slept, cur_channel>>

\* The lock is made and the keep-alive thread started.
StartKeeper ==
    /\ main = "start"
    /\ main' = "select"
    /\ keeper' = "sleep"
    /\ slept' = 0
    /\ UNCHANGED <<activity, client_lock, cur_channel, believed, net, link>>

\* A line was typed.
Typed == main = "select" /\ Len(net) < MAX_FLIGHT

SendCommand(req) ==
    /\ Typed
    /\ send_msg("main", req)
    /\ UNCHANGED <<threads, cur_channel>>

handle_cmd_say    == SendCommand(RequestOn("SAY", cur_channel)) /\ UNCHANGED believed
handle_cmd_list   == SendCommand(Request("LIST")) /\ UNCHANGED believed
handle_cmd_who(c) == SendCommand(RequestOn("WHO", c)) /\ UNCHANGED believed

\* "Joined channel" is printed whether or not the datagram was sent; the channel
\* that is typed to stays the same.
handle_cmd_join(c) ==
    SendCommand(RequestOn("JOIN", c)) /\ believed' = believed \cup {c}

\* Fault: the request of a join is sent.
FaultLeaveJoins(c) ==
    SendCommand(RequestOn("JOIN", c)) /\ believed' = believed \ {c}

handle_cmd_leave(c) ==
    SendCommand(RequestOn("LEAVE", c)) /\ believed' = believed \ {c}

\* Whether the channel was joined is not asked.
handle_cmd_switch(c) ==
    /\ Typed
    /\ cur_channel' = c
    /\ UNCHANGED <<threads, activity, client_lock, believed, net, link>>

handle_cmd_logout ==
    /\ Typed
    /\ send_msg("main", Request("LOGOUT"))
    /\ main' = "cancel"
    /\ UNCHANGED <<keeper, slept, cur_channel, believed>>

\* handle_cmd_exit: the keep-alive thread is cancelled, which it notices when it
\* sleeps, and waited for.
Cancelled ==
    /\ main = "cancel"
    /\ keeper = "sleep"
    /\ keeper' = "cancelled"
    /\ UNCHANGED <<main, slept, activity, client_lock, cur_channel, believed, net, link>>

handle_cmd_exit ==
    /\ main = "cancel"
    /\ keeper = "cancelled"
    /\ main' = "exited"
    /\ UNCHANGED <<keeper, slept, activity, client_lock, cur_channel, believed, net, link>>

MainThread ==
    \/ handle_cmd_login \/ JoinCommon \/ StartKeeper
    \/ Cancelled \/ handle_cmd_exit

Command ==
    \/ handle_cmd_say \/ handle_cmd_list \/ handle_cmd_logout
    \/ \E c \in Channel : \/ handle_cmd_who(c) \/ handle_cmd_switch(c)
                          \/ handle_cmd_join(c) \/ handle_cmd_leave(c)
-------------------------------------------------------------------------------
\* keep_alive_loop

\* Cancelling is disabled from here until the next sleep.
Wake ==
    /\ keeper = "sleep"
    /\ slept >= PERIOD
    /\ keeper' = "lock"
    /\ UNCHANGED <<main, slept, activity, client_lock, cur_channel, believed, net, link>>

KeeperLock ==
    /\ keeper = "lock"
    /\ CanLock("keeper")
    /\ client_lock' = "keeper"
    /\ keeper' = IF activity THEN "reset" ELSE "send"
    /\ UNCHANGED <<main, slept, activity, cur_channel, believed, net, link>>

KeeperSend ==
    /\ keeper = "send"
    /\ send_msg("keeper", Request("KEEP_ALIVE"))
    /\ keeper' = "reset"
    /\ UNCHANGED <<main, slept, cur_channel, believed>>

\* Fault: a keep alive counts as activity of the next minute.
FaultNeverResets ==
    /\ keeper = "reset"
    /\ client_lock' = "free"
    /\ keeper' = "sleep"
    /\ slept' = 0
    /\ UNCHANGED <<main, activity, cur_channel, believed, net, link>>

\* The flag is cleared, and a keep alive that was just sent does not count.
KeeperReset ==
    /\ keeper = "reset"
    /\ activity' = FALSE
    /\ client_lock' = "free"
    /\ keeper' = "sleep"
    /\ slept' = 0
    /\ UNCHANGED <<main, cur_channel, believed, net, link>>

keep_alive_loop == Wake \/ KeeperLock \/ KeeperSend \/ KeeperReset
==============================================================================
