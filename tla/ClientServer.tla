---------------------------- MODULE ClientServer ----------------------------
(***************************************************************************)
(* A client (ChatClient), the single server (ChatServer) and the datagrams *)
(* between them.  The server is the one whose tables and threads are       *)
(* specified there, with its scan and its lock; the client is the user me  *)
(* at the address here.                                                    *)
(*                                                                         *)
(* A datagram arrives before it is older than link.delay, unless it is     *)
(* lost; the keep-alive thread sleeps link.drift too long at most; and     *)
(* neither process takes time for anything else.                           *)
(***************************************************************************)
EXTENDS ChatClient

CONSTANTS NULL, Username, IpPort, UserPtr, TIMEOUT, SCAN_INTERVAL, SCAN_DELAY, GARBAGE,
          me, here

ASSUME ClientIsKnown == me \in Username /\ here \in IpPort

VARIABLES data, channels, server_lock, scan, asleep, crashed, out

Server == INSTANCE ChatServer WITH lock <- server_lock

\* What ChatServer assumes of the constants it is given here.
ASSUME ServerIsConfigured ==
    /\ TIMEOUT \in Nat /\ SCAN_INTERVAL \in Nat /\ SCAN_DELAY \in Nat
    /\ GARBAGE \subseteq Nat /\ GARBAGE # {}
    /\ NULL \notin UserPtr /\ NULL \notin IpPort /\ NULL \notin Server!User
    /\ \A names \in SUBSET Username : NULL # names

serverVars == <<data, channels, server_lock, scan, asleep, crashed, out>>

vars == <<clientVars, serverVars>>

Init == ClientInit /\ Server!Init

\* The datagram the network hands over next.
Deliverable(i) == i \in DOMAIN net /\ (link.fifo => i = 1)

Without(i) == SubSeq(net, 1, i - 1) \o SubSeq(net, i + 1, Len(net))

Handle(req) ==
    \/ req.type = "LOGIN"      /\ Server!handle_login(me, here)
    \/ req.type = "LOGOUT"     /\ Server!handle_logout(here)
    \/ req.type = "LIST"       /\ Server!handle_request_list(here)
    \/ req.type = "KEEP_ALIVE" /\ Server!handle_request_keep_alive(here)
    \/ req.type = "JOIN"       /\ Server!handle_request_join(here, req.channel)
    \/ req.type = "LEAVE"      /\ Server!handle_request_leave(here, req.channel)
    \/ req.type = "SAY"        /\ Server!handle_request_say(here, req.channel)
    \/ req.type = "WHO"        /\ Server!handle_request_who(here, req.channel)

Deliver(i) ==
    /\ Deliverable(i)
    /\ Handle(net[i].req)
    /\ net' = Without(i)
    /\ UNCHANGED <<threads, activity, client_lock, cur_channel, believed, link>>

Lose(i) ==
    /\ link.lossy
    /\ i \in DOMAIN net
    /\ net' = Without(i)
    /\ UNCHANGED <<threads, activity, client_lock, cur_channel, believed, link, serverVars>>

\* A thread of the client is waiting for something that takes time.
Resting == main \in {"select", "exited"} /\ keeper \in {"none", "sleep", "cancelled"}

Tick ==
    /\ Server!Tick
    /\ Resting
    /\ keeper = "sleep" => slept < PERIOD + link.drift
    /\ \A i \in DOMAIN net : net[i].age < link.delay
    /\ slept' = IF keeper = "sleep" THEN slept + 1 ELSE slept
    /\ net' = [i \in DOMAIN net |-> [net[i] EXCEPT !.age = @ + 1]]
    /\ UNCHANGED <<main, keeper, activity, client_lock, cur_channel, believed, link>>

ClientStep == (MainThread \/ Command \/ keep_alive_loop) /\ UNCHANGED serverVars
ServerScan == Server!cleanup_loop /\ UNCHANGED clientVars

Next ==
    \/ ClientStep
    \/ \E i \in DOMAIN net : Deliver(i) \/ Lose(i)
    \/ ServerScan
    \/ Tick

\* Both threads of the client are scheduled, what is not lost arrives, the server
\* scans and time passes; nobody has to type anything.
FairSpec ==
    /\ Init /\ [][Next]_vars
    /\ WF_vars(MainThread /\ UNCHANGED serverVars)
    /\ WF_vars(keep_alive_loop /\ UNCHANGED serverVars)
    /\ WF_vars(Deliver(1))
    /\ WF_vars(ServerScan)
    /\ WF_vars(Tick)
-------------------------------------------------------------------------------
\* Properties.

Running == main \in {"start", "select"}

LoggedIn == Server!Session(me) = here

LoginArrived == \A i \in DOMAIN net : net[i].req.type # "LOGIN"

\* The longest the server can go without hearing from a running client: two rounds
\* of the keep-alive thread, the first of which finds that something was sent.
LongestSilence == 2 * (PERIOD + link.drift) + link.delay

\* The keep-alive thread skips the minute in which anything was sent, so that the
\* server may not hear from a running client for twice the thread's period, but no
\* longer, whatever is typed when.
SilenceOfRunningClient ==
    Running /\ ~link.lossy /\ LoginArrived => Server!Idle(me) <= LongestSilence

\* And so a client that runs, and whose datagrams are not lost, is never logged out
\* if the server waits that long: with no delay and no drift, 120 s are enough.
RunningClientKept ==
    Running /\ ~link.lossy /\ LoginArrived /\ LongestSilence <= TIMEOUT => LoggedIn

\* The channels the server will have the client on when what is in flight has arrived,
\* if it has it on the channels "on" now.
Foretold(on, flight) ==
    LET after[i \in 0..Len(flight)] ==
            IF i = 0 THEN on
            ELSE IF flight[i].req.type = "JOIN" THEN after[i - 1] \cup {flight[i].req.channel}
            ELSE IF flight[i].req.type = "LEAVE" THEN after[i - 1] \ {flight[i].req.channel}
            ELSE after[i - 1]
    IN  after[Len(flight)]

Expected == Foretold({c \in Channel : me \in Server!InChannel(channels, c)}, net)

\* The client tells its user of a join or a leave when it sends it, and hears no
\* answer.  If nothing is lost or overtaken the server agrees in the end.
BeliefCatchesUp ==
    Running /\ ~link.lossy /\ link.fifo /\ LongestSilence <= TIMEOUT => Expected = believed

\* A client that is told to exit does: waiting for the cancelled thread, which may
\* hold the lock, it is not waited for.
ExitCompletes == main = "cancel" ~> main = "exited"

\* A client that has exited is logged out in the end, even if its logout was lost, or
\* overtook its login, or a keep alive came after it.
ExitedIsLoggedOut == main = "exited" ~> ~LoggedIn
==============================================================================
