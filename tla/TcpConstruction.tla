-------------------------- MODULE TcpConstruction --------------------------
(***************************************************************************)
(* thrill/net/tcp/construct.cpp: the hosts connect to each other, pairwise *)
(* and for each Group.  A host listens, connects to the hosts of higher    *)
(* rank, tries again when it is refused or timed out, and waits to be      *)
(* connected by those of lower rank; a WelcomeMsg in each direction says   *)
(* who is at the other end.  Each handler is one step of a host's          *)
(* dispatcher.  A link is a TCP connection <<from, group, to, attempt>>.   *)
(***************************************************************************)
EXTENDS Integers, Sequences, FiniteSets
CONSTANTS
    Shapes,       \* [hosts, groups, maxLost]: how many, and a bound on the attempts
                  \* that end with ETIMEDOUT although the peer listens
    MaxDoublings  \* 12: how often the timeout doubles before final_timeout_
VARIABLES
    shape,
    phase,     \* of each host: "off", "run", "done" or "threw"
    conn,      \* <<host, group, peer>> |-> [state, link, err]: err is the socket's error, or "wait", "none"
    timeouts,  \* <<host, group, peer>> |-> doublings so far, or -1
    timers,    \* the <<host, group, peer>> with a timer for the next attempt
    backlog,   \* links that wait for accept, for each host
    accepted,  \* links whose WelcomeMsg the host waits for
    wire,      \* WelcomeMsg under way: [link, to, group, id]
    lost, dead
tcpVars == <<shape, phase, conn, timeouts, timers, backlog, accepted, wire, lost, dead>>

Hosts == 0..(shape.hosts - 1)
Groups == 1..shape.groups
Ends == {<<h, g, p>> \in Hosts \X Groups \X Hosts : h # p}
NoConnection == [state |-> "Invalid", link |-> <<>>, err |-> "none"]
Running(h) == phase[h] = "run" /\ ~dead

Init ==
    /\ shape \in Shapes
    /\ phase = [h \in Hosts |-> "off"]
    /\ conn = [e \in Ends |-> NoConnection]
    /\ timeouts = [e \in Ends |-> -1]
    /\ timers = {} /\ backlog = [h \in Hosts |-> <<>>] /\ accepted = [h \in Hosts |-> {}]
    /\ wire = {} /\ lost = 0 /\ dead = FALSE

\* AsyncConnect: a new socket, connecting
AsyncConnect_KeepsInvalid == [NoConnection EXCEPT !.err = "wait"]
AsyncConnect == [NoConnection EXCEPT !.state = "Connecting", !.err = "wait"]

ConnectsTo_Everyone(h) == Hosts \ {h}
ConnectsTo(h) == {p \in Hosts : p > h}
\* Initialize, up to the loop: listen, then connect to the higher ranks
Initialize(h) ==
    /\ phase[h] = "off" /\ ~dead
    /\ phase' = [phase EXCEPT ![h] = "run"]
    /\ conn' = [e \in Ends |-> IF e[1] = h /\ e[3] \in ConnectsTo(h) THEN AsyncConnect ELSE conn[e]]
    /\ UNCHANGED <<shape, timeouts, timers, backlog, accepted, wire, lost, dead>>
\* the loop ends, and the listener is closed
IsInitializationFinished_Active(h) == \A e \in Ends : e[1] = h /\ e[3] > h => conn[e].state = "Connected"
IsInitializationFinished(h) == \A e \in Ends : e[1] = h => conn[e].state = "Connected"
Finish(h) ==
    /\ Running(h) /\ IsInitializationFinished(h)
    /\ phase' = [phase EXCEPT ![h] = "done"]
    /\ UNCHANGED <<shape, conn, timeouts, timers, backlog, accepted, wire, lost, dead>>

(***************************************************************************)
(* The network, as connect(), getsockopt(SO_ERROR) and accept() show it    *)
(***************************************************************************)
Handshake(e) ==
    /\ conn[e].err = "wait"
    /\ \/ /\ phase[e[3]] = "run"
          /\ LET link == Append(e, timeouts[e])
             IN /\ conn' = [conn EXCEPT ![e].err = "ok", ![e].link = link]
                /\ backlog' = [backlog EXCEPT ![e[3]] = Append(@, link)]
          /\ UNCHANGED lost
       \/ /\ phase[e[3]] # "run" /\ conn' = [conn EXCEPT ![e].err = "refused"] /\ UNCHANGED <<backlog, lost>>
       \/ /\ lost < shape.maxLost /\ lost' = lost + 1
          /\ conn' = [conn EXCEPT ![e].err = "refused"] /\ UNCHANGED backlog
    /\ UNCHANGED <<shape, phase, timeouts, timers, accepted, wire, dead>>

(***************************************************************************)
(* OnConnected: with an error, a timer for the next attempt or, at last,   *)
(* an exception; else the WelcomeMsg is written and one is read.           *)
(***************************************************************************)
NextConnectTimeout(e) == timeouts' = [timeouts EXCEPT ![e] = @ + 1]
OnRefused_Forgets(e) ==
    /\ NextConnectTimeout(e) /\ UNCHANGED <<phase, timers>>
OnRefused(e) ==
    /\ NextConnectTimeout(e)
    /\ \/ timeouts[e] + 1 >= MaxDoublings /\ phase' = [phase EXCEPT ![e[1]] = "threw"] /\ UNCHANGED timers
       \/ timeouts[e] + 1 < MaxDoublings /\ timers' = timers \cup {e} /\ UNCHANGED phase
OnConnected(e) ==
    /\ Running(e[1]) /\ conn[e].err \in {"ok", "refused"}
    /\ dead' = (conn[e].state # "Connecting")
    /\ \/ /\ conn[e].err = "refused" /\ OnRefused(e) /\ conn' = [conn EXCEPT ![e].err = "none"]
       \/ /\ conn[e].err = "ok" /\ conn' = [conn EXCEPT ![e].state = "TransportConnected", ![e].err = "none"]
          /\ UNCHANGED <<timeouts, timers, phase>>
    /\ UNCHANGED <<shape, backlog, accepted, wire, lost>>
Timer(e) ==
    /\ Running(e[1]) /\ e \in timers
    /\ timers' = timers \ {e} /\ conn' = [conn EXCEPT ![e] = AsyncConnect]
    /\ UNCHANGED <<shape, phase, timeouts, backlog, accepted, wire, lost, dead>>

WelcomeMsg_FirstGroup(e) == [link |-> conn[e].link, to |-> e[3], group |-> 1, id |-> e[1]]
WelcomeMsg(e) == [link |-> conn[e].link, to |-> e[3], group |-> e[2], id |-> e[1]]
\* the WelcomeMsg is written, then OnHelloSent is called
HelloSent_Active(state) == "HelloSent"
HelloSent(state) ==
    IF state = "TransportConnected" THEN "HelloSent" ELSE "Connected"
OnHelloSent(e) ==
    /\ Running(e[1]) /\ conn[e].state \in {"TransportConnected", "HelloReceived"}
    /\ wire' = wire \cup {WelcomeMsg(e)}
    /\ conn' = [conn EXCEPT ![e].state = HelloSent(@)]
    /\ UNCHANGED <<shape, phase, timeouts, timers, backlog, accepted, lost, dead>>
OnIncomingWelcome(e) ==
    /\ Running(e[1]) /\ conn[e].state \in {"TransportConnected", "HelloSent"}
    /\ \E msg \in wire :
        /\ msg.link = conn[e].link /\ msg.to = e[1]
        /\ dead' = (conn[e].state # "HelloSent" \/ msg.id # e[3] \/ msg.group # e[2])
        /\ wire' = wire \ {msg}
    /\ conn' = [conn EXCEPT ![e].state = "Connected"]
    /\ UNCHANGED <<shape, phase, timeouts, timers, backlog, accepted, lost>>

OnIncomingConnection(h) ==
    /\ Running(h) /\ backlog[h] # <<>>
    /\ backlog' = [backlog EXCEPT ![h] = Tail(@)]
    /\ accepted' = [accepted EXCEPT ![h] = @ \cup {backlog[h][1]}]
    /\ UNCHANGED <<shape, phase, conn, timeouts, timers, wire, lost, dead>>
OnIncomingWelcomeAndReply(h) ==
    /\ Running(h)
    /\ \E msg \in wire :
        /\ msg.to = h /\ msg.link \in accepted[h]
        /\ wire' = wire \ {msg} /\ accepted' = [accepted EXCEPT ![h] = @ \ {msg.link}]
        /\ LET e == <<h, msg.group, msg.id>>
           IN /\ dead' = (e \notin Ends \/ conn[e].state # "Invalid")
              /\ conn' = [conn EXCEPT ![e] = [state |-> "HelloReceived", link |-> msg.link, err |-> "none"]]
    /\ UNCHANGED <<shape, phase, timeouts, timers, backlog, lost>>

\* the peer at the other end of a link has thrown: reading it throws, too
PeerLost(h) ==
    /\ Running(h)
    /\ \E link \in accepted[h] \cup {conn[e].link : e \in {x \in Ends : x[1] = h /\ conn[x].state # "Connected"}} :
        link # <<>> /\ \E p \in {link[1], link[3]} : phase[p] = "threw"
    /\ phase' = [phase EXCEPT ![h] = "threw"]
    /\ UNCHANGED <<shape, conn, timeouts, timers, backlog, accepted, wire, lost, dead>>

HostStep(h) ==
    \/ Initialize(h) \/ Finish(h) \/ OnIncomingConnection(h) \/ OnIncomingWelcomeAndReply(h) \/ PeerLost(h)
    \/ \E e \in Ends : e[1] = h /\ (OnConnected(e) \/ Timer(e) \/ OnHelloSent(e) \/ OnIncomingWelcome(e))
Network == \E e \in Ends : Handshake(e)
Next == Network \/ \E h \in Hosts : HostStep(h)

----------------------------------------------------------------------------
\* Construction: none of the die() of the handlers is reached, however the
\* attempts, the accepted connections and the messages of the groups interleave.
NoFaultyState == ~dead

\* Construction: the two ends of a group's connection are the ends of one link,
\* made by the lower rank for this group, although the listener cannot know who
\* connects; and a host never closes its listener while a peer still needs it.
PairsMatch ==
    \A e \in Ends :
        conn[e].state \in {"HelloSent", "HelloReceived", "Connected"} /\ e[1] > e[3] =>
            LET other == <<e[3], e[2], e[1]>>
            IN conn[e].link = conn[other].link /\ conn[other].state \in {"HelloSent", "Connected"}

\* Construction: when every host is started, either each one is connected with
\* each other in every group and goes on, or one gave up after its last timeout.
AllDone == \A h \in Hosts : phase[h] = "done"
SomeoneThrew == \E h \in Hosts : phase[h] = "threw"
=============================================================================
