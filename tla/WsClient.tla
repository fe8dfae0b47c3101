------------------------------- MODULE WsClient -------------------------------
(***************************************************************************)
(* app/realtime/okx_ws.py: the one connection of a collector.  connect()    *)
(* dials, subscribes, lets the caller recover what was missed, and then     *)
(* waits for two coroutines together: the one that receives, and the one    *)
(* that sends pings and watches the clock.  Only when both have ended does  *)
(* it dial again.                                                          *)
(***************************************************************************)
EXTENDS Naturals

CONSTANT MaxBreaks    \* bound: how often dialling fails or the peer closes

VARIABLES
    at,          \* where connect() is; "before" until the collector calls it
    sock,        \* _ws: "none", "open" or "closed"
    subscribed,  \* the exchange sends the channels on this connection
    receiver,    \* _receive_loop: "off", "on" or "done"
    beat,        \* _heartbeat_loop: "off", "on" or "done"
    first,       \* first_connect
    running,     \* _running; close() resets it
    quiet,       \* no message for message_timeout
    pong,        \* _last_pong_at: "never", "fresh" or "old"
    breaks

wsVars == <<at, sock, subscribed, receiver, beat, first, running, quiet, pong, breaks>>

WsInit ==
    /\ at = "before"
    /\ sock = "none"
    /\ subscribed = FALSE
    /\ receiver = "off" /\ beat = "off"
    /\ first = TRUE
    /\ running = FALSE
    /\ quiet = FALSE
    /\ pong = "never"
    /\ breaks = 0

Connect ==
    /\ at = "before"
    /\ at' = "dial"
    /\ running' = TRUE
    /\ UNCHANGED <<sock, subscribed, receiver, beat, first, quiet, pong, breaks>>

Break == breaks < MaxBreaks /\ breaks' = breaks + 1

\* A new connection has just been heard of; the last pong it has not.
Dial ==
    /\ at = "dial"
    /\ \/ /\ at' = "subscribe"
          /\ sock' = "open"
          /\ quiet' = FALSE
          /\ UNCHANGED breaks
       \/ /\ Break
          /\ at' = "backoff"
          /\ UNCHANGED <<sock, quiet>>
    /\ UNCHANGED <<subscribed, receiver, beat, first, running, pong>>

\* The subscriptions of the last connection are sent again.
Subscribe ==
    /\ at = "subscribe"
    /\ \/ /\ sock = "open"
          /\ subscribed' = TRUE
          /\ at' = IF first THEN "gather" ELSE "recover"
          /\ receiver' = "on"    \* both start when on_reconnect has returned
          /\ beat' = "on"
          /\ first' = FALSE
       \/ /\ sock = "closed"
          /\ at' = "backoff"
          /\ UNCHANGED <<subscribed, receiver, beat, first>>
    /\ UNCHANGED <<sock, running, quiet, pong, breaks>>

Gathered == at = "gather"

\* Any message: data, ping or pong.
Hear(newPong) ==
    /\ Gathered /\ receiver = "on" /\ sock # "none"
    /\ quiet' = FALSE
    /\ pong' = newPong
    /\ receiver' = IF running THEN "on" ELSE "done"
    /\ UNCHANGED <<at, sock, subscribed, beat, first, running, breaks>>

\* recv raises ConnectionClosed, or times out after close() was called; a
\* time out of a running loop is only logged.
ReceiveEnds ==
    /\ Gathered /\ receiver = "on"
    /\ sock = "closed" \/ ~running
    /\ receiver' = "done"
    /\ UNCHANGED <<at, sock, subscribed, beat, first, running, quiet, pong, breaks>>

\* Five seconds later: a connection that has been quiet, or a pong that is
\* late, ends this loop (and, as the other one goes on, nothing else); so does
\* a ping that cannot be sent.
NoMatter == FALSE    \* a bug: the error of send is logged and the loop goes on
SendFails == sock = "closed"
HeartbeatEnds ==
    /\ Gathered /\ beat = "on"
    /\ quiet \/ pong = "old" \/ SendFails \/ ~running
    /\ beat' = "done"
    /\ UNCHANGED <<at, sock, subscribed, receiver, first, running, quiet, pong, breaks>>

\* The exchange answers a ping.
Pong == sock = "open" /\ beat = "on" /\ Hear("fresh")

\* gather returns: the connection is closed behind it.
GatherReturns ==
    /\ Gathered /\ receiver = "done" /\ beat = "done"
    /\ at' = IF running THEN "backoff" ELSE "end"
    /\ sock' = "closed"
    /\ subscribed' = FALSE
    /\ receiver' = "off" /\ beat' = "off"
    /\ UNCHANGED <<first, running, quiet, pong, breaks>>

Backoff ==
    /\ at = "backoff"
    /\ at' = IF running THEN "dial" ELSE "end"
    /\ UNCHANGED <<sock, subscribed, receiver, beat, first, running, quiet, pong, breaks>>

PeerCloses ==
    /\ sock = "open"
    /\ Break
    /\ sock' = "closed"
    /\ subscribed' = FALSE
    /\ UNCHANGED <<at, receiver, beat, first, running, quiet, pong>>

\* The exchange says nothing for a while.
Silence ==
    /\ sock = "open"
    /\ \/ pong = "fresh" /\ pong' = "old" /\ UNCHANGED quiet
       \/ pong # "fresh" /\ ~quiet /\ quiet' = TRUE /\ UNCHANGED pong
    /\ UNCHANGED <<at, sock, subscribed, receiver, beat, first, running, breaks>>

\* close(), called from the thread that stops the collector; it runs on the
\* loop, so not while on_reconnect does.
Close ==
    /\ running /\ at # "recover"
    /\ running' = FALSE
    /\ sock' = IF sock = "open" THEN "closed" ELSE sock
    /\ subscribed' = FALSE
    /\ UNCHANGED <<at, receiver, beat, first, quiet, pong, breaks>>

Loop ==
    \/ Connect \/ Dial \/ Subscribe \/ ReceiveEnds \/ HeartbeatEnds
    \/ GatherReturns \/ Backoff
Outside == PeerCloses \/ Silence \/ Close

\* A connection that is lost is replaced by one with the channels on it,
\* unless the collector is stopped: both coroutines find out by themselves.
Reconnects == sock = "closed" /\ running ~> subscribed \/ ~running
=============================================================================
