-------------------------- MODULE EventStreamClaims --------------------------
(* What the README of TXQ says of the event streams, and the code does not do.  *)
EXTENDS EventStream

(* "The EventSource automatically handles sending Last-EventId as a header when *)
(* the stream reconnects so you will always get any missed updates"             *)
(* (README.md:1063): when a client that has seen events connects again, those   *)
(* that came after its last one and are still in the buffer are sent to it.     *)
MissedAreReplayed ==
  [][\A x \in Client :
       Connect(x) /\ client[x].lastId > 0 =>
         \A k \in 1 .. Len(chan[ChannelOf(x)].events) :
           LET event == chan[ChannelOf(x)].events[k] IN
           event.id > client[x].lastId =>
             \E j \in 1 .. Len(client'[x].got) : client'[x].got[j] = event.number]_vars
=============================================================================
