----------------------------- MODULE MCPublisher -----------------------------
(* Two callers, two topics and a call each: both can wait for the mutex    *)
(* while the sender drains, sends, sleeps or is being stopped.             *)
EXTENDS Publisher
==============================================================================
