---------------------------- MODULE MCLifecycle -----------------------------
(* Lifecycle on short streams.                                               *)
EXTENDS Lifecycle

MCStreams == {<< << >>, <<1, 2>> >>, << <<1>>, << >> >>}
MCISN == TwoTo32 - 2
MCRemoteISN == 5

(* What the other TCP does once the thread is over touches no property.      *)
Running == thread \in {"opening", "main"}
=============================================================================
