---------------------- MODULE MCInterruptiblePipeline ----------------------
(* Instance of InterruptiblePipeline for TLC: the fetch pipeline of        *)
(* MCFetchPipeline, and one SIGINT sent to the whole process group (the   *)
(* terminal's Ctrl-C) or to one worker alone (kill -INT <pid>).           *)
EXTENDS InterruptiblePipeline, TLC

CONSTANTS u1, u2

MCInput == <<u1, u2, u1>>

\* Ctrl-C: the signal reaches every process of the foreground group.
MCProcessGroup == {Workers \cup {Coordinator}}

\* kill -INT of one worker process.
MCOneWorker == {{w} : w \in Workers}

=============================================================================
