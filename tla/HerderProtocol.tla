--------------------------- MODULE HerderProtocol ---------------------------
(***************************************************************************)
(* What a downstream harness may rely on when it runs unifi-emu-herder:    *)
(* the order of the events on stdout, the exit status that goes with the   *)
(* last one, and what a terminal event says about the containers.          *)
(* (internal/herder/protocol.go, the Writer; run.go, finish.)              *)
(***************************************************************************)
EXTENDS Sequences

VARIABLES events,  \* the events written so far
          exit,    \* the exit status, "none" while running
          owned    \* this run's containers that exist

vars == <<events, exit, owned>>

Terminal == {"stopped", "failed", "failed_unclean"}

Init == events = <<>> /\ exit = "none" /\ owned = {}

Begin ==
  /\ exit = "none" /\ events = <<>>
  /\ events' = <<"started">>
  /\ UNCHANGED <<exit, owned>>

Ready ==
  /\ exit = "none" /\ events = <<"started">>
  /\ events' = <<"started", "ready">>
  /\ UNCHANGED <<exit, owned>>

\* The terminal event is the last thing a run does.  stopped is exit 0; both
\* stopped and a failed event that claims complete cleanup leave no container.
End(e) ==
  /\ exit = "none" /\ events # <<>>
  /\ events' = Append(events, e)
  /\ exit' = IF e = "stopped" THEN "0" ELSE "1"
  /\ e # "failed_unclean" => owned = {}
  /\ UNCHANGED owned

\* A broken stdout silences the run, which then exits 1.
EndSilently == exit = "none" /\ exit' = "1" /\ UNCHANGED <<events, owned>>

\* Containers come once the run is announced, and nothing is created after it.
Work == exit = "none" /\ events # <<>> /\ UNCHANGED <<events, exit>>

Next ==
  \/ Begin
  \/ Ready
  \/ \E e \in Terminal : End(e)
  \/ EndSilently
  \/ Work

Spec == Init /\ [][Next]_vars
=============================================================================
