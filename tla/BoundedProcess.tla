--------------------------- MODULE BoundedProcess ---------------------------
(****************************************************************************)
(* A child process that a build or a test waits for, and the two loops that *)
(* collect its output: run_bounded_process, for compilers, and the sandbox, *)
(* for test programs.  Both have a deadline and a limit on stdout and       *)
(* stderr together.  The child may have a descendant, which can keep its    *)
(* pipes open after it, or leave its process group.                         *)
(*                                                                          *)
(* Time is the passing of a deadline, at any moment.  A signal is sent in   *)
(* one step and takes effect in a later one.                                *)
(****************************************************************************)
EXTENDS Naturals, FiniteSets

CONSTANTS
  OutputLimit,   \* max_output_bytes
  MaxWritten     \* bound: what the processes write altogether

ASSUME ProcessAssumption == {OutputLimit, MaxWritten} \subseteq Nat

Streams == {"stdout", "stderr"}
Processes == {"leader", "descendant"}
Kinds == {"compiler", "sandbox"}
Flags == {"timed_out", "output_limited"}

VARIABLES
  kind,       \* which of the two loops runs
  pc,         \* where the caller is
  started,    \* the processes that were started
  alive,      \* those still running
  group,      \* members of the leader's process group
  killed,     \* those a SIGKILL was sent to
  holds,      \* the processes that have the write end of each pipe open
  piped,      \* what each pipe holds
  written,    \* what was written altogether
  registered, \* streams the selector still watches
  ready,      \* events still to be handled
  captured,   \* total: what was accepted
  deadlines,  \* the deadlines that have passed
  flags       \* the reasons for which the collection stopped early

processVars == <<kind, pc, started, alive, group, killed, holds, piped, written,
                 registered, ready, captured, deadlines, flags>>

caller == <<pc, registered, ready, captured, flags>>
system == <<kind, started, alive, group, holds, piped, written, deadlines>>

Finished == {"failed", "done", "raised"}

\* start is "start", or "off" for a process nobody runs.
ProcessInit(start) ==
  /\ kind \in Kinds
  /\ pc = start
  /\ started = {}
  /\ alive = {}
  /\ group = {}
  /\ killed = {}
  /\ holds = [s \in Streams |-> {}]
  /\ piped = [s \in Streams |-> 0]
  /\ written = 0
  /\ registered = Streams
  /\ ready = {}
  /\ captured = 0
  /\ deadlines = {}
  /\ flags = {}

------------------------------------------------------------------------------
(* The processes.  Bubblewrap's outer process keeps its pipes open as long  *)
(* as the program runs in its namespace, exits after it, and takes it along *)
(* when it dies (--die-with-parent).                                        *)

Running(p) == p \in alive \ killed

Inside(p) == pc \notin {"off", "start"} \cup Finished /\ Running(p)

\* --new-session: the program in the sandbox is in a session of its own.
Fork ==
  /\ Inside("leader")
  /\ "descendant" \notin started
  /\ started' = Processes
  /\ alive' = Processes
  /\ group' = IF kind = "sandbox" THEN group ELSE Processes
  /\ holds' = [s \in Streams |-> holds[s] \cup {p \in {"descendant"} : "leader" \in holds[s]}]
  /\ UNCHANGED <<kind, killed, piped, written, deadlines, caller>>

LeaveGroup ==
  /\ kind = "compiler"
  /\ Inside("descendant")
  /\ "descendant" \in group
  /\ group' = group \ {"descendant"}
  /\ UNCHANGED <<kind, started, alive, killed, holds, piped, written, deadlines, caller>>

Write(p, s) ==
  /\ Inside(p)
  /\ p \in holds[s]
  /\ written < MaxWritten
  /\ written' = written + 1
  /\ piped' = [piped EXCEPT ![s] = @ + 1]
  /\ UNCHANGED <<kind, started, alive, group, killed, holds, deadlines, caller>>

CloseStream(p, s) ==
  /\ Inside(p)
  /\ p \in holds[s]
  /\ kind = "sandbox" => p # "leader"
  /\ holds' = [holds EXCEPT ![s] = @ \ {p}]
  /\ UNCHANGED <<kind, started, alive, group, killed, piped, written, deadlines, caller>>

\* A process exits by itself, is killed, or dies with its parent.
Die(p) ==
  /\ pc \notin {"off", "start"}
  /\ p \in alive
  /\ kind = "sandbox" /\ p = "leader" => p \in killed \/ "descendant" \notin alive
  /\ alive' = alive \ {p}
  /\ holds' = [s \in Streams |-> holds[s] \ {p}]
  /\ UNCHANGED <<kind, started, group, killed, piped, written, deadlines, caller>>

MustDie(p) ==
  p \in alive /\ (p \in killed \/ (kind = "sandbox" /\ "leader" \notin alive))

\* A clock: the deadline of the run, or that of the drain after it.
Elapse(d) ==
  /\ pc \notin {"off", "start"} \cup Finished
  /\ d = "drain" => pc \in {"drain", "drain_read"}
  /\ d \notin deadlines
  /\ deadlines' = deadlines \cup {d}
  /\ UNCHANGED <<kind, started, alive, group, killed, holds, piped, written, caller>>

------------------------------------------------------------------------------
(* The caller                                                               *)

\* _terminate_process_group signals the group even if its leader is gone; the
\* sandbox does not.
KilledGroup ==
  IF kind = "sandbox" /\ "leader" \notin alive
  THEN killed ELSE killed \cup group

Events == {s \in registered : piped[s] > 0 \/ holds[s] = {}}

Launch ==
  /\ pc = "start"
  /\ \/ /\ pc' = "collect"
        /\ started' = {"leader"}
        /\ alive' = {"leader"}
        /\ group' = {"leader"}
        /\ holds' = [s \in Streams |-> {"leader"}]
     \/ /\ pc' = "failed"
        /\ UNCHANGED <<started, alive, group, holds>>
  /\ UNCHANGED <<kind, killed, piped, written, deadlines, registered, ready, captured, flags>>

\* Mutant: the exit of the child ends the collection.
CollectingUntilExit == "leader" \in alive

\* The sandbox watches the pipes alone.
Collecting == registered # {} \/ (kind = "compiler" /\ "leader" \in alive)

EndCollection ==
  /\ pc = "collect"
  /\ ~Collecting
  /\ pc' = "wait"
  /\ UNCHANGED <<system, killed, registered, ready, captured, flags>>

TimeOut ==
  /\ pc = "collect"
  /\ Collecting
  /\ "run" \in deadlines
  /\ flags' = flags \cup {"timed_out"}
  /\ killed' = KilledGroup
  /\ pc' = IF kind = "sandbox" THEN "wait" ELSE "drain"
  /\ UNCHANGED <<system, registered, ready, captured>>

\* With no event and the child still there, select only waits.
Select ==
  /\ pc = "collect"
  /\ registered # {}
  /\ "run" \notin deadlines
  /\ \/ Events # {} /\ ready' = Events
     \/ Events = {} /\ "leader" \notin alive /\ ready' = registered
  /\ pc' = "read"
  /\ UNCHANGED <<system, killed, registered, captured, flags>>

\* One os.read of a stream, which gives part of what the pipe holds, nothing
\* yet, or the end of the file.
Read(s) ==
  /\ pc \in {"read", "drain_read"}
  /\ s \in ready
  /\ ready' = ready \ {s}
  /\ \/ /\ piped[s] = 0
        /\ registered' = IF holds[s] = {} THEN registered \ {s} ELSE registered
        /\ UNCHANGED <<pc, killed, piped, captured, flags>>
     \/ \E n \in 1..piped[s] :
          /\ piped' = [piped EXCEPT ![s] = @ - n]
          /\ captured' = IF captured + n > OutputLimit THEN OutputLimit ELSE captured + n
          /\ IF captured + n <= OutputLimit
             THEN UNCHANGED <<pc, killed, flags>>
             ELSE /\ pc' = "wait"
                  /\ IF pc = "read"
                     THEN /\ flags' = flags \cup {"output_limited"}
                          /\ killed' = KilledGroup
                     ELSE UNCHANGED <<killed, flags>>
          /\ UNCHANGED registered
  /\ UNCHANGED <<kind, started, alive, group, holds, written, deadlines>>

EndEvents ==
  /\ pc \in {"read", "drain_read"}
  /\ ready = {}
  /\ pc' = IF pc = "read" THEN "collect" ELSE "drain"
  /\ UNCHANGED <<system, killed, registered, ready, captured, flags>>

\* Mutant: the drain waits for the end of both pipes.
EndDrainAtEof ==
  /\ pc = "drain"
  /\ registered = {}
  /\ pc' = "wait"
  /\ UNCHANGED <<system, killed, registered, ready, captured, flags>>

EndDrain ==
  /\ pc = "drain"
  /\ registered = {} \/ "drain" \in deadlines
  /\ pc' = "wait"
  /\ UNCHANGED <<system, killed, registered, ready, captured, flags>>

SelectDrain ==
  /\ pc = "drain"
  /\ "drain" \notin deadlines
  /\ Events # {}
  /\ ready' = Events
  /\ pc' = "drain_read"
  /\ UNCHANGED <<system, killed, registered, captured, flags>>

\* wait(timeout=1), twice at most; the sandbox waits without a timeout.
WaitTimesOut ==
  /\ pc \in {"wait", "wait_killed"}
  /\ kind = "compiler"
  /\ "leader" \in alive
  /\ pc' = IF pc = "wait" THEN "wait_killed" ELSE "raised"
  /\ killed' = KilledGroup
  /\ UNCHANGED <<system, registered, ready, captured, flags>>

\* Mutant: what is left of the group is not signalled once the child is reaped.
ReapOnly ==
  /\ pc \in {"wait", "wait_killed"}
  /\ "leader" \notin alive
  /\ pc' = "done"
  /\ UNCHANGED <<system, killed, registered, ready, captured, flags>>

Reap ==
  /\ pc \in {"wait", "wait_killed"}
  /\ "leader" \notin alive
  /\ pc' = "done"
  /\ killed' = KilledGroup
  /\ UNCHANGED <<system, registered, ready, captured, flags>>

------------------------------------------------------------------------------
Call ==
  \/ Launch
  \/ EndCollection
  \/ TimeOut
  \/ Select
  \/ \E s \in Streams : Read(s)
  \/ EndEvents
  \/ EndDrain
  \/ SelectDrain
  \/ WaitTimesOut
  \/ Reap

ProcessNext ==
  \/ Call
  \/ Fork
  \/ LeaveGroup
  \/ \E p \in Processes, s \in Streams : Write(p, s) \/ CloseStream(p, s)
  \/ \E p \in Processes : Die(p)
  \/ \E d \in {"run", "drain"} : Elapse(d)

\* The caller goes on, clocks run, and what was killed dies.
ProcessFairness ==
  /\ WF_processVars(Call)
  /\ \A d \in {"run", "drain"} : WF_processVars(Elapse(d))
  /\ \A p \in Processes : WF_processVars(MustDie(p) /\ Die(p))

ProcessSpec == ProcessInit("start") /\ [][ProcessNext]_processVars /\ ProcessFairness

------------------------------------------------------------------------------
\* What is reported is what happened: at most one reason for stopping early, a
\* timeout only after the deadline, an output limit only when more was written,
\* and with neither the output is complete, and nobody can add to it.  The child
\* is gone, and so is, or will be, whatever was still in its process group, or in
\* its sandbox.
CallsEndClean ==
  pc = "done" =>
    /\ flags # Flags
    /\ "timed_out" \in flags => "run" \in deadlines
    /\ "output_limited" \in flags => written > OutputLimit
    /\ captured <= OutputLimit
    /\ flags = {} => captured = written /\ \A s \in Streams : holds[s] = {}
    /\ "leader" \notin alive
    /\ \A p \in alive : MustDie(p) \/ (kind = "compiler" /\ p \notin group)

\* Every call ends, whatever the processes do with their pipes.
ProcessesEnd == pc = "start" ~> pc \in Finished
==============================================================================
