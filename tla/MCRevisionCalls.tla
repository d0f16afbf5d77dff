--------------------------- MODULE MCRevisionCalls ---------------------------
(* What a call may wait for, one at a time: the write lock of the           *)
(* repository, or a child process.                                          *)
EXTENDS RevisionStore, BoundedProcess

CONSTANT first   \* the project that is created first

VARIABLE part

allVars == <<vars, processVars, part>>

CallsInit ==
  \/ part = "repository" /\ Init /\ ProcessInit("off")
  \/ part = "process" /\ Init /\ ProcessInit("start")

\* Projects are alike: nobody turns to the other one before there is a first.
FirstFirst ==
  \/ revs # << >>
  \/ \A c \in Clients : session'[c].pc = "idle" \/ session'[c].key[1] = first

CallsNext ==
  \/ part = "repository" /\ Next /\ FirstFirst /\ UNCHANGED <<processVars, part>>
  \/ part = "process" /\ ProcessNext /\ UNCHANGED <<vars, part>>

CallsSpec == CallsInit /\ [][CallsNext]_allVars /\ Fairness /\ ProcessFairness

\* Whatever a call waits for, the lock of RevisionStore or the process of
\* BoundedProcess, it returns.
EverybodyReturns == CallsReturn /\ ProcessesEnd
==============================================================================
