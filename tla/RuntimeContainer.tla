--------------------------- MODULE RuntimeContainer ---------------------------
(****************************************************************************)
(* The services of a process (runtime/container.py): containers that build  *)
(* each service once, when it is first asked for, know what it was built    *)
(* from, and discard it together with whatever was built from it.           *)
(*                                                                          *)
(* Calls of an application are bound to its container; the others go to the *)
(* container of the process, which may be replaced at any moment, also      *)
(* while a factory is asking for the services it needs.  The lock of a      *)
(* container is held by the thread that builds in it.                       *)
(****************************************************************************)
EXTENDS Naturals, Sequences, FiniteSets

CONSTANTS
  Threads,
  Containers, NoContainer,
  Applications, \* containers of applications; the others are the process's
  Services, Root,
  Declared,     \* the services that each declares to depend on
  Uses,         \* and those its factory asks for, in order
  MaxValues     \* bound: services built

VARIABLES
  process,      \* the container of the process
  state,        \* "new", "open" or "closed"
  services,     \* what each container holds, by name
  deps,         \* which services each container knows to depend on which
  values,       \* everything that was ever built
  thread

runtimeVars == <<process, state, services, deps, values, thread>>

\* `frames` are the factories that run, the innermost last; `closing` what this
\* thread has taken out of a container and must close.
Resting == [pc |-> "rest", job |-> "none", bound |-> NoContainer, at |-> NoContainer,
            asks |-> Root, frames |-> << >>, closing |-> << >>]

RuntimeInit ==
  /\ process = NoContainer
  /\ state = [c \in Containers |-> IF c \in Applications THEN "open" ELSE "new"]
  /\ services = [c \in Containers |-> << >>]
  /\ deps = [c \in Containers |-> [n \in Services |-> {}]]
  /\ values = << >>
  /\ thread = [t \in Threads |-> Resting]

Thread(t, next) == thread' = [thread EXCEPT ![t] = next]

Top(t) == thread[t].frames[Len(thread[t].frames)]

BuildsIn(t, c) == \E i \in DOMAIN thread[t].frames : thread[t].frames[i].container = c

\* Mutant: nobody waits for a factory.
LockedByNobody(t, c) == TRUE

\* The lock is reentrant.
MayLock(t, c) == \A s \in Threads \ {t} : ~BuildsIn(s, c)

------------------------------------------------------------------------------
(* Asking for a service *)

\* By a tool of an application, or outside of one.
AskFor(t, n, b) ==
  /\ thread[t].pc = "rest"
  /\ b # NoContainer => state[b] = "open"
  /\ Thread(t, [Resting EXCEPT !.pc = "select", !.job = "service", !.bound = b, !.asks = n])
  /\ UNCHANGED <<process, state, services, deps, values>>

\* An error ends every factory that runs.
Raise(t) == Thread(t, Resting)

\* The container that is bound, or that of the process, which is made when missing.
Select(t) ==
  /\ thread[t].pc = "select"
  /\ LET b == thread[t].bound
         go(c) == Thread(t, [thread[t] EXCEPT !.pc = "enter", !.at = c])
     IN  \/ /\ b # NoContainer
            /\ IF state[b] = "closed" THEN Raise(t) ELSE go(b)
            /\ UNCHANGED <<process, state>>
         \/ /\ b = NoContainer
            /\ process # NoContainer
            /\ go(process)
            /\ UNCHANGED <<process, state>>
         \/ /\ b = NoContainer
            /\ process = NoContainer
            /\ \E c \in Containers :
                 /\ state[c] = "new"
                 /\ process' = c
                 /\ state' = [state EXCEPT ![c] = "open"]
                 /\ go(c)
  /\ UNCHANGED <<services, deps, values>>

\* The service whose factory asks, if it runs in this container.
Parents(t, c) ==
  LET running == {i \in DOMAIN thread[t].frames : thread[t].frames[i].container = c}
  IN  {thread[t].frames[i].name : i \in {i \in running : \A j \in running : j <= i}}

\* Mutant: only what is declared is known.
RecordDeclared(t, c, n) == [deps[c] EXCEPT ![n] = @ \cup Declared[n]]

\* What is declared, and that the parent depends on this service.
Record(t, c, n) ==
  [m \in Services |-> deps[c][m] \cup (IF m = n THEN Declared[n] ELSE {})
                                 \cup (IF m \in Parents(t, c) THEN {n} ELSE {})]

\* A service is handed to the factory that asks, or to the caller.
Hand(t, frames, v) ==
  Thread(t, IF frames = << >> THEN Resting
            ELSE [thread[t] EXCEPT !.pc = "build",
                    !.frames = [frames EXCEPT ![Len(frames)].used = @ \cup {v}]])

Building == UNION {{<<t, i>> : i \in DOMAIN thread[t].frames} : t \in Threads}

Enter(t) ==
  LET c == thread[t].at
      n == thread[t].asks
  IN  /\ thread[t].pc = "enter" /\ thread[t].job = "service"
      /\ MayLock(t, c)
      /\ \/ /\ state[c] = "closed"
            /\ Raise(t)
            /\ UNCHANGED deps
         \/ /\ state[c] = "open"
            /\ deps' = [deps EXCEPT ![c] = Record(t, c, n)]
            /\ \/ /\ n \in DOMAIN services[c]
                  /\ Hand(t, thread[t].frames, services[c][n])
               \/ /\ n \notin DOMAIN services[c]
                  /\ Len(values) + Cardinality(Building) < MaxValues
                  /\ Thread(t, [thread[t] EXCEPT !.pc = "build",
                       !.frames = Append(@, [container |-> c, name |-> n, need |-> Uses[n],
                                             used |-> {}])])
      /\ UNCHANGED <<process, state, services, values>>

\* The factory asks for the next service, by the same way.
Ask(t) ==
  /\ thread[t].pc = "build"
  /\ Top(t).need # << >>
  /\ Thread(t, [thread[t] EXCEPT !.pc = "select", !.asks = Head(Top(t).need),
                  !.frames[Len(thread[t].frames)].need = Tail(@)])
  /\ UNCHANGED <<process, state, services, deps, values>>

FactoryFails(t) ==
  /\ thread[t].pc = "build"
  /\ Raise(t)
  /\ UNCHANGED <<process, state, services, deps, values>>

With(f, x, y) == [z \in DOMAIN f \cup {x} |-> IF z = x THEN y ELSE f[z]]

Store(t) ==
  /\ thread[t].pc = "build"
  /\ Top(t).need = << >>
  /\ LET v == Len(values) + 1
         c == Top(t).container
         n == Top(t).name
     IN  /\ values' = Append(values, [container |-> c, name |-> n, used |-> Top(t).used, open |-> TRUE])
         /\ services' = [services EXCEPT ![c] = With(@, n, v)]
         /\ Hand(t, SubSeq(thread[t].frames, 1, Len(thread[t].frames) - 1), v)
  /\ UNCHANGED <<process, state, deps>>

------------------------------------------------------------------------------
(* Discarding services *)

Starts(t, job, c, n) ==
  Thread(t, [Resting EXCEPT !.pc = "enter", !.job = job, !.at = c, !.asks = n])

\* Of the application that is bound, or of the process if there is a runtime.
BeginClear(t, c, n) ==
  /\ thread[t].pc = "rest"
  /\ c \in Applications \cup ({process} \ {NoContainer})
  /\ state[c] = "open"
  /\ Starts(t, "clear", c, n)
  /\ UNCHANGED <<process, state, services, deps, values>>

BeginClose(t, c) ==
  /\ thread[t].pc = "rest"
  /\ c \in Applications
  /\ Starts(t, "close", c, Root)
  /\ UNCHANGED <<process, state, services, deps, values>>

\* The process goes on with another container, or with none, and closes the last.
GoOnWith(t, next) ==
  /\ thread[t].pc = "rest"
  /\ process' = next
  /\ IF process = NoContainer THEN UNCHANGED thread ELSE Starts(t, "close", process, Root)
  /\ UNCHANGED <<services, deps, values>>

InstallRuntime(t, c) ==
  /\ state[c] = "new"
  /\ state' = [state EXCEPT ![c] = "open"]
  /\ GoOnWith(t, c)

Reset(t) ==
  /\ process # NoContainer
  /\ GoOnWith(t, NoContainer)
  /\ UNCHANGED state

RECURSIVE Dependents(_, _)
\* With all that depends on them.
Dependents(c, names) ==
  LET more == names \cup {m \in Services : deps[c][m] \cap names # {}}
  IN  IF more = names THEN names ELSE Dependents(c, more)

\* The orders in which services can be closed, each behind those that depend on it.
Orders(c, names) ==
  {o \in [1 .. Cardinality(names) -> names] :
     /\ {o[i] : i \in DOMAIN o} = names
     /\ \A i, j \in DOMAIN o : i < j => o[i] \notin deps[c][o[j]]}

\* Services leave their container under its lock, and are closed without it.
TakeOut(t, c, names) ==
  /\ \E o \in Orders(c, names \cap DOMAIN services[c]) :
       Thread(t, [Resting EXCEPT !.pc = "close",
                    !.closing = [i \in DOMAIN o |-> services[c][o[i]]]])
  /\ services' = [services EXCEPT ![c] = [n \in DOMAIN @ \ names |-> @[n]]]
  /\ UNCHANGED <<process, deps, values>>

ClearService(t) ==
  LET c == thread[t].at IN
  /\ thread[t].pc = "enter" /\ thread[t].job = "clear"
  /\ MayLock(t, c)
  /\ \/ state[c] = "closed" /\ Raise(t) /\ UNCHANGED <<process, services, deps, values>>
     \/ state[c] = "open" /\ TakeOut(t, c, Dependents(c, {thread[t].asks}))
  /\ UNCHANGED state

\* Closing again does nothing.
CloseContainer(t) ==
  LET c == thread[t].at IN
  /\ thread[t].pc = "enter" /\ thread[t].job = "close"
  /\ MayLock(t, c)
  /\ \/ state[c] = "closed" /\ Raise(t) /\ UNCHANGED <<process, services, deps, values>>
     \/ state[c] = "open" /\ TakeOut(t, c, Services)
  /\ state' = [state EXCEPT ![c] = "closed"]

\* An error of one is kept for the end.
CloseValue(t) ==
  /\ thread[t].pc = "close"
  /\ IF thread[t].closing = << >> THEN Raise(t) /\ UNCHANGED values
     ELSE /\ values' = [values EXCEPT ![Head(thread[t].closing)].open = FALSE]
          /\ Thread(t, [thread[t] EXCEPT !.closing = Tail(@)])
  /\ UNCHANGED <<process, state, services, deps>>

RuntimeNext ==
  \E t \in Threads :
    \/ \E n \in Services, b \in Applications \cup {NoContainer} : AskFor(t, n, b)
    \/ Select(t) \/ Enter(t) \/ Ask(t) \/ FactoryFails(t) \/ Store(t)
    \/ \E c \in Containers, n \in Services : BeginClear(t, c, n)
    \/ \E c \in Containers : BeginClose(t, c) \/ InstallRuntime(t, c)
    \/ Reset(t) \/ ClearService(t) \/ CloseContainer(t) \/ CloseValue(t)

------------------------------------------------------------------------------
Live(v) == \E n \in DOMAIN services[values[v].container] : services[values[v].container][n] = v

\* What an application or the process holds was built from what it holds now:
\* no service goes on with another that was discarded, or that belongs to
\* another container, whatever is cleared or installed while factories run.
OneGeneration ==
  \A c \in Applications \cup ({process} \ {NoContainer}) : \A n \in DOMAIN services[c] :
     /\ values[services[c][n]].open
     /\ \A u \in values[services[c][n]].used : values[u].container = c /\ Live(u)

\* Every service that was built is held, closed or about to be closed by one
\* thread, which closes none before one that was built from it; and a closed
\* container holds nothing.
ClosedOnce ==
  /\ \A c \in Containers : state[c] = "closed" => services[c] = << >>
  /\ \A v \in DOMAIN values :
       LET due == UNION {{<<t, i>> : i \in {i \in DOMAIN thread[t].closing :
                                              thread[t].closing[i] = v}} : t \in Threads}
       IN  Cardinality(due) + (IF Live(v) THEN 1 ELSE 0) = (IF values[v].open THEN 1 ELSE 0)
  /\ \A t \in Threads : \A i, j \in DOMAIN thread[t].closing :
       i < j => thread[t].closing[i] \notin values[thread[t].closing[j]].used

\* Threads do not wait for one another.
NoStandstill ==
  \A s, t \in Threads :
     s # t /\ thread[s].pc = "enter" /\ thread[t].pc = "enter" =>
       ~(BuildsIn(t, thread[s].at) /\ BuildsIn(s, thread[t].at))

\* What docs/runtime-container.md says of services and their containers.
ServicesBelongTogether == OneGeneration /\ ClosedOnce /\ NoStandstill
==============================================================================
