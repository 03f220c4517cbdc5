-------------------------------- MODULE Program --------------------------------
(***************************************************************************)
(* The life of the program: main, run and watchdog (main.cpp), doExecute   *)
(* and the coroutine launchLifecycle, which starts and stops the helpers   *)
(* around it (command.cpp).  With arguments the work is done by a child,   *)
(* which a parent watches; without, by the program itself.                 *)
(*                                                                         *)
(* The helpers are LogService and ViewService, seen from outside: a        *)
(* startup may fail, and the service may miss the notification of a        *)
(* shutdown, as those modules show.  Signals are the kernel's.             *)
(***************************************************************************)
EXTENDS FiniteSets

CONSTANT Helpers

VARIABLES
  args,          \* the program was called with arguments
  parent,        \* where the parent is: main and then watchdog
  blocked,       \* SIGCHLD and SIGALRM are blocked in the parent
  pending,       \* the signals that are kept back meanwhile
  interrupted,   \* the signals whose handler has set its flag
  alarm,         \* the alarm is set
  child,         \* where the child, or the program without arguments, is
  deathSignal,   \* the child is to be told of the end of its parent
  exit,          \* exit code of the child, once there is one
  sender,        \* what each sender of publish is to do, and whether it has arrived
  service        \* service() of each helper

programVars == <<args, parent, blocked, pending, interrupted, alarm, child, deathSignal,
                 exit, sender, service>>

Rests == [h \in Helpers |-> "none"]

Init ==
  /\ args \in BOOLEAN
  /\ parent = IF args THEN "main" ELSE "none"
  /\ blocked = FALSE /\ pending = {} /\ interrupted = {} /\ alarm = FALSE
  /\ child = IF args THEN "none" ELSE "run"
  /\ deathSignal = FALSE
  /\ exit = "none"
  /\ sender = Rests /\ service = Rests

--------------------------------------------------------------------------------
(* Signals. *)

ParentEnds == {"none", "success", "failure", "killed"}
ChildEnds  == {"none", "exited", "killed"}

\* A signal to the parent is kept back, or its handler sets the flag; pause returns then.
Raises(signal) ==
  /\ pending' = IF blocked THEN pending \cup {signal} ELSE pending
  /\ interrupted' = IF blocked THEN interrupted ELSE interrupted \cup {signal}
  /\ parent' = IF parent = "paused" /\ ~blocked THEN "testChild" ELSE parent

\* The child ends, and its parent hears of it.
ChildEndsWith(how, code) ==
  /\ child' = how
  /\ exit' = code
  /\ IF parent \in ParentEnds THEN UNCHANGED <<pending, interrupted, parent>> ELSE Raises("SIGCHLD")

\* When the parent ends the kernel tells a child that has asked for it.
ParentEndsAs(how) ==
  /\ parent' = how
  /\ IF child \notin ChildEnds /\ deathSignal
       THEN child' = "killed" /\ exit' = "failure"
       ELSE UNCHANGED <<child, exit>>

Killed ==
  /\ parent \notin ParentEnds
  /\ ParentEndsAs("killed")
  /\ UNCHANGED <<args, blocked, pending, interrupted, alarm, deathSignal, sender, service>>

AlarmRings ==
  /\ alarm /\ parent \notin ParentEnds
  /\ alarm' = FALSE
  /\ Raises("SIGALRM")
  /\ UNCHANGED <<args, blocked, child, deathSignal, exit, sender, service>>

--------------------------------------------------------------------------------
(* The parent. *)

ParentOnly == UNCHANGED <<args, deathSignal, sender, service>>

\* Both signals are blocked before the child is made.
main ==
  /\ parent = "main"
  /\ \/ parent' = "watchdog" /\ child' = "forked" /\ blocked' = TRUE
     \/ parent' = "failure" /\ blocked' = TRUE /\ UNCHANGED child
  /\ UNCHANGED <<pending, interrupted, alarm, exit>> /\ ParentOnly

\* The handlers are there before the signals are let through.
watchdog ==
  /\ parent = "watchdog"
  /\ parent' = "alarm"
  /\ blocked' = FALSE /\ pending' = {}
  /\ interrupted' = interrupted \cup pending
  /\ UNCHANGED <<alarm, child, exit>> /\ ParentOnly

SetAlarm ==
  /\ parent = "alarm"
  /\ parent' = "pause" /\ alarm' = TRUE
  /\ UNCHANGED <<blocked, pending, interrupted, child, exit>> /\ ParentOnly

\* pause does not look at the flags: a signal that came before it is not seen.
Pause ==
  /\ parent = "pause"
  /\ parent' = "paused"
  /\ UNCHANGED <<blocked, pending, interrupted, alarm, child, exit>> /\ ParentOnly

\* waitpid gives the exit code of a child that has ended.
TestChild ==
  /\ parent = "testChild"
  /\ IF "SIGCHLD" \in interrupted THEN ParentEndsAs(exit)
     ELSE parent' = "testAlarm" /\ UNCHANGED <<child, exit>>
  /\ UNCHANGED <<blocked, pending, interrupted, alarm>> /\ ParentOnly

\* The time is over: a child that still runs is killed.
TestAlarm ==
  /\ parent = "testAlarm" /\ "SIGALRM" \in interrupted
  /\ parent' = "failure"
  /\ IF child \in ChildEnds THEN UNCHANGED <<child, exit>>
     ELSE child' = "killed" /\ exit' = "failure"
  /\ UNCHANGED <<blocked, pending, interrupted, alarm>> /\ ParentOnly

Watch == main \/ watchdog \/ SetAlarm \/ Pause \/ TestChild \/ TestAlarm

--------------------------------------------------------------------------------
(* The child: run. *)

ChildGoes(here, next) ==
  /\ child = here /\ child' = next
  /\ UNCHANGED <<args, parent, blocked, pending, interrupted, alarm, exit>>

\* prctl, and then a look at the parent, which may have ended before.
AskForSignal ==
  /\ ChildGoes("forked", "asked")
  /\ deathSignal' = TRUE
  /\ UNCHANGED <<sender, service>>

Exits(here, code) ==
  /\ child = here
  /\ ChildEndsWith("exited", code)
  /\ UNCHANGED <<args, blocked, alarm, deathSignal, sender, service>>

MutFindParent == ChildGoes("asked", "run") /\ UNCHANGED <<deathSignal, sender, service>>   \* no look at the parent

FindParent ==
  IF parent \in ParentEnds THEN Exits("asked", "failure")
  ELSE ChildGoes("asked", "run") /\ UNCHANGED <<deathSignal, sender, service>>

\* loadSettings fails or throws, or doExecute begins: launchLifecycle starts the services,
\* unless they are not wanted, and is suspended.
run ==
  \/ Exits("run", "failure")
  \/ /\ ChildGoes("run", "launched")
     /\ service' \in {[h \in Helpers |-> "ready"], Rests}
     /\ UNCHANGED <<deathSignal, sender>>

Helped == service # Rests

\* enterNextPhase: publish makes one sender per helper and waits for them at the barrier.
Publish(here, next, event) ==
  /\ ChildGoes(here, next)
  /\ sender' = IF Helped THEN [h \in Helpers |-> event] ELSE sender
  /\ UNCHANGED <<deathSignal, service>>

Barrier(here, next) ==
  /\ Helped => \A h \in Helpers : sender[h] = "arrived"
  /\ ChildGoes(here, next)
  /\ sender' = Rests
  /\ UNCHANGED <<deathSignal, service>>

\* doExecute: the handlers or the console, which may fail, or never end.
doExecute ==
  \/ Publish("launched", "starting", "startup")
  \/ Barrier("starting", "working")
  \/ Publish("working", "stopping", "shutdown")
  \/ Publish("working", "stopping faulty", "shutdown")
  \/ Barrier("stopping", "waiting") \/ Barrier("stopping faulty", "waiting faulty")

Hangs == ChildGoes("working", "hanging") /\ UNCHANGED <<deathSignal, sender, service>>

\* A thread cannot be made: the coroutine is destroyed where it is suspended, and its
\* daemon is joined, which nobody has asked to stop.
WorkThrows == ChildGoes("working", "unwinding") /\ UNCHANGED <<deathSignal, sender, service>>

\* waitPoint: daemonService has returned, that is both services.
AllReturned == \A h \in Helpers : service[h] \in {"none", "returned"}

MutFinish ==   \* the daemon is not waited for
  \/ Exits("waiting", "success")
  \/ AllReturned /\ (Exits("waiting faulty", "failure") \/ Exits("unwinding", "failure"))

Finish ==
  \/ AllReturned /\ Exits("waiting", "success")
  \/ AllReturned /\ (Exits("waiting faulty", "failure") \/ Exits("unwinding", "failure"))

\* triggerEvent, in its sender: the helper serves or is idle; it stops, or has missed that.
triggerEvent(h) ==
  /\ child \notin ChildEnds
  /\ \/ sender[h] = "startup"
        /\ service' \in {[service EXCEPT ![h] = s] : s \in {"serving", "idle"}}
     \/ sender[h] = "shutdown" /\ service[h] = "serving"
        /\ service' = [service EXCEPT ![h] = "stopping"]
     \/ sender[h] = "shutdown" /\ service[h] = "idle"
        /\ service' \in {[service EXCEPT ![h] = s] : s \in {"stopping", "deaf"}}
  /\ sender' = [sender EXCEPT ![h] = "arrived"]
  /\ UNCHANGED <<args, parent, blocked, pending, interrupted, alarm, child, deathSignal, exit>>

ServiceReturns(h) ==
  /\ child \notin ChildEnds /\ service[h] = "stopping"
  /\ service' = [service EXCEPT ![h] = "returned"]
  /\ UNCHANGED <<args, parent, blocked, pending, interrupted, alarm, child, deathSignal,
                 exit, sender>>

Work == \/ AskForSignal \/ FindParent \/ run \/ doExecute \/ Finish
        \/ \E h \in Helpers : triggerEvent(h) \/ ServiceReturns(h)

Next == Killed \/ AlarmRings \/ Watch \/ Work \/ Hangs \/ WorkThrows

\* Processes and threads are scheduled, and time passes.
Fairness == WF_programVars(Watch) /\ WF_programVars(AlarmRings) /\ WF_programVars(Work)

\* A service that has missed its shutdown, or was never asked.
Stuck == ~AllReturned /\ child \in {"waiting", "waiting faulty", "unwinding"}

--------------------------------------------------------------------------------
\* Success is what the child has reported after both services have returned.  A child
\* that has reported it is believed, unless its parent was already busy with the alarm.
VerdictIsTheChilds ==
  /\ parent = "success" => child = "exited" /\ exit = "success" /\ AllReturned
  /\ exit = "success" /\ parent = "failure" => "SIGALRM" \in interrupted
  /\ child = "working" => \A h \in Helpers : service[h] \in {"none", "serving", "idle"}

\* The alarm has rung before pause, of a parent that was held up for its whole period:
\* only a child that is still to end wakes it.
Overslept == parent = "paused" /\ "SIGALRM" \in interrupted

AtRest ==
  /\ parent \in ParentEnds \/ Overslept
  /\ child \in ChildEnds \cup {"hanging"} \/ Stuck

\* A call with arguments ends whatever its child does, and no child outlives its parent.
\* A call without, which nobody watches, ends as long as its work does, unless a service
\* has missed its shutdown or the coroutine was destroyed on the way.
ProgramEnds ==
  /\ args ~> (parent \in ParentEnds \/ Overslept)
  /\ args /\ parent \in ParentEnds ~> child \in ChildEnds
  /\ ~args ~> (child \in ChildEnds \cup {"hanging", "unwinding"} \/ \E h \in Helpers : service[h] = "deaf")
================================================================================
