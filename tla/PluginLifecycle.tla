--------------------------- MODULE PluginLifecycle ---------------------------
(***************************************************************************)
(* The invocations of the plugin in one OpenCode process (src/index.ts),   *)
(* the background refresh scheduler each of them starts                    *)
(* (lib/refresh-queue.ts) and their disposal (lib/plugin-lifecycle.ts).    *)
(* All invocations share one module-level variable, `scheduler`.           *)
(***************************************************************************)
EXTENDS Integers, FiniteSets

CONSTANTS Invocations,     \* calls of OpenAIMultiAuthPlugin
          Enabled,         \* those whose configuration enables the proactive refresh
          Interval,        \* 60 s: the timer's period and the task's delay
          LongestRefresh,  \* bound: how long a refresh tick may last
          Horizon,         \* bound: the last instant of the clock
          NoOne            \* `undefined`

ASSUME LifecycleConstants ==
  /\ Enabled \subseteq Invocations
  /\ Interval \in Nat \ {0}
  /\ LongestRefresh \in Nat
  /\ Horizon \in Nat \ {0}
  /\ NoOne \notin Invocations

VARIABLES time,     \* Date.now()
          owner,    \* the module-level `scheduler`: the invocation that set it
          life,     \* how far each invocation is
          held,     \* `instanceScheduler`: the scheduler an invocation will dispose of
          timer,    \* when the interval timer of an invocation fires next, 0 without a timer
          running,  \* since when a tick of the invocation is refreshing, 0 if none is
          queued,   \* `expiresAt` of the queue's only task, 0 while it is taken
          rested    \* history: when the last refresh ended, or the scheduler was started

lifeVars == <<time, owner, life, held, timer, running, queued, rested>>

LifeTypeOK ==
  /\ time \in 1 .. Horizon
  /\ owner \in Invocations \union {NoOne}
  /\ life \in [Invocations -> {"new", "booting", "initialising", "ready", "failed", "disposed"}]
  /\ held \in [Invocations -> Invocations \union {NoOne}]
  /\ timer \in [Invocations -> 0 .. Horizon + Interval]
  /\ running \in [Invocations -> 0 .. Horizon]
  /\ queued \in [Invocations -> 0 .. Horizon + Interval]
  /\ rested \in [Invocations -> 0 .. Horizon]

LifeInit ==
  /\ time = 1
  /\ owner = NoOne
  /\ life = [i \in Invocations |-> "new"]
  /\ held = [i \in Invocations |-> NoOne]
  /\ timer = [i \in Invocations |-> 0]
  /\ running = [i \in Invocations |-> 0]
  /\ queued = [i \in Invocations |-> 0]
  /\ rested = [i \in Invocations |-> 0]

(* stop() of a scheduler clears its timer; a tick under way goes on. *)
Stopped(i) == IF i = NoOne THEN timer ELSE [timer EXCEPT ![i] = 0]

(* The call begins: the scheduler of an earlier call is stopped, then the
   bootstrap files are awaited. *)
Boot(i) ==
  /\ life[i] = "new"
  /\ life' = [life EXCEPT ![i] = "booting"]
  /\ timer' = Stopped(owner)
  /\ owner' = NoOne
  /\ UNCHANGED <<time, held, running, queued, rested>>

(* The configuration is read; if it enables the refresh, its task is queued,
   the scheduler started and published. Ownership is captured in the same
   turn, before the hooks are awaited. *)
StartScheduler(i) ==
  /\ life[i] = "booting"
  /\ life' = [life EXCEPT ![i] = "initialising"]
  /\ IF i \in Enabled
     THEN /\ queued' = [queued EXCEPT ![i] = time + Interval]
          /\ timer' = [timer EXCEPT ![i] = time + Interval]
          /\ rested' = [rested EXCEPT ![i] = time]
          /\ owner' = i
     ELSE UNCHANGED <<queued, timer, rested, owner>>
  /\ held' = [held EXCEPT ![i] = owner']
  /\ UNCHANGED <<time, running>>

Initialised(i) ==
  /\ life[i] = "initialising"
  /\ life' = [life EXCEPT ![i] = "ready"]
  /\ UNCHANGED <<time, owner, held, timer, running, queued, rested>>

(* What a failed initialisation and a disposal have in common: the captured
   scheduler is stopped, and the shared variable cleared if it still holds it. *)
Release(i) ==
  /\ timer' = Stopped(held[i])
  /\ owner' = IF owner = held[i] THEN NoOne ELSE owner
  /\ UNCHANGED <<time, held, running, queued, rested>>

InitFails(i) ==
  /\ life[i] = "initialising"
  /\ life' = [life EXCEPT ![i] = "failed"]
  /\ Release(i)

Dispose(i) ==
  /\ life[i] = "ready"
  /\ life' = [life EXCEPT ![i] = "disposed"]
  /\ Release(i)

\* Faulty.
IsDueLate(i) == queued[i] > 0 /\ queued[i] + Interval < time

(* The interval timer fires: nothing happens while a tick is running or the
   task is not due; otherwise the task leaves the queue and is refreshed. *)
IsDue(i) == queued[i] > 0 /\ queued[i] <= time

Fire(i) ==
  /\ timer[i] = time
  /\ timer' = [timer EXCEPT ![i] = time + Interval]
  /\ IF running[i] = 0 /\ IsDue(i)
     THEN /\ running' = [running EXCEPT ![i] = time]
          /\ queued' = [queued EXCEPT ![i] = 0]
     ELSE UNCHANGED <<running, queued>>
  /\ UNCHANGED <<time, owner, life, held, rested>>

(* The refresh of a tick ends, well or not, and queues the task anew. *)
EndRefresh(i) ==
  /\ running[i] > 0
  /\ running' = [running EXCEPT ![i] = 0]
  /\ queued' = [queued EXCEPT ![i] = time + Interval]
  /\ rested' = [rested EXCEPT ![i] = time]
  /\ UNCHANGED <<time, owner, life, held, timer>>

(* The clock does not pass a timer that is set, nor a refresh's longest end. *)
Advance ==
  /\ time < Horizon
  /\ \A i \in Invocations : /\ timer[i] # time
                            /\ running[i] > 0 => time < running[i] + LongestRefresh
  /\ time' = time + 1
  /\ UNCHANGED <<owner, life, held, timer, running, queued, rested>>

LifeNext ==
  \/ Advance
  \/ \E i \in Invocations :
       \/ Boot(i) \/ StartScheduler(i) \/ Initialised(i) \/ InitFails(i)
       \/ Dispose(i) \/ Fire(i) \/ EndRefresh(i)

LifeSpec == LifeInit /\ [][LifeNext]_lifeVars

-----------------------------------------------------------------------------
(* An invocation that failed or was disposed of leaves no timer behind,
   whatever others did to the shared variable while it was awaiting. *)
EndedIsSilent ==
  \A i \in Invocations : timer[i] > 0 => life[i] \in {"initialising", "ready"}

(* A scheduler is stopped by the end of its own invocation or by the start of
   another one, never by the end of another one. *)
StoppedByOwnEnd ==
  [][\A i \in Invocations :
       timer[i] > 0 /\ timer'[i] = 0 =>
         \/ life'[i] \in {"failed", "disposed"}
         \/ \E j \in Invocations : life[j] = "new" /\ life'[j] = "booting"]_lifeVars

(* While its timer runs, a scheduler rests no longer than two periods between
   the end of a refresh and the start of the next one: the task is always
   queued again, and never stays behind in the queue. *)
RefreshedInTime ==
  \A i \in Invocations :
    timer[i] > 0 /\ running[i] = 0 => time <= rested[i] + 2 * Interval

(* Whatever order invocations start, fail and are disposed of in, a scheduler
   refreshes in time, is stopped by no other's end, and outlives no owner
   (src/index.ts, createRefreshScheduler). *)
SchedulersServe == [](EndedIsSilent /\ RefreshedInTime) /\ StoppedByOwnEnd
=============================================================================
