----------------------------- MODULE DeviceLogin -----------------------------
(***************************************************************************)
(* The headless login (createHeadlessOAuthAuthorize in                     *)
(* lib/codex-native/oauth-auth-methods.ts): it polls the device endpoint   *)
(* until the user has entered the code, with a gap that slow_down answers  *)
(* lengthen, up to 30 s. Time is in units of 5 s. A body is taken to come  *)
(* with its headers, which is all that fetchWithTimeout waits for.         *)
(***************************************************************************)
EXTENDS Naturals

CONSTANTS Intervals,  \* the polling intervals a server may ask for, of any length
          LongestGap, \* 30 s: the longest gap that a slow_down asks for
          Margin,     \* OAUTH_POLLING_SAFETY_MARGIN_MS, rounded up
          Patience,   \* OAUTH_DEVICE_AUTH_TIMEOUT_MS
          HttpTimeout \* OAUTH_HTTP_TIMEOUT_MS

ASSUME DeviceConstants ==
  /\ Intervals \subseteq Nat \ {0} /\ LongestGap \in Nat \ {0}
  /\ {Margin, Patience, HttpTimeout} \subseteq Nat

VARIABLES elapsed, \* time since the callback began
          device   \* phase, interval, gap to the next poll, time left to sleep or of the request

deviceVars == <<elapsed, device>>

Shorter(m, n) == IF m < n THEN m ELSE n
Longer(m, n) == IF m < n THEN n ELSE m

DeviceTypeOK ==
  /\ elapsed \in Nat
  /\ device \in [phase : {"sleeping", "polling", "granted", "done", "failed", "error"},
                 interval : Intervals, gap : Nat \ {0}, left : Nat]

DeviceInit ==
  /\ elapsed = 0
  /\ \E interval \in Intervals :
       device = [phase |-> "sleeping", interval |-> interval, gap |-> interval, left |-> 0]

(* Time passes for a sleep or a request under way. *)
DeviceTick ==
  /\ device.left > 0
  /\ elapsed' = elapsed + 1
  /\ device' = [device EXCEPT !.left = @ - 1]

(* The top of the loop: give up after the device timeout, or poll. *)
Poll ==
  /\ device.phase = "sleeping" /\ device.left = 0
  /\ device' = IF elapsed > Patience
               THEN [device EXCEPT !.phase = "failed"]
               ELSE [device EXCEPT !.phase = "polling", !.left = HttpTimeout]
  /\ UNCHANGED elapsed

SleepOn(gap) == [device EXCEPT !.phase = "sleeping", !.gap = gap, !.left = gap + Margin]

\* Faulty: the gap is set back to the server's interval.
NotYetBack ==
  /\ device.phase = "polling"
  /\ device' = SleepOn(device.interval)
  /\ UNCHANGED elapsed

(* The poll is answered: not yet (authorization_pending, 403, 404, 429 or a
   server error), too fast, granted, or refused; or it fails as a request. *)
NotYet ==
  /\ device.phase = "polling"
  /\ device' = SleepOn(device.gap)
  /\ UNCHANGED elapsed

SlowDown ==
  /\ device.phase = "polling"
  /\ device' = SleepOn(Shorter(device.gap + device.interval, LongestGap))
  /\ UNCHANGED elapsed

Granted ==
  /\ device.phase = "polling"
  /\ device' = [device EXCEPT !.phase = "granted", !.left = HttpTimeout]
  /\ UNCHANGED elapsed

Refused ==
  /\ device.phase = "polling"
  /\ \E phase \in {"failed", "error"} : device' = [device EXCEPT !.phase = phase, !.left = 0]
  /\ UNCHANGED elapsed

(* The code of the grant is exchanged and the tokens persisted, or an error is thrown. *)
ExchangeGrant ==
  /\ device.phase = "granted"
  /\ \E phase \in {"done", "error"} : device' = [device EXCEPT !.phase = phase, !.left = 0]
  /\ UNCHANGED elapsed

(* A request that takes too long is aborted: the callback throws. *)
RequestTimesOut ==
  /\ device.phase \in {"polling", "granted"} /\ device.left = 0
  /\ device' = [device EXCEPT !.phase = "error"]
  /\ UNCHANGED elapsed

DeviceNext ==
  DeviceTick \/ Poll \/ NotYet \/ SlowDown \/ Granted \/ Refused \/ ExchangeGrant \/ RequestTimesOut

DeviceSpec == DeviceInit /\ [][DeviceNext]_deviceVars

-----------------------------------------------------------------------------
(* The callback ends: its last poll begins before the timeout is over, and at
   most a gap, two requests and the margin come after that. *)
DeviceEndsInTime ==
  device.phase \in {"sleeping", "polling", "granted"} =>
    elapsed <= Patience + Longer(device.interval, LongestGap) + Margin + 2 * HttpTimeout

(* It comes to poll faster only where the server asked for more than the
   longest gap: a slow_down then brings the gap down to that. Whatever other
   answers come in between, a slow_down is not forgotten. *)
NeverHastier ==
  [][device'.gap < device.gap => device.gap > LongestGap /\ device'.gap = LongestGap]_deviceVars

(* A device login ends in time, and is hastier than it was told to be only
   down from an interval above the longest gap (createHeadlessOAuthAuthorize). *)
DeviceKeepsTime == []DeviceEndsInTime /\ NeverHastier
=============================================================================
