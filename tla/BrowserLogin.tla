---------------------------- MODULE BrowserLogin ----------------------------
(***************************************************************************)
(* Browser logins (lib/codex-native/oauth-auth-methods.ts) and the local   *)
(* callback server they share (lib/codex-native/oauth-server.ts): one      *)
(* pending authorization, one timer per authorization and one that closes  *)
(* the server some time after a login ended.                               *)
(***************************************************************************)
EXTENDS Naturals, FiniteSets

CONSTANTS Logins,            \* attempts to log in
          Hosts,             \* addresses the server tries to listen on
          NoLogin,           \* `undefined`
          Adverse            \* which of these schedules an instance has:
                             \*  "lateExchange": a callback so late that its timer fires
                             \*     while its code is exchanged (10 min against 15 s),
                             \*  "overlappingStarts": a login begins while another one binds
                             \*     the server (milliseconds),
                             \*  "noGrace": the server closes between start() and
                             \*     waitForCallback() (milliseconds against a grace of 2 s)

ASSUME LoginConstants ==
  /\ NoLogin \notin Logins
  /\ Adverse \subseteq {"lateExchange", "overlappingStarts", "noGrace"}
  /\ Hosts # {}

VARIABLES server,     \* oauthServer: "none", "binding" or "listening"
          active,     \* activeRedirectUri, as the host in it
          authorizing, \* pendingOAuth: the login it belongs to
          closing,    \* is oauthServerCloseTimer set?
          login       \* the logins: phase, redirect URI of the authorize URL and of the exchange

loginVars == <<server, active, authorizing, closing, login>>

Default == CHOOSE h \in Hosts : TRUE   \* input.callbackUri
Phases == {"idle", "binding", "preparing", "waiting", "exchanging", "resolved", "rejected", "ended"}

LoginTypeOK ==
  /\ server \in {"none", "binding", "listening"}
  /\ active \in Hosts
  /\ authorizing \in Logins \union {NoLogin}
  /\ closing \in BOOLEAN
  /\ login \in [Logins -> [phase : Phases, redirect : Hosts, exchanged : Hosts]]

LoginInit ==
  /\ server = "none"
  /\ active = Default
  /\ authorizing = NoLogin
  /\ closing = FALSE
  /\ login = [l \in Logins |-> [phase |-> "idle", redirect |-> Default, exchanged |-> Default]]

In(l, phase) == login[l].phase = phase
To(l, phase) == login' = [login EXCEPT ![l].phase = phase]
Preparing(l, host) == login' = [login EXCEPT ![l].phase = "preparing", ![l].redirect = host]

(* start(): the closing timer is cleared. A server that exists is reused as it
   is, even if it is still being bound; otherwise one is created and bound. *)
Start(l) ==
  /\ In(l, "idle")
  /\ server = "binding" => "overlappingStarts" \in Adverse
  /\ closing' = FALSE
  /\ IF server # "none"
     THEN Preparing(l, active) /\ UNCHANGED server
     ELSE To(l, "binding") /\ server' = "binding"
  /\ UNCHANGED <<active, authorizing>>

(* The first host that can be bound becomes part of the redirect URI. *)
Bound(l) ==
  /\ In(l, "binding")
  /\ server = "binding"
  /\ server' = "listening"
  /\ \E host \in Hosts : active' = host /\ Preparing(l, host)
  /\ UNCHANGED <<authorizing, closing>>

(* No host can be bound, or the server was stopped meanwhile: the login ends
   and schedules nothing. *)
BindFails(l) ==
  /\ In(l, "binding")
  /\ server' = "none"
  /\ To(l, "ended")
  /\ UNCHANGED <<active, authorizing, closing>>

(* waitForCallback(), once the PKCE codes are there: one authorization at a
   time. Its timer is set, and the browser sent to the authorize URL. *)
Wait(l) ==
  /\ In(l, "preparing")
  /\ IF authorizing # NoLogin
     THEN To(l, "rejected") /\ UNCHANGED authorizing
     ELSE To(l, "waiting") /\ authorizing' = l
  /\ UNCHANGED <<server, active, closing>>

(* The browser comes back with a code. Only the state of the pending
   authorization is accepted (any other gets an error page and changes nothing);
   the code is exchanged with the redirect URI that is active. *)
Callback(l) ==
  /\ In(l, "waiting") /\ authorizing = l
  /\ server = "listening"
  /\ authorizing' = NoLogin
  /\ login' = [login EXCEPT ![l].phase = "exchanging", ![l].exchanged = active]
  /\ UNCHANGED <<server, active, closing>>

(* It comes back with an error, without a code, or the user cancels. *)
CallbackFails(l) ==
  /\ In(l, "waiting")
  /\ server = "listening"
  /\ authorizing = l
  /\ authorizing' = NoLogin
  /\ To(l, "rejected")
  /\ UNCHANGED <<server, active, closing>>

Exchanged(l) ==
  /\ In(l, "exchanging")
  /\ \E phase \in {"resolved", "rejected"} : To(l, phase)
  /\ UNCHANGED <<server, active, authorizing, closing>>

(* The timer of an authorization that is not settled fires. It clears whatever
   authorization is pending. *)
Timeout(l) ==
  /\ \/ In(l, "waiting")
     \/ In(l, "exchanging") /\ "lateExchange" \in Adverse
  /\ authorizing' = NoLogin
  /\ To(l, "rejected")
  /\ UNCHANGED <<server, active, closing>>

\* Faulty: a failed login does not schedule the stop.
FinishQuietly(l) ==
  /\ login[l].phase \in {"resolved", "rejected"}
  /\ To(l, "ended")
  /\ closing' = (closing \/ (server # "none" /\ In(l, "resolved")))
  /\ UNCHANGED <<server, active, authorizing>>

(* The login persists its tokens, if it has any, and schedules the server's
   stop (scheduleStop, in `finally`). *)
Finish(l) ==
  /\ login[l].phase \in {"resolved", "rejected"}
  /\ To(l, "ended")
  /\ closing' = (closing \/ server # "none")
  /\ UNCHANGED <<server, active, authorizing>>

\* Faulty: the closing timer does not look for a pending authorization.
CloseAlways ==
  /\ closing
  /\ closing' = FALSE
  /\ server' = "none"
  /\ active' = Default
  /\ UNCHANGED <<authorizing, login>>

(* The closing timer fires: it gives up for good while an authorization is
   pending, otherwise it stops the server. *)
Close ==
  /\ closing
  /\ "noGrace" \in Adverse \/ \A l \in Logins : ~ In(l, "preparing") /\ ~ In(l, "binding")
  /\ closing' = FALSE
  /\ IF authorizing # NoLogin
     THEN UNCHANGED <<server, active>>
     ELSE server' = "none" /\ active' = Default
  /\ UNCHANGED <<authorizing, login>>

LoginStep(l) == Bound(l) \/ BindFails(l) \/ Wait(l) \/ Exchanged(l) \/ Timeout(l) \/ Finish(l)

LoginNext ==
  \/ \E l \in Logins : Start(l) \/ Callback(l) \/ CallbackFails(l) \/ LoginStep(l)
  \/ Close

(* Binding, hashing, the exchange (bounded by its HTTP timeout), the timers
   and the continuations go on by themselves; users and browsers need not. *)
LoginFairness == (\A l \in Logins : WF_loginVars(LoginStep(l))) /\ WF_loginVars(Close)

LoginSpec == LoginInit /\ [][LoginNext]_loginVars /\ LoginFairness

-----------------------------------------------------------------------------
(* A login that waits for its browser is the pending authorization: when the
   browser comes back, its code is exchanged and not turned away as foreign. *)
WaitingIsPending == \A l \in Logins : In(l, "waiting") => authorizing = l

(* While a login waits for its browser, the server listens, whatever other
   logins that ended meanwhile have scheduled. *)
ServerWhileWaiting == \A l \in Logins : In(l, "waiting") => server = "listening"

(* A code is exchanged with the redirect URI its authorize URL had; the
   authorization server rejects any other. *)
RedirectMatches ==
  \A l \in Logins : In(l, "exchanging") => login[l].exchanged = login[l].redirect

(* While the browser is away, nothing that other logins start, end or schedule
   takes from a login what its answer needs (createOAuthServerController). *)
LoginIsServed == WaitingIsPending /\ ServerWhileWaiting /\ RedirectMatches

(* Every login that was started ends, and the server is not left running. *)
LoginsEnd == \A l \in Logins : ~ In(l, "idle") ~> In(l, "ended")
ServerCloses == []<>(server = "none")
=============================================================================
