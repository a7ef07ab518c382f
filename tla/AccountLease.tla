---------------------------- MODULE AccountLease ----------------------------
(***************************************************************************)
(* One account record of codex-accounts.json, and what each refresh flow   *)
(* of the plugin writes into it under the file lock.  Every operator here  *)
(* is the body of one saveAuthStorage() callback: a function from the      *)
(* record found on disk to the record written back.                        *)
(*                                                                         *)
(* A time of 0 is an absent field.  The access and refresh tokens of an    *)
(* account are always written together, so one number, the order in which  *)
(* the OAuth server issued the pair, stands for both; 0 is "no tokens".    *)
(***************************************************************************)
EXTENDS Naturals

CONSTANTS
    LeaseLength,      \* [Kinds -> Nat]: how long a claim of each flow lives
    FailureCooldown,  \* cooldown after a refresh that failed
    TokenLife,        \* lifetime of an access token (expires_in)
    DueBuffer         \* proactive refresh: how early a token counts as due

\* The flows that refresh an account: acquireOpenAIAuth, the proactive tick,
\* recoverExpiredOpenAIAuth, the menu's "refresh account" and the menu's quota check.
Kinds == {"acquire", "proactive", "reactive", "menu", "quota"}

ASSUME LeaseConstants ==
    /\ LeaseLength \in [Kinds -> Nat]
    /\ FailureCooldown \in Nat
    /\ TokenLife \in Nat
    /\ DueBuffer \in Nat

Record == [present : BOOLEAN, enabled : BOOLEAN,
           token : Nat, expires : Nat, cooldown : Nat, lease : Nat]

\* What find() on a removed identity key amounts to: nothing to read or write.
Absent == [present |-> FALSE, enabled |-> FALSE,
           token |-> 0, expires |-> 0, cooldown |-> 0, lease |-> 0]

\* A claim as its owner remembers it while it talks to the OAuth server.
Claim == [seen : Nat, lease : Nat]

Leased(r, now) == r.lease > now

\* rotation.ts isEligible: what selectAccount may pick.
Eligible(r, now) ==
    /\ r.present
    /\ r.enabled
    /\ r.cooldown <= now
    /\ ~Leased(r, now)

-----------------------------------------------------------------------------
(* Claiming: may the flow take the lease of record r?                      *)

\* Faulty: the snapshot's verdict on the lease is trusted.
AcquireMayClaimBlind(r, seen, stamp) ==
    /\ r.present
    /\ r.enabled
    /\ r.token # 0
    /\ r.token = seen

\* The claim of acquireOpenAIAuth, re-checked under the lock against the
\* token `seen' and the time `stamp' of an earlier unlocked snapshot.
AcquireMayClaim(r, seen, stamp) ==
    /\ r.present
    /\ r.enabled
    /\ r.token # 0
    /\ r.token = seen
    /\ ~Leased(r, stamp)

\* The candidate test of the proactive tick.
ProactiveMayClaim(r, now) ==
    /\ r.present
    /\ r.enabled
    /\ r.token # 0
    /\ r.expires <= now + DueBuffer
    /\ r.cooldown <= now
    /\ ~Leased(r, now)

\* The claims of the reactive recovery (whose failed access token must still
\* be the stored one), of the menu's refresh and of the menu's quota check.
MayClaim(r, now) ==
    /\ r.present
    /\ r.enabled
    /\ r.token # 0
    /\ ~Leased(r, now)

WithLease(r, until) == [r EXCEPT !.lease = until]

-----------------------------------------------------------------------------
(* Writing the outcome back.                                               *)

\* The claim still owns the record: same lease, same refresh token.
Mine(r, c) == r.lease = c.lease /\ r.token = c.seen

\* `if (account.refreshLeaseUntil === claim.leaseUntil) delete ...'
DropLease(r, c) == IF r.lease = c.lease THEN [r EXCEPT !.lease = 0] ELSE r

\* The new pair is stored, the lease is given up, the cooldown becomes cd.
Stored(r, new, now, cd) ==
    [r EXCEPT !.token = new, !.expires = now + TokenLife, !.lease = 0, !.cooldown = cd]

\* Faulty: a record that may not be written keeps the lease.
PersistOrLeave(r, c, new, now) ==
    IF r.present /\ r.enabled /\ Mine(r, c) /\ Leased(r, now)
    THEN Stored(r, new, now, 0)
    ELSE r

\* Faulty: the lease must have run out, not be live.
PersistAfterLease(r, c, new, now) ==
    IF r.present /\ r.enabled /\ Mine(r, c) /\ ~Leased(r, now)
    THEN Stored(r, new, now, 0)
    ELSE DropLease(r, c)

\* acquireOpenAIAuth and the menu's refresh: only under a live lease.
PersistUnderLease(r, c, new, now) ==
    IF r.present /\ r.enabled /\ Mine(r, c) /\ Leased(r, now)
    THEN Stored(r, new, now, 0)
    ELSE DropLease(r, c)

\* The quota check leaves a record disabled meanwhile as it is, lease included.
PersistQuota(r, c, new, now) ==
    IF r.enabled THEN PersistUnderLease(r, c, new, now) ELSE r

\* Faulty: whoever disabled the account meanwhile is ignored.
PersistProactiveWhenDisabled(r, c, new, now) ==
    IF r.present /\ Mine(r, c)
    THEN Stored(r, new, now, IF TokenLife <= DueBuffer THEN now + FailureCooldown ELSE 0)
    ELSE DropLease(r, c)

\* The proactive tick does not look at the clock again, and parks an account
\* whose new token is already due.
PersistProactive(r, c, new, now) ==
    IF r.present /\ r.enabled /\ Mine(r, c)
    THEN Stored(r, new, now, IF TokenLife <= DueBuffer THEN now + FailureCooldown ELSE 0)
    ELSE DropLease(r, c)

\* Faulty: the record may have been claimed or logged in again meanwhile.
PersistReactiveUnowned(r, c, new, now) ==
    IF ~r.present \/ ~r.enabled THEN r ELSE Stored(r, new, now, 0)

\* The reactive recovery leaves a record disabled meanwhile alone.
PersistReactive(r, c, new, now) ==
    IF ~r.present \/ ~r.enabled THEN r
    ELSE IF Mine(r, c) THEN Stored(r, new, now, 0)
    ELSE DropLease(r, c)

\* The lease is given up and the account cools down; one rejected for good is disabled.
CooledDown(r, now) ==
    [r EXCEPT !.lease = 0, !.cooldown = IF r.enabled THEN now + FailureCooldown ELSE @]
Disabled(r) == [r EXCEPT !.lease = 0, !.enabled = FALSE, !.cooldown = 0]

\* Faulty: an invalid_grant disables whatever record is there now.
ReleaseAcquireUnowned(r, c, terminal, now) ==
    IF ~r.present THEN r
    ELSE IF terminal THEN Disabled(r)
    ELSE CooledDown(r, now)

\* acquireOpenAIAuth: a claim that lost the record leaves it alone.
ReleaseAcquire(r, c, terminal, now) ==
    IF ~r.present \/ ~Mine(r, c) THEN r
    ELSE IF terminal THEN Disabled(r)
    ELSE CooledDown(r, now)

\* The proactive tick takes its lease away from a record it lost.
ReleaseProactive(r, c, terminal, now) ==
    IF ~r.present \/ ~Mine(r, c) THEN DropLease(r, c)
    ELSE IF terminal THEN Disabled(r)
    ELSE CooledDown(r, now)

\* The two menu flows never disable.
ReleaseMenu(r, c, now) ==
    IF r.present /\ Mine(r, c) THEN CooledDown(r, now) ELSE DropLease(r, c)

\* The recovery of an expired access token only gives its lease back.
ReleaseReactive(r, c) ==
    IF r.present /\ Mine(r, c) THEN [r EXCEPT !.lease = 0] ELSE r
=============================================================================
