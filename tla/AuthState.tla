------------------------------ MODULE AuthState ------------------------------
(***************************************************************************)
(* What the auth store holds and what its writers make of it: normalising, *)
(* merging the two modes into the list the tools show, logging in,         *)
(* importing an older installation, the account tools and the auth menu.   *)
(*                                                                         *)
(* Every write runs under the store's lock and ends in a normalisation, so *)
(* each is one step.  An account's identity (account, e-mail and plan) is  *)
(* one value, known whole or not at all; what is known of an incomplete    *)
(* one is its `part'.  The identity is also its canonical key.             *)
(***************************************************************************)
EXTENDS Integers, FiniteSets, SequencesExt

CONSTANTS Ids,        \* complete identities
          Partials,   \* incomplete ones
          OddKeys,    \* keys the normalisation leaves alone
          Refreshes,  \* refresh tokens
          Owner,      \* whose each refresh token is
          Expiries,   \* expiry times
          FirstAuths, \* what the file of the store may hold at first
          LegacyAuths,\* what an older installation may hold
          NoId, NoKey, NoDomain,
          MaxEdits    \* bound: writes to the store

VARIABLES stored,     \* the domain of each mode
          legacy,     \* the older installation's domains
          shown,      \* the rows the auth menu was drawn with
          edits,
          last        \* the last write, for the properties
authVars == <<stored, legacy, shown, edits, last>>

Modes == <<"native", "codex">>
AuthModes == Range(Modes)
Account(key, id, part, claim, refresh, expires, enabled) ==
  [key |-> key, id |-> id, part |-> part, claim |-> claim, refresh |-> refresh,
   expires |-> expires, enabled |-> enabled]
\* The key given to the n-th account of which only `part' is known.
Fallback(part, n) == <<"legacy", part, n>>
Keys == Ids \cup OddKeys \cup ({"legacy"} \X Partials \X Nat)

-----------------------------------------------------------------------------
(* Normalising.                                                            *)

\* The claims of the access token complete the identity, and the identity
\* becomes the key unless an unknown scheme gave the key.
Normal(a) ==
  LET id == IF a.id = NoId THEN a.claim ELSE a.id
  IN [a EXCEPT !.id = id,
               !.key = IF id = NoId \/ a.key \in OddKeys THEN a.key ELSE id]

Usable(accounts, key) ==
  key # NoKey /\ \E i \in DOMAIN accounts : accounts[i].key = key /\ accounts[i].enabled
FirstUsable(accounts) ==
  LET i == SelectInSeq(accounts, LAMBDA a : a.enabled /\ a.key # NoKey)
  IN IF i = 0 THEN NoKey ELSE accounts[i].key
Reconcile(d) ==
  [d EXCEPT !.active = IF Usable(d.accounts, @) THEN @ ELSE FirstUsable(d.accounts)]
\* Faulty: the active account is settled before the keys are.
HealActiveFirst(d) ==
  LET r == Reconcile(d) IN [r EXCEPT !.accounts = [i \in DOMAIN @ |-> Normal(@[i])]]
Heal(d) ==
  Reconcile([d EXCEPT !.accounts = [i \in DOMAIN @ |-> Normal(@[i])]])

Domains(auth) == {m \in AuthModes : auth[m] # NoDomain}
Normalise(auth) ==
  [m \in AuthModes |-> IF auth[m] = NoDomain THEN NoDomain ELSE Heal(auth[m])]

\* The flat form of earlier versions: every account in the domain of each of
\* its modes, and no codex domain when nothing goes there.
FromFlat(rows, modesOf, active) ==
  LET Of(m) == [accounts |-> SelectSeq(rows, LAMBDA a : m \in modesOf[a]), active |-> active]
  IN Normalise([m \in AuthModes |->
       IF m = "codex" /\ Of(m).accounts = <<>> THEN NoDomain ELSE Of(m)])

\* The single account of the first version.
FromSingle(a) ==
  LET keyed == [a EXCEPT !.key = IF a.id = NoId THEN @ ELSE a.id]
  IN Normalise([native |-> [accounts |-> <<keyed>>, active |-> keyed.key], codex |-> NoDomain])

AccountsOf(auth, m) == IF auth[m] = NoDomain THEN <<>> ELSE auth[m].accounts
Ensured(auth, m) ==
  IF auth[m] = NoDomain THEN [auth EXCEPT ![m] = [accounts |-> <<>>, active |-> NoKey]] ELSE auth

-----------------------------------------------------------------------------
(* The list of all accounts, one row for each key, in the order the tools  *)
(* number them: the accounts with a key, then those without.               *)

RowKey(a) == IF a.key # NoKey THEN a.key ELSE Fallback(a.part, 0)
\* Two records of one account: the one that expires last, enabled if either is.
Fresher(a, b) ==
  [(IF b.expires > a.expires THEN b ELSE a) EXCEPT !.enabled = a.enabled \/ b.enabled]
AddRow(rows, a) ==
  LET i == SelectInSeq(rows, LAMBDA r : RowKey(r) = RowKey(a))
  IN IF i = 0 THEN Append(rows, a) ELSE [rows EXCEPT ![i] = Fresher(@, a)]
\* The rows of the accounts that have a key, or of those that have none.
Group(accounts, keyed) ==
  LET upTo[n \in 0..Len(accounts)] ==
        IF n = 0 THEN <<>>
        ELSE IF (accounts[n].key # NoKey) = keyed THEN AddRow(upTo[n - 1], accounts[n])
        ELSE upTo[n - 1]
  IN upTo[Len(accounts)]
Merged(auth) ==
  LET accounts == AccountsOf(auth, "native") \o AccountsOf(auth, "codex")
      Keyed(rows) == [i \in DOMAIN rows |-> [Normal(rows[i]) EXCEPT !.key = RowKey(Normal(rows[i]))]]
  IN Keyed(Group(accounts, TRUE) \o Group(accounts, FALSE))

-----------------------------------------------------------------------------
(* Writing.  Save is what every change of the store ends in.               *)

Save(auth, write) == /\ edits' = edits + 1
                     /\ stored' = Normalise(auth)
                     /\ last' = write
                     /\ UNCHANGED legacy
Write(by, what) == [by |-> by, what |-> what]

\* The account a login belongs to: the one of the same identity, else the only
\* one with the same refresh token unless both identities are known (0: none).
LoginMatch(accounts, in) ==
  LET strict == SelectInSeq(accounts, LAMBDA a : in.id # NoId /\ a.id = in.id)
      same == {i \in DOMAIN accounts : accounts[i].refresh = in.refresh}
      only == CHOOSE i \in same : TRUE
  IN IF strict # 0 THEN strict
     ELSE IF Cardinality(same) = 1 /\ (in.id = NoId \/ accounts[only].id = NoId)
     THEN only ELSE 0

\* The tokens replace those of the account; the identity too, unless the login
\* was matched by its refresh token and completes nothing.
Upsert(accounts, in) ==
  LET i == LoginMatch(accounts, in)
      byRefresh == i # 0 /\ ~(in.id # NoId /\ accounts[i].id = in.id)
      upgrades == ~byRefresh \/ (accounts[i].id = NoId /\ in.id # NoId)
      target == IF i = 0 THEN [in EXCEPT !.key = NoKey] ELSE accounts[i]
      named == IF upgrades THEN [target EXCEPT !.id = in.id, !.part = in.part] ELSE target
      next == [in EXCEPT !.id = named.id, !.part = named.part,
                         !.key = IF named.id = NoId \/ target.key \in OddKeys
                                 THEN target.key ELSE named.id]
  IN IF i = 0 THEN <<Append(accounts, next), next>>
     ELSE <<[accounts EXCEPT ![i] = next], next>>

\* persistOAuthTokensForMode: the account that logged in becomes the active one.
Login(m, in) ==
  LET auth == Ensured(stored, m)
      result == Upsert(auth[m].accounts, in)
  IN /\ Save([auth EXCEPT ![m].accounts = result[1],
                          ![m].active = IF result[2].key # NoKey THEN result[2].key ELSE @],
             Write("login", <<m, in>>))
     /\ UNCHANGED shown

\* A refresh writes the new tokens of its owner to the account, the refresh token
\* with them; their claims may be the first to tell its identity.  One for a
\* request or of the menu makes the account the active one.
Refreshed(m, i, tokens, activates) ==
  /\ i \in DOMAIN AccountsOf(stored, m)
  /\ LET old == stored[m].accounts[i]
         new == [old EXCEPT !.claim = tokens.claim, !.refresh = tokens.refresh,
                            !.expires = tokens.expires]
         key == Normal(new).key
     IN /\ old.enabled
        /\ Owner[tokens.refresh] = Owner[old.refresh]
        /\ tokens.claim \in {NoId, Owner[old.refresh]}
        /\ tokens.expires > old.expires
        /\ Save([stored EXCEPT ![m].accounts[i] = new,
                               ![m].active = IF activates /\ key # NoKey THEN key ELSE @],
                Write("refresh", <<m, i>>))
  /\ UNCHANGED shown

-----------------------------------------------------------------------------
(* Importing an older installation.                                        *)

ImportMatch(accounts, in) ==
  LET strict == SelectInSeq(accounts, LAMBDA a :
                  \/ in.key # NoKey /\ a.key = in.key
                  \/ in.id # NoId /\ a.id = in.id)
      same == {i \in DOMAIN accounts : /\ accounts[i].refresh = in.refresh
                                       /\ NoId \in {in.id, accounts[i].id}}
  IN IF strict # 0 THEN strict
     ELSE IF Cardinality(same) = 1 THEN CHOOSE i \in same : TRUE ELSE 0

\* Faulty: what is imported always replaces.
PreferIncoming(old, in) == [in EXCEPT !.key = IF @ = NoKey THEN old.key ELSE @]
\* Of two records the one that expires last is kept whole, what it leaves
\* unsaid of the identity included; only its key may come from the other.
Preferred(old, in) ==
  LET winner == IF in.expires >= old.expires THEN in ELSE old
      loser == IF in.expires >= old.expires THEN old ELSE in
  IN [winner EXCEPT !.key = IF @ = NoKey THEN loser.key ELSE @]
ImportAccount(accounts, account) ==
  LET in == Normal(account)
      i == ImportMatch(accounts, in)
  IN IF i = 0 THEN Append(accounts, in)
     ELSE [accounts EXCEPT ![i] = Normal(Preferred(@, in))]

ImportDomain(d, source) ==
  LET upTo[n \in 0..Len(source.accounts)] ==
        IF n = 0 THEN d.accounts ELSE ImportAccount(upTo[n - 1], source.accounts[n])
      accounts == upTo[Len(source.accounts)]
      found == \E i \in DOMAIN accounts : accounts[i].key = source.active
  IN [accounts |-> accounts,
      active |-> IF source.active # NoKey /\ found THEN source.active ELSE d.active]
\* An installation is used when some account of it has a refresh token.
Imported(auth) ==
  [m \in AuthModes |-> IF legacy[m] = NoDomain THEN auth[m]
                       ELSE ImportDomain(Ensured(auth, m)[m], legacy[m])]
Import == /\ \E m \in Domains(legacy) : legacy[m].accounts # <<>>
          /\ Save(Imported(stored), Write("import", legacy))
          /\ UNCHANGED shown

-----------------------------------------------------------------------------
(* The account tools take the number of a row of the merged list.          *)

\* Every account gets a key, those without one by what is known of them.
Hydrated(d) ==
  LET Before(i) == {j \in 1..(i - 1) : /\ d.accounts[j].key = NoKey
                                       /\ d.accounts[j].part = d.accounts[i].part}
      key(i) == IF d.accounts[i].key # NoKey THEN d.accounts[i].key
                ELSE Fallback(d.accounts[i].part, Cardinality(Before(i)))
  IN Reconcile([d EXCEPT !.accounts = [i \in DOMAIN @ |-> [d.accounts[i] EXCEPT !.key = key(i)]]])

\* Faulty: the refresh token of the row, which is that of its freshest record.
DomainMatchByRefresh(accounts, row) ==
  LET S == {i \in DOMAIN accounts : accounts[i].refresh = row.refresh}
  IN IF Cardinality(S) = 1 THEN CHOOSE i \in S : TRUE ELSE 0
\* The one account of a domain a row stands for (0: none, or not the only one).
DomainMatch(accounts, row) ==
  LET Only(S) == IF Cardinality(S) = 1 THEN CHOOSE i \in S : TRUE ELSE 0
      byKey == {i \in DOMAIN accounts : accounts[i].key = row.key}
      byId == {i \in DOMAIN accounts : accounts[i].id = row.id}
      byRefresh == {i \in DOMAIN accounts : accounts[i].refresh = row.refresh}
  IN IF byKey # {} THEN Only(byKey) ELSE IF row.id # NoId THEN Only(byId) ELSE Only(byRefresh)

\* The change of a domain, of which the tool knows the row.
ToolChange(tool, d, row) ==
  LET n == DomainMatch(d.accounts, row)
  IN CASE tool = "switch" -> IF Usable(d.accounts, row.key) THEN [d EXCEPT !.active = row.key] ELSE d
       [] tool = "toggle" -> IF n = 0 THEN d ELSE [d EXCEPT !.accounts[n].enabled = ~row.enabled]
       [] tool = "remove" -> IF n = 0 THEN d ELSE [d EXCEPT !.accounts = RemoveAt(@, n)]
WithTool(tool, i) ==
  /\ LET row == Merged(stored)[i]
     IN Save([m \in AuthModes |-> IF stored[m] = NoDomain THEN NoDomain
                                  ELSE ToolChange(tool, Hydrated(stored[m]), row)],
             Write(tool, i))
  /\ UNCHANGED shown

ToolSwitch(i) == Merged(stored)[i].enabled /\ WithTool("switch", i)
ToolToggle(i) == WithTool("toggle", i)
ToolRemove(i) == WithTool("remove", i)

-----------------------------------------------------------------------------
(* The auth menu acts on the rows it was drawn with, of which the store may *)
(* have changed since.                                                     *)

MenuRows(auth) ==
  LET Of(m) == [i \in DOMAIN AccountsOf(auth, m) |-> <<m, i>>]
      Add(rows, p) ==
        LET a == auth[p[1]].accounts[p[2]]
            r == IF a.key = NoKey THEN 0 ELSE SelectInSeq(rows, LAMBDA row : row.key = a.key)
            new == [key |-> a.key, id |-> a.id, part |-> a.part,
                    at |-> [m \in AuthModes |-> IF m = p[1] THEN p[2] ELSE 0]]
        IN IF r = 0 THEN Append(rows, new) ELSE [rows EXCEPT ![r].at[p[1]] = p[2]]
  IN FoldLeft(Add, <<>>, Of("native") \o Of("codex"))

Shows(row, a) ==
  IF row.key # NoKey /\ a.key # NoKey THEN a.key = row.key
  ELSE a.id = row.id /\ (a.id # NoId \/ a.part = row.part)
\* Where a domain has the account of a row: in its old place, by its key, or
\* by what the row shows of it (0: nowhere).
MenuIndex(accounts, row, m) ==
  LET other == CHOOSE o \in AuthModes : o # m
      places == <<row.at[m], row.at[other]>>
      place == SelectInSeq(places, LAMBDA n : n \in DOMAIN accounts /\ Shows(row, accounts[n]))
      keyed == SelectInSeq(accounts, LAMBDA a : row.key # NoKey /\ a.key = row.key)
  IN IF place # 0 THEN places[place]
     ELSE IF keyed # 0 THEN keyed ELSE SelectInSeq(accounts, LAMBDA a : Shows(row, a))

OpenMenu == /\ shown # MenuRows(stored)
            /\ shown' = MenuRows(stored)
            /\ UNCHANGED <<stored, legacy, edits, last>>

MenuChange(choice, d, n) ==
  IF choice = "toggle" THEN [d EXCEPT !.accounts[n].enabled = ~@]
                       ELSE [d EXCEPT !.accounts = RemoveAt(@, n)]
\* The change of the domains of some modes; the menu is then drawn again.
WithMenu(choice, row, modes) ==
  LET place(m) == IF stored[m] = NoDomain THEN 0 ELSE MenuIndex(stored[m].accounts, row, m)
  IN /\ Save([m \in AuthModes |-> IF m \in modes /\ place(m) # 0
                                   THEN Reconcile(MenuChange(choice, stored[m], place(m)))
                                   ELSE stored[m]],
             Write("menu", row))
     /\ shown' = MenuRows(stored')

MenuToggle(row) == WithMenu("toggle", row, {m \in AuthModes : row.at[m] # 0})
MenuDelete(row, modes) == WithMenu("delete", row, modes)
MenuDeleteAll(modes) ==
  /\ Save([m \in AuthModes |-> IF m \in modes THEN [accounts |-> <<>>, active |-> NoKey]
                               ELSE stored[m]], Write("deleteAll", modes))
  /\ shown' = MenuRows(stored')

-----------------------------------------------------------------------------
\* Every account there may be, and those whose identity, claims and key are those
\* of the owner of their tokens.
Accounts == [key : Keys \cup {NoKey}, id : Ids \cup {NoId}, part : Partials, claim : Ids \cup {NoId},
             refresh : Refreshes, expires : Expiries, enabled : BOOLEAN]
Honest == {a \in Accounts : /\ {a.id, a.claim} \subseteq {NoId, Owner[a.refresh]}
                            /\ a.key \in Ids => a.key = Owner[a.refresh]}
HonestDomain == [accounts : Seq(Honest), active : Keys \cup {NoKey}]
HonestAuths == [AuthModes -> HonestDomain \cup {NoDomain}]
\* The files there are at first are honest.
ASSUME AuthConstants ==
  /\ Owner \in [Refreshes -> Ids] /\ Expiries \subseteq Int /\ MaxEdits \in Nat
  /\ NoId \notin Ids /\ NoKey \notin Keys
  /\ Ids \cap (OddKeys \cup ({"legacy"} \X Partials \X Nat)) = {}
  /\ NoDomain \notin [accounts : Seq(Accounts), active : Keys \cup {NoKey}]
  /\ FirstAuths \cup LegacyAuths \subseteq HonestAuths

Fresh(id, part, refresh, expires) == Account(NoKey, id, part, id, refresh, expires, TRUE)
Logins == UNION {{Fresh(Owner[r], CHOOSE q \in Partials : TRUE, r, e), Fresh(NoId, part, r, e)} :
                  r \in Refreshes, part \in Partials, e \in Expiries}
Issued == [refresh : Refreshes, claim : Ids \cup {NoId}, expires : Expiries]
ModeSets == {{"native"}, {"codex"}, AuthModes}

\* The store is what its file gives every reader.
AuthInit == /\ stored \in {Normalise(auth) : auth \in FirstAuths}
            /\ legacy \in LegacyAuths
            /\ shown = <<>>
            /\ edits = 0
            /\ last = Write("none", 0)

AuthWrite ==
  \/ \E m \in AuthModes, in \in Logins : Login(m, in)
  \/ \E m \in AuthModes, i \in 1..3, tokens \in Issued, activates \in BOOLEAN :
       Refreshed(m, i, tokens, activates)
  \/ Import
  \/ \E i \in DOMAIN Merged(stored) : ToolSwitch(i) \/ ToolToggle(i) \/ ToolRemove(i)
  \/ \E r \in DOMAIN shown : \/ MenuToggle(shown[r])
                              \/ \E modes \in ModeSets : MenuDelete(shown[r], modes)
  \/ \E modes \in ModeSets : MenuDeleteAll(modes)
AuthNext == OpenMenu \/ (edits < MaxEdits /\ AuthWrite)
AuthSpec == AuthInit /\ [][AuthNext]_authVars

-----------------------------------------------------------------------------
Records(auth) == UNION {Range(AccountsOf(auth, m)) : m \in AuthModes}
\* Every part of the state has its type (AuthFile, types.ts).
AuthTypeOK ==
  /\ Records(stored) \subseteq Accounts
  /\ \A m \in Domains(stored) : stored[m].active \in Keys \cup {NoKey}
  /\ edits \in 0..MaxEdits

\* Tokens and identities are never mixed up: whatever was matched, merged and
\* completed, an account's identity and key are those of its tokens' owner
\* (upsertAccount, upsertDomainAccount, mergeDomainAccounts).
OwnersAreNamed ==
  \A a \in Records(stored) \cup Range(Merged(stored)) :
    a.id \in {NoId, Owner[a.refresh]} /\ (a.key \in Ids => a.key = Owner[a.refresh])

\* Reading changes nothing that was written: normalising what any writer left
\* gives it back (normalizeOpenAIOAuthState runs on every read and write).
StoredIsNormal == Normalise(stored) = stored

\* Two records of a domain share a refresh token.
Shared(d) == \E i, j \in DOMAIN d.accounts :
               i # j /\ d.accounts[i].refresh = d.accounts[j].refresh

\* The keys the tools give tell the records of each domain apart, and no identity
\* has two of them.
KeysTell == \A m \in Domains(stored) :
  LET accounts == stored[m].accounts
  IN \A i, j \in DOMAIN accounts : RowKey(accounts[i]) = RowKey(accounts[j]) => i = j
OneKeyEach == \A a, b \in Records(stored) : a.id # NoId /\ a.id = b.id => a.key = b.key

\* No key of a mode is two owners', in the store and in the installation to import.
KeysOwned(m) ==
  LET known == Range(AccountsOf(stored, m)) \cup Range(AccountsOf(legacy, m))
  IN \A a, b \in known : a.key # NoKey /\ a.key = b.key => Owner[a.refresh] = Owner[b.refresh]
\* The installation has no two accounts of one owner.
OwnersDiffer(m) ==
  LET accounts == AccountsOf(legacy, m)
  IN \A i, j \in DOMAIN accounts : Owner[accounts[i].refresh] = Owner[accounts[j].refresh] => i = j

\* The step is a write by `by'.
Wrote(by) == edits' # edits /\ last'.by = by

\* Importing an installation again changes nothing, unless two records of a
\* domain share a refresh token (importLegacyInstallData).
ImportAddsOnce ==
  [][Wrote("import") => \A m \in Domains(stored') : KeysOwned(m) /\ OwnersDiffer(m) =>
       Shared(stored'[m]) \/ Normalise(Imported(stored'))[m] = stored'[m]]_authVars

\* A login leaves its account enabled, with its tokens, and the active one of
\* its mode after the normalisation that follows (persistOAuthTokensForMode).
LoginWins ==
  [][Wrote("login") =>
       LET m == last'.what[1]
           in == last'.what[2]
       IN in.id # NoId => \E a \in Range(AccountsOf(stored', m)) :
            a.id = in.id /\ a.refresh = in.refresh /\ a.enabled /\ stored'[m].active = a.key]_authVars

\* An import never replaces tokens by older ones or by another owner's
\* (upsertDomainAccount).
ImportKeepsTokens ==
  [][Wrote("import") => \A m \in AuthModes : KeysOwned(m) =>
       \A a \in Range(AccountsOf(stored, m)) : \E b \in Range(AccountsOf(stored', m)) :
         b.expires >= a.expires /\ Owner[b.refresh] = Owner[a.refresh]]_authVars

\* A toggle by the number of a merged row reaches the record of every mode, and
\* is still there after the modes are merged again (toggleAccountEnabledByIndex).
ToggleSticks ==
  [][Wrote("toggle") /\ KeysTell =>
       LET row == Merged(stored)[last'.what]
       IN \A a \in Records(stored') : a.key = row.key => a.enabled = ~row.enabled]_authVars

\* A removed row does not come back from another mode (removeAccountByIndex).
RemoveRemoves ==
  [][Wrote("remove") /\ KeysTell /\ OneKeyEach =>
       LET row == Merged(stored)[last'.what]
       IN \A a \in Records(stored') : a.key # row.key /\ (row.id # NoId => a.id # row.id)]_authVars

\* A switch makes the row active wherever it is enabled, which is somewhere
\* (switchAccountByIndex).
SwitchSticks ==
  [][Wrote("switch") /\ KeysTell =>
       LET key == Merged(stored)[last'.what].key
           where == {m \in Domains(stored') : Usable(stored'[m].accounts, key)}
       IN where # {} /\ \A m \in where : stored'[m].active = key]_authVars

\* A tool gives keys to accounts without, and else changes none that has neither key
\* nor identity nor refresh token of its row (findUniqueDomainMatchIndex).
ToolsSpareOthers ==
  [][\A tool \in {"switch", "toggle", "remove"} : Wrote(tool) /\ KeysTell =>
       LET row == Merged(stored)[last'.what]
           Other(a) == RowKey(a) # row.key /\ a.refresh # row.refresh /\ (row.id # NoId => a.id # row.id)
       IN \A m \in AuthModes : \A a \in Range(AccountsOf(stored, m)) : Other(a) =>
            [a EXCEPT !.key = RowKey(a)] \in Range(AccountsOf(stored', m))]_authVars

\* A deletion from the menu removes only what its row showed, however the store
\* has changed since the menu was drawn (findDomainAccountIndex).
MenuHitsShown ==
  [][Wrote("menu") => \A m \in AuthModes :
       Len(AccountsOf(stored', m)) < Len(AccountsOf(stored, m)) =>
         \A a \in Range(AccountsOf(stored, m)) :
           a \notin Range(AccountsOf(stored', m)) => Shows(last'.what, a)]_authVars
=============================================================================
