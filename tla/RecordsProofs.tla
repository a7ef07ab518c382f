---------------------------- MODULE RecordsProofs ----------------------------
(***************************************************************************)
(* What is made of records, for any requests, accounts, catalogs, settings *)
(* and files, however large: a request gets what the host, the user or the *)
(* asked account wants, an account keeps the identity of the owner of its  *)
(* tokens, and the models offered are those of the last catalog.           *)
(***************************************************************************)
EXTENDS MCRecords, FiniteSetTheorems, SequenceTheorems, TLAPS

-----------------------------------------------------------------------------
(* Counting up                                                             *)

\* A set that has 0, and the next of every number below n it has, has n: without n
\* it would be mapped one to one into itself without 0.
LEMMA UpTo ==
    ASSUME NEW n \in Nat, NEW T, 0 \in T, \A m \in 0..n : m \in T /\ m < n => m + 1 \in T
    PROVE  n \in T
<1> SUFFICES ASSUME n \notin T PROVE FALSE
  OBVIOUS
<1> DEFINE V == {m \in 0..n : m \in T}
           W == V \ {0}
           next == [m \in V |-> m + 1]
<1>1. IsFiniteSet(V) /\ 0 \in V
  <2>1. IsFiniteSet(0..n) /\ V \in SUBSET (0..n)
    BY FS_Interval
  <2> HIDE DEF V
  <2>2. IsFiniteSet(V)
    BY <2>1, FS_Subset
  <2> QED
    BY <2>2 DEF V
<1>2. next \in Injection(V, W)
  <2>1. ASSUME NEW m \in V PROVE m \in Nat /\ m + 1 \in W
    <3>1. m \in 0..n /\ m \in T /\ m # n
      OBVIOUS
    <3>2. m < n /\ m + 1 \in 0..n /\ m + 1 # 0
      BY <3>1
    <3> QED
      BY <3>1, <3>2
  <2>2. next \in [V -> W]
    BY <2>1
  <2>3. \A a, b \in V : a # b => next[a] # next[b]
    BY <2>1
  <2> HIDE DEF V, W, next
  <2> QED
    BY <2>2, <2>3 DEF Injection, IsInjective
<1>3. IsFiniteSet(W) /\ Cardinality(W) = Cardinality(V) - 1 /\ Cardinality(V) \in Nat
  <2> HIDE DEF V
  <2> QED
    BY <1>1, FS_RemoveElement, FS_CardinalityType
<1>4. Cardinality(V) <= Cardinality(W)
  <2> HIDE DEF V, W, next
  <2> QED
    BY <1>2, <1>3, FS_Injection
<1> QED
  BY <1>3, <1>4

\* All the numbers up to N, in the same way.
LEMMA Upward ==
    ASSUME NEW N \in Nat, NEW T, 0 \in T, \A m \in 0..N : m \in T /\ m < N => m + 1 \in T
    PROVE  \A n \in 0..N : n \in T
<1> SUFFICES ASSUME NEW n \in 0..N PROVE n \in T
  OBVIOUS
<1>1. n \in Nat /\ \A m \in 0..n : m \in T /\ m < n => m + 1 \in T
  OBVIOUS
<1> QED
  BY <1>1, UpTo

-----------------------------------------------------------------------------
(* A request and the notes on it                                           *)

OptionFields == {"text", "effort", "summary", "verbosity", "parallel", "tier", "encrypted", "rendered"}
TextFields == {"base", "built", "delegates"}
States == [selected : BOOLEAN, eligible : BOOLEAN, role : Roles,
           policy : {"disabled", "proactive", "explicit_request_only"}]
Injectable == Fields \cup {"instructions"}
NoteSet == [of : Requests, scope : Scopes, injected : SUBSET Injectable, ultra : States \cup {Absent}]

\* What chat.params leaves in the options.
Prepared(q) ==
  /\ DOMAIN q.options = OptionFields /\ DOMAIN q.options.text = TextFields
  /\ q.scope \in Scopes
  /\ q.injected = Injected(q.given, q.options)
  /\ q.ultra \in States \cup {Absent}
  /\ q.ultra # Absent => q.options.effort = "ultra"
  /\ q.options.text.delegates => q.options.effort = "ultra"
  /\ q.options.summary # "none"
  /\ Reasons(q.options.effort) /\ q.options.summary # Absent => q.options.encrypted

\* A note a request has taken is its own, or another one's, or none.
Noticed(r, q) ==
  /\ q.meta.of = r => q.meta.injected = q.injected /\ q.meta.ultra = q.ultra
  /\ q.meta.of = Absent => q.meta.injected = {} /\ q.meta.ultra = Absent

\* What was sent is what the catalogs of that moment make of the options.
Moved(q) == \/ ScopeOf(q) # Absent /\ ScopeOf(q) # q.account
            \/ q.selected = Absent /\ q.previous # Absent
SentAs(q) == Transform(q.options, Config, settings, q.meta.injected, q.meta.ultra,
                       IF Moved(q) THEN q.previous ELSE Absent, q.selected)

Phases == {"idle", "agent", "params", "headers", "catalog", "selected", "sent", "fatal", "done"}
Taking == {"headers", "catalog", "selected", "sent", "fatal"}
RequestFits(r, q) ==
  /\ DOMAIN q = DOMAIN NewRequest
  /\ q.pc \in Phases
  /\ q.attempts \in 0..MaxAttempts
  /\ q.pc \in {"idle", "agent", "params", "headers"} => q.attempts < MaxAttempts
  /\ q.injected \subseteq Injectable
  /\ q.pc = "agent" => q.options.effort = "ultra"
  /\ q.pc \notin {"idle", "done"} => Prepared(q)
  /\ q.pc \in Taking => Noticed(r, q)
  /\ q.pc \in {"sent", "fatal"} => q.sent = SentAs(q)
  /\ q.pc = "sent" => ~q.sent.fatal

\* A note waits under the message of its request, and is true unless nobody needs it.
NoteOK(key, note) ==
  /\ note \in NoteSet
  /\ key = KeyOf[note.of]
  /\ request[note.of].pc \in {"params", "done"}
  /\ request[note.of].pc = "params" => /\ note.injected = request[note.of].injected
                                       /\ note.ultra = request[note.of].ultra

ScopeInv ==
  /\ active \in Scopes
  /\ DOMAIN catalogs = Scopes /\ \A s \in Scopes : catalogs[s] \in Entries(s)
  /\ pending \in [MessageKeys -> Seq(NoteSet)]
  /\ DOMAIN request = Requests
  /\ \A key \in MessageKeys : \A i \in DOMAIN pending[key] : NoteOK(key, pending[key][i])
  /\ \A r \in Requests : RequestFits(r, request[r])

LEMMA ScopeTypeFollows == ScopeInv => ScopeTypeOK
BY DEF ScopeInv, ScopeTypeOK, RequestFits, NoteOK, NoteSet, Phases, Injectable

LEMMA ScopeStarts == ScopeInit => ScopeInv
<1> SUFFICES ASSUME ScopeInit PROVE ScopeInv
  OBVIOUS
<1>1. ASSUME NEW r \in Requests PROVE RequestFits(r, request[r])
  <2>1. request[r] \in {NewRequest, Over}
    BY DEF ScopeInit
  <2>2. request[r] = NewRequest \/ request[r] = [NewRequest EXCEPT !.pc = "done"]
    BY <2>1 DEF Over
  <2> QED
    BY <2>2, RequestConstants DEF RequestFits, NewRequest, Phases, Taking, Injectable
<1> QED
  BY <1>1, RequestConstants DEF ScopeInit, ScopeInv, Entries

-----------------------------------------------------------------------------
(* chat.params and chat.headers                                            *)

LEMMA DefaultsFit ==
    ASSUME NEW given, NEW configured, NEW known, NEW choice
    PROVE  LET options == ApplyDefaults(given, configured, known, choice)
           IN /\ DOMAIN options = OptionFields /\ DOMAIN options.text = TextFields
              /\ options.text.delegates = FALSE
              /\ options.summary # "none"
              /\ Reasons(options.effort) /\ options.summary # Absent => options.encrypted
<1> DEFINE options == ApplyDefaults(given, configured, known, choice)
           model == IF known = Absent THEN Bare ELSE known
           source == SummarySource(given.summary, Reasons(options.effort), configured.summary, model)
<1>1. options.summary = CASE source \in Summaries -> source
                   [] source \notin Summaries /\ "none" \in {given.summary, configured.summary} -> Absent
                   [] OTHER -> given.summary
  BY DEF ApplyDefaults
<1>2. options.summary # "none"
  <2> HIDE DEF options, source
  <2> QED
    BY <1>1, RequestConstants DEF Summaries
<1>3. options.encrypted = AsksEncrypted(options.effort, options.summary, model)
  BY DEF ApplyDefaults
<1>4. DOMAIN options = OptionFields
  BY DEF ApplyDefaults, OptionFields
<1>5. options.text = [NoText EXCEPT !.base = IF options.rendered THEN model.instructions ELSE given.base]
  BY DEF ApplyDefaults
<1> HIDE DEF options
<1>6. DOMAIN options.text = TextFields /\ options.text.delegates = FALSE
  BY <1>5 DEF NoText, TextFields
<1> QED
  BY <1>2, <1>3, <1>4, <1>6 DEF AsksEncrypted, options

LEMMA InjectedFits ==
    ASSUME NEW given, NEW options PROVE Injected(given, options) \subseteq Injectable
BY DEF Injected, Injectable

LEMMA UltraFits ==
    ASSUME NEW model, NEW role \in Roles PROVE ResolveUltra("ultra", model, role) \in States
BY DEF ResolveUltra, States, Roles

\* A step of a request alone, and one of a request of which no note waits, or which is over.
LEMMA OthersStay ==
    ASSUME ScopeInv, NEW r \in Requests, NEW q, Becomes(r, q), RequestFits(r, q), UNCHANGED settings
    PROVE  /\ DOMAIN request' = Requests /\ request'[r] = q
           /\ \A p \in Requests \ {r} : request'[p] = request[p]
           /\ \A p \in Requests : RequestFits(p, request[p])'
<1>1. /\ request'[r] = q /\ DOMAIN request' = Requests
      /\ \A p \in Requests \ {r} : request'[p] = request[p]
  BY DEF ScopeInv, Becomes
<1>2. \A p \in Requests : RequestFits(p, request'[p])
  BY <1>1 DEF ScopeInv
<1>3. ASSUME NEW p \in Requests PROVE RequestFits(p, request[p])'
  <2>1. SentAs(request[p])' = SentAs(request'[p])
    BY DEF SentAs, Config
  <2> QED
    BY <1>2, <2>1 DEF RequestFits
<1> QED
  BY <1>1, <1>3

LEMMA MoveKeeps ==
    ASSUME ScopeInv, NEW r \in Requests, NEW q, Becomes(r, q), RequestFits(r, q),
           request[r].pc \notin {"params", "done"} \/ q.pc = "done",
           UNCHANGED <<settings, catalogs, pending>>, active' \in Scopes
    PROVE  ScopeInv'
<1>1. /\ DOMAIN request' = Requests /\ request'[r] = q
      /\ \A p \in Requests \ {r} : request'[p] = request[p]
      /\ \A p \in Requests : RequestFits(p, request[p])'
  BY OthersStay
<1>2. ASSUME NEW key \in MessageKeys, NEW i \in DOMAIN pending[key] PROVE NoteOK(key, pending[key][i])'
  <2>1. NoteOK(key, pending[key][i])
    BY DEF ScopeInv
  <2> QED
    BY <1>1, <2>1 DEF NoteOK, NoteSet
<1> QED
  BY <1>1, <1>2 DEF ScopeInv, Entries

\* Publishing a note about a request that has not taken one yet.
LEMMA PublishKeeps ==
    ASSUME ScopeInv, NEW r \in Requests, NEW q, Publish(r, q),
           request[r].pc \in {"idle", "agent"}, q.pc \in Phases,
           DOMAIN q = DOMAIN NewRequest, q.attempts \in 0..MaxAttempts, q.attempts < MaxAttempts,
           q.injected \subseteq Injectable, Prepared(q),
           UNCHANGED <<settings, catalogs, active, provider>>
    PROVE  ScopeInv'
<1> DEFINE next == [q EXCEPT !.pc = "params"]
           note == Noted(r, q)
<1>1. /\ request' = [request EXCEPT ![r] = next]
      /\ pending' = [pending EXCEPT ![KeyOf[r]] = Append(@, note)]
  BY DEF Publish, Becomes
<1>2. /\ DOMAIN next = DOMAIN NewRequest /\ next.pc = "params" /\ next.attempts = q.attempts
      /\ next.injected = q.injected /\ next.ultra = q.ultra /\ Prepared(next)
  BY DEF Prepared, NewRequest
<1>3. note \in NoteSet /\ note.of = r /\ note.injected = q.injected /\ note.ultra = q.ultra
  BY DEF Noted, NoteSet, Prepared
<1> HIDE DEF next, note
<1>4. /\ request'[r] = next /\ DOMAIN request' = Requests
      /\ \A p \in Requests \ {r} : request'[p] = request[p]
  BY <1>1 DEF ScopeInv
<1>5. \A p \in Requests : RequestFits(p, request[p])'
  <2>2. RequestFits(r, next)
    BY <1>2 DEF RequestFits, Phases, Taking
  <2> QED
    BY <1>1, <2>2, OthersStay DEF Becomes
<1>6. KeyOf[r] \in MessageKeys
  BY DEF MessageKeys
<1>7. pending' \in [MessageKeys -> Seq(NoteSet)]
  BY <1>1, <1>3, <1>6 DEF ScopeInv
<1>8. ASSUME NEW key \in MessageKeys, NEW i \in DOMAIN pending'[key] PROVE NoteOK(key, pending[key][i])'
  <2>1. CASE i \in DOMAIN pending[key] /\ pending'[key][i] = pending[key][i]
    <3>1. NoteOK(key, pending[key][i])
      BY <2>1 DEF ScopeInv
    <3>2. pending[key][i].of # r
      BY <3>1 DEF NoteOK
    <3> QED
      BY <1>4, <2>1, <3>1, <3>2 DEF NoteOK, NoteSet
  <2>2. CASE key = KeyOf[r] /\ pending'[key][i] = note
    BY <1>2, <1>3, <1>4, <2>2 DEF NoteOK
  <2> QED
    BY <1>1, <1>3, <1>6, <2>1, <2>2 DEF ScopeInv
<1> QED
  BY <1>4, <1>5, <1>7, <1>8 DEF ScopeInv, Entries

LEMMA ParamsKeeps ==
    ASSUME ScopeInv, NEW r \in Requests, NEW given, Params(r, given) PROVE ScopeInv'
<1> DEFINE options == ApplyDefaults(given, Config, provider, settings)
           q == [NewRequest EXCEPT !.given = given, !.model = provider, !.scope = active,
                            !.injected = Injected(given, options),
                            !.options = [options EXCEPT !.text = Instruct(@, [selected |-> FALSE],
                                                                          given.build, settings)]]
<1>1. /\ request[r].pc = "idle"
      /\ IF options.effort = "ultra" THEN /\ Becomes(r, [q EXCEPT !.pc = "agent", !.options = options])
                                          /\ UNCHANGED pending
         ELSE Publish(r, q)
      /\ UNCHANGED <<settings, catalogs, active, provider>>
  BY DEF Params
<1>2. /\ DOMAIN options = OptionFields /\ DOMAIN options.text = TextFields
      /\ options.text.delegates = FALSE
      /\ options.summary # "none"
      /\ Reasons(options.effort) /\ options.summary # Absent => options.encrypted
  BY DefaultsFit
<1>3. Injected(given, options) \subseteq Injectable
  BY InjectedFits
<1>4. Absent \notin {"ultra", "max", "none"} /\ Absent \notin Requests /\ active \in Scopes
  BY RequestConstants DEF ScopeInv
<1>5. 0 \in 0..MaxAttempts /\ 0 < MaxAttempts
  BY RequestConstants
<1> HIDE DEF options
<1>6. CASE options.effort = "ultra"
  <2> DEFINE waiting == [q EXCEPT !.pc = "agent", !.options = options]
  <2>1. /\ DOMAIN waiting = DOMAIN NewRequest /\ waiting.pc = "agent" /\ waiting.options = options
        /\ waiting.given = given /\ waiting.scope = active /\ waiting.injected = Injected(given, options)
        /\ waiting.ultra = Absent /\ waiting.attempts = 0
    BY DEF NewRequest
  <2> HIDE DEF waiting
  <2>2. Prepared(waiting)
    BY <1>2, <1>4, <1>6, <2>1 DEF Prepared
  <2>3. RequestFits(r, waiting)
    BY <1>2, <1>3, <1>5, <1>6, <2>1, <2>2 DEF RequestFits, Phases, Taking
  <2> QED
    BY <1>1, <1>4, <1>6, <2>3, MoveKeeps DEF waiting
<1>7. CASE options.effort # "ultra"
  <2>1. /\ DOMAIN q = DOMAIN NewRequest /\ q.pc = "idle" /\ q.given = given /\ q.scope = active
        /\ q.options = [options EXCEPT !.text = Instruct(@, [selected |-> FALSE], given.build, settings)]
        /\ q.injected = Injected(given, options) /\ q.ultra = Absent /\ q.attempts = 0
    BY DEF NewRequest
  <2>2. /\ DOMAIN q.options = OptionFields /\ q.options.effort = options.effort
        /\ q.options.summary = options.summary /\ q.options.encrypted = options.encrypted
        /\ q.options.rendered = options.rendered
        /\ \A f \in Fields : q.options[f] = options[f]
        /\ q.options.text = Instruct(options.text, [selected |-> FALSE], given.build, settings)
    BY <1>2, <2>1 DEF OptionFields, Fields
  <2> HIDE DEF q
  <2>3. DOMAIN q.options.text = TextFields /\ (q.options.text.delegates => FALSE)
    BY <1>2, <2>2 DEF Instruct, TextFields
  <2>4. Injected(given, q.options) = Injected(given, options)
    BY <2>2 DEF Injected
  <2>5. Prepared(q)
    BY <1>2, <1>4, <2>1, <2>2, <2>3, <2>4 DEF Prepared
  <2>6. Publish(r, q)
    BY <1>1, <1>7
  <2> QED
    BY <1>1, <1>3, <1>5, <2>1, <2>5, <2>6, PublishKeeps DEF Phases
<1> QED
  BY <1>6, <1>7

LEMMA AgentKnownKeeps ==
    ASSUME ScopeInv, NEW r \in Requests, NEW role \in Roles, AgentKnown(r, role) PROVE ScopeInv'
<1> DEFINE old == request[r]
           ultra == ResolveUltra("ultra", old.model, role)
           q == [old EXCEPT !.ultra = ultra,
                            !.options.text = Instruct(@, ultra, old.given.build, settings)]
<1>1. /\ old.pc = "agent" /\ Publish(r, q)
      /\ UNCHANGED <<settings, catalogs, active, provider>>
  BY DEF AgentKnown
<1>2. RequestFits(r, old)
  BY DEF ScopeInv
<1>3. /\ Prepared(old) /\ old.options.effort = "ultra"
      /\ old.attempts \in 0..MaxAttempts /\ old.attempts < MaxAttempts
  BY <1>1, <1>2 DEF RequestFits
<1>4. ultra \in States
  BY UltraFits
<1> HIDE DEF ultra
<1>5. /\ DOMAIN q = DOMAIN NewRequest /\ q.pc = "agent" /\ q.given = old.given /\ q.scope = old.scope
      /\ q.injected = old.injected /\ q.ultra = ultra /\ q.attempts = old.attempts
      /\ q.options = [old.options EXCEPT !.text = Instruct(@, ultra, old.given.build, settings)]
  BY <1>1, <1>2 DEF RequestFits, NewRequest
<1>6. /\ DOMAIN q.options = OptionFields /\ q.options.effort = old.options.effort
      /\ q.options.summary = old.options.summary /\ q.options.encrypted = old.options.encrypted
      /\ q.options.rendered = old.options.rendered
      /\ \A f \in Fields : q.options[f] = old.options[f]
      /\ q.options.text = Instruct(old.options.text, ultra, old.given.build, settings)
  BY <1>3, <1>5 DEF OptionFields, Fields, Prepared
<1>7. DOMAIN q.options.text = TextFields
  BY <1>3, <1>6 DEF Instruct, Prepared
<1> HIDE DEF q, old
<1>8. Injected(old.given, q.options) = Injected(old.given, old.options)
  BY <1>6 DEF Injected
<1>9. Prepared(q)
  BY <1>3, <1>4, <1>5, <1>6, <1>7, <1>8 DEF Prepared
<1>10. q.injected \subseteq Injectable /\ q.pc \in Phases
  BY <1>2, <1>5 DEF RequestFits, Phases
<1> QED
  BY <1>1, <1>3, <1>5, <1>9, <1>10, PublishKeeps DEF old

\* What headers take of the notes that wait is true of the request.
LEMMA TakenFits ==
    ASSUME ScopeInv, NEW r \in Requests, request[r].pc = "params"
    PROVE  /\ Noticed(r, [request[r] EXCEPT !.meta = Taken(pending[KeyOf[r]])])
           /\ Taken(pending[KeyOf[r]]).scope \in Scopes \cup {Absent}
<1> DEFINE waiting == pending[KeyOf[r]]
           q == [request[r] EXCEPT !.meta = Taken(waiting)]
<1>1. waiting \in Seq(NoteSet) /\ KeyOf[r] \in MessageKeys
  BY DEF ScopeInv, MessageKeys
<1>2. DOMAIN request[r] = DOMAIN NewRequest
  BY DEF ScopeInv, RequestFits
<1>3. q.meta = Taken(waiting) /\ q.injected = request[r].injected /\ q.ultra = request[r].ultra
  BY <1>2 DEF NewRequest
<1>4. CASE Len(waiting) = 1
  <2>1. waiting[1] \in NoteSet /\ 1 \in DOMAIN waiting
    BY <1>1, <1>4
  <2>2. NoteOK(KeyOf[r], waiting[1])
    BY <1>1, <2>1 DEF ScopeInv
  <2>3. Taken(waiting) = waiting[1]
    BY <1>4 DEF Taken
  <2>4. q.meta.of # Absent /\ waiting[1].scope \in Scopes
    BY <1>3, <2>1, <2>3, RequestConstants DEF NoteSet
  <2> HIDE DEF q, waiting
  <2> QED
    BY <1>3, <2>2, <2>3, <2>4 DEF Noticed, NoteOK, q, waiting
<1>5. CASE Len(waiting) # 1
  <2>1. Taken(waiting) = None
    BY <1>5 DEF Taken
  <2> HIDE DEF q, waiting
  <2> QED
    BY <1>3, <2>1, RequestConstants DEF Noticed, None, q, waiting
<1> QED
  BY <1>4, <1>5

LEMMA HeadersKeeps ==
    ASSUME ScopeInv, NEW r \in Requests, Headers(r) PROVE ScopeInv'
<1> DEFINE old == request[r]
           meta == Taken(pending[KeyOf[r]])
           q == [old EXCEPT !.pc = "headers", !.meta = meta,
                            !.scope = IF meta.scope # Absent THEN meta.scope ELSE active]
<1>1. /\ old.pc = "params" /\ Becomes(r, q)
      /\ pending' = [pending EXCEPT ![KeyOf[r]] = <<>>]
      /\ UNCHANGED <<settings, catalogs, active, provider>>
  BY DEF Headers
<1>2. RequestFits(r, old) /\ active \in Scopes
  BY DEF ScopeInv
<1>3. Noticed(r, [old EXCEPT !.meta = meta]) /\ meta.scope \in Scopes \cup {Absent}
  BY <1>1, TakenFits
<1> HIDE DEF meta
<1>4. /\ DOMAIN q = DOMAIN NewRequest /\ q.pc = "headers" /\ q.meta = meta /\ q.given = old.given
      /\ q.options = old.options /\ q.injected = old.injected /\ q.ultra = old.ultra
      /\ q.scope \in Scopes /\ q.attempts = old.attempts
      /\ [old EXCEPT !.meta = meta].meta = meta
      /\ [old EXCEPT !.meta = meta].injected = old.injected
      /\ [old EXCEPT !.meta = meta].ultra = old.ultra
  BY <1>2, <1>3 DEF RequestFits, NewRequest
<1>5. RequestFits(r, q)
  <2> HIDE DEF q, old
  <2>1. Prepared(q)
    BY <1>1, <1>2, <1>4 DEF RequestFits, Prepared
  <2>2. Noticed(r, q)
    BY <1>3, <1>4 DEF Noticed
  <2> QED
    BY <1>1, <1>2, <1>4, <2>1, <2>2 DEF RequestFits, Phases, Taking
<1> HIDE DEF q
<1>6. /\ DOMAIN request' = Requests /\ request'[r] = q
      /\ \A p \in Requests \ {r} : request'[p] = request[p]
      /\ \A p \in Requests : RequestFits(p, request[p])'
  BY <1>1, <1>5, OthersStay
<1>7. pending' \in [MessageKeys -> Seq(NoteSet)]
  <2>1. <<>> \in Seq(NoteSet) /\ pending \in [MessageKeys -> Seq(NoteSet)]
    BY DEF ScopeInv
  <2> QED
    BY <1>1, <2>1
<1>8. ASSUME NEW key \in MessageKeys, NEW i \in DOMAIN pending'[key] PROVE NoteOK(key, pending[key][i])'
  <2>1. key # KeyOf[r] /\ pending'[key] = pending[key]
    BY <1>1, <1>8 DEF ScopeInv
  <2>2. NoteOK(key, pending[key][i])
    BY <1>8, <2>1 DEF ScopeInv
  <2>3. pending[key][i].of # r
    BY <2>1, <2>2 DEF NoteOK
  <2> QED
    BY <1>6, <2>1, <2>2, <2>3 DEF NoteOK, NoteSet
<1> QED
  BY <1>1, <1>2, <1>6, <1>7, <1>8 DEF ScopeInv, Entries

\* What drops notes disturbs nothing.
LEMMA DropKeeps ==
    ASSUME ScopeInv, UNCHANGED <<settings, catalogs, active, provider, request>>,
           pending' \in [MessageKeys -> Seq(NoteSet)],
           \A key \in MessageKeys : pending'[key] \in {pending[key], <<>>}
    PROVE  ScopeInv'
<1>1. ASSUME NEW p \in Requests PROVE RequestFits(p, request[p])'
  <2>1. SentAs(request[p])' = SentAs(request[p])
    BY DEF SentAs, Config
  <2> QED
    BY <2>1 DEF ScopeInv, RequestFits
<1>2. ASSUME NEW key \in MessageKeys, NEW i \in DOMAIN pending'[key] PROVE NoteOK(key, pending[key][i])'
  <2>1. pending'[key] = pending[key]
    BY <1>2
  <2> QED
    BY <1>2, <2>1 DEF ScopeInv, NoteOK
<1> QED
  BY <1>1, <1>2 DEF ScopeInv, Entries

LEMMA OtherProviderKeeps ==
    ASSUME ScopeInv, NEW key \in MessageKeys, OtherProvider(key) PROVE ScopeInv'
<1>1. pending' \in [MessageKeys -> Seq(NoteSet)] /\ \A k \in MessageKeys : pending'[k] \in {pending[k], <<>>}
  BY DEF OtherProvider, ScopeInv
<1> QED
  BY <1>1, DropKeeps DEF OtherProvider

LEMMA SessionDeletedKeeps ==
    ASSUME ScopeInv, SessionDeleted PROVE ScopeInv'
<1>1. pending' \in [MessageKeys -> Seq(NoteSet)] /\ \A k \in MessageKeys : pending'[k] \in {pending[k], <<>>}
  BY DEF SessionDeleted, ScopeInv
<1> QED
  BY <1>1, DropKeeps DEF SessionDeleted

-----------------------------------------------------------------------------
(* The fetch                                                               *)

\* A step that leaves what chat.params and the headers found, and answers nothing yet.
LEMMA FetchKeeps ==
    ASSUME ScopeInv, NEW r \in Requests, NEW q, Becomes(r, q),
           request[r].pc \in {"headers", "catalog", "selected", "sent"},
           q.pc \in {"headers", "catalog", "selected"},
           DOMAIN q = DOMAIN NewRequest, q.attempts \in 0..MaxAttempts,
           q.pc = "headers" => q.attempts < MaxAttempts,
           q.given = request[r].given, q.options = request[r].options, q.scope = request[r].scope,
           q.injected = request[r].injected, q.ultra = request[r].ultra, q.meta = request[r].meta,
           UNCHANGED <<settings, catalogs, pending>>, active' \in Scopes
    PROVE  ScopeInv'
<1>1. RequestFits(r, request[r])
  BY DEF ScopeInv
<1>2. Prepared(q) /\ Noticed(r, q)
  BY <1>1 DEF RequestFits, Prepared, Noticed, Taking
<1>3. RequestFits(r, q)
  BY <1>1, <1>2 DEF RequestFits, Phases, Taking
<1> QED
  BY <1>3, MoveKeeps

LEMMA AcquireKeeps ==
    ASSUME ScopeInv, NEW r \in Requests, NEW s \in Scopes, Acquire(r, s) PROVE ScopeInv'
<1> DEFINE old == request[r]
           q == [old EXCEPT !.pc = IF catalogs[s] = Absent THEN "catalog" ELSE "selected",
                            !.old = active, !.account = s, !.selected = catalogs[s],
                            !.attempts = @ + 1]
<1>1. /\ old.pc = "headers" /\ active' = s /\ Becomes(r, q)
      /\ UNCHANGED <<settings, catalogs, pending>>
  BY DEF Acquire
<1>2. /\ DOMAIN old = DOMAIN NewRequest /\ old.attempts \in 0..MaxAttempts /\ old.attempts < MaxAttempts
  BY <1>1 DEF ScopeInv, RequestFits
<1>3. /\ DOMAIN q = DOMAIN NewRequest /\ q.pc \in {"catalog", "selected"} /\ q.given = old.given
      /\ q.options = old.options /\ q.scope = old.scope
      /\ q.injected = old.injected /\ q.ultra = old.ultra /\ q.meta = old.meta
      /\ q.attempts = old.attempts + 1
  BY <1>2 DEF NewRequest
<1> HIDE DEF q
<1>4. q.attempts \in 0..MaxAttempts
  BY <1>2, <1>3, RequestConstants
<1> QED
  BY <1>1, <1>3, <1>4, FetchKeeps

LEMMA CatalogAwaitedKeeps ==
    ASSUME ScopeInv, NEW r \in Requests, CatalogAwaited(r) PROVE ScopeInv'
<1> DEFINE old == request[r]
           q == [old EXCEPT !.pc = "selected", !.selected = catalogs[old.account]]
<1>1. /\ old.pc = "catalog" /\ Becomes(r, q) /\ UNCHANGED <<settings, catalogs, active, pending>>
  BY DEF CatalogAwaited
<1>2. DOMAIN old = DOMAIN NewRequest /\ old.attempts \in 0..MaxAttempts /\ active \in Scopes
  BY DEF ScopeInv, RequestFits
<1>3. /\ DOMAIN q = DOMAIN NewRequest /\ q.pc = "selected" /\ q.given = old.given
      /\ q.options = old.options /\ q.scope = old.scope
      /\ q.injected = old.injected /\ q.ultra = old.ultra /\ q.meta = old.meta
      /\ q.attempts = old.attempts
  BY <1>2 DEF NewRequest
<1> HIDE DEF q
<1> QED
  BY <1>1, <1>2, <1>3, FetchKeeps

LEMMA RejectedKeeps ==
    ASSUME ScopeInv, NEW r \in Requests, Rejected(r) PROVE ScopeInv'
<1> DEFINE old == request[r]
           q == [old EXCEPT !.pc = "headers", !.sent = Absent, !.previous = Absent]
<1>1. /\ old.pc = "sent" /\ Becomes(r, q) /\ UNCHANGED <<settings, catalogs, active, pending>>
      /\ old.attempts < MaxAttempts
  BY DEF Rejected
<1>2. DOMAIN old = DOMAIN NewRequest /\ old.attempts \in 0..MaxAttempts /\ active \in Scopes
  BY DEF ScopeInv, RequestFits
<1>3. /\ DOMAIN q = DOMAIN NewRequest /\ q.pc = "headers" /\ q.given = old.given
      /\ q.options = old.options /\ q.scope = old.scope
      /\ q.injected = old.injected /\ q.ultra = old.ultra /\ q.meta = old.meta
      /\ q.attempts = old.attempts
  BY <1>2 DEF NewRequest
<1> HIDE DEF q
<1> QED
  BY <1>1, <1>2, <1>3, FetchKeeps

LEMMA SendKeeps ==
    ASSUME ScopeInv, NEW r \in Requests, Send(r) PROVE ScopeInv'
<1> DEFINE old == request[r]
           payload == Payload(old)
           q == [old EXCEPT !.pc = IF payload.fatal THEN "fatal" ELSE "sent",
                            !.sent = payload, !.previous = OldModel(old)]
<1>1. /\ old.pc = "selected" /\ Becomes(r, q) /\ UNCHANGED <<settings, catalogs, active, pending>>
  BY DEF Send
<1>2. RequestFits(r, old) /\ active \in Scopes
  BY DEF ScopeInv
<1> HIDE DEF payload
<1>3. /\ DOMAIN q = DOMAIN NewRequest /\ q.pc = IF payload.fatal THEN "fatal" ELSE "sent"
      /\ q.given = old.given /\ q.options = old.options /\ q.scope = old.scope
      /\ q.injected = old.injected /\ q.ultra = old.ultra /\ q.meta = old.meta
      /\ q.attempts = old.attempts /\ q.sent = payload /\ q.previous = OldModel(old)
      /\ q.old = old.old /\ q.account = old.account /\ q.selected = old.selected
  BY <1>2 DEF NewRequest, RequestFits
<1> HIDE DEF q, old
<1>4. Prepared(q) /\ Noticed(r, q)
  BY <1>1, <1>2, <1>3 DEF RequestFits, Prepared, Noticed, Taking
<1>5. q.sent = SentAs(q)
  <2>1. ScopeOf(q) = ScopeOf(old)
    BY <1>3 DEF ScopeOf
  <2>2. Moved(q) <=> Changed(old)
    BY <1>3, <2>1 DEF Moved, Changed
  <2> QED
    BY <1>3, <2>2 DEF SentAs, Payload, payload
<1>6. RequestFits(r, q)
  BY <1>1, <1>2, <1>3, <1>4, <1>5 DEF RequestFits, Phases, Taking
<1> QED
  BY <1>1, <1>2, <1>6, MoveKeeps DEF old

\* A request that is over needs nothing.
LEMMA OverKeeps ==
    ASSUME ScopeInv, NEW r \in Requests, Becomes(r, Over),
           UNCHANGED <<settings, catalogs, active, pending>>
    PROVE  ScopeInv'
<1>1. /\ DOMAIN Over = DOMAIN NewRequest /\ Over.pc = "done" /\ Over.attempts = 0 /\ Over.injected = {}
  BY DEF Over, NewRequest
<1>2. RequestFits(r, Over)
  BY <1>1, RequestConstants DEF RequestFits, Phases, Taking
<1>3. active \in Scopes
  BY DEF ScopeInv
<1> QED
  BY <1>1, <1>2, <1>3, MoveKeeps

LEMMA SetCatalogKeeps ==
    ASSUME ScopeInv, NEW s \in Scopes, NEW entry \in Entries(s), SetCatalog(s, entry)
    PROVE  ScopeInv'
<1>1. ASSUME NEW p \in Requests PROVE RequestFits(p, request[p])'
  <2>1. SentAs(request[p])' = SentAs(request[p])
    BY DEF SetCatalog, SentAs, Config
  <2> QED
    BY <2>1 DEF SetCatalog, ScopeInv, RequestFits
<1>2. ASSUME NEW key \in MessageKeys, NEW i \in DOMAIN pending'[key] PROVE NoteOK(key, pending[key][i])'
  BY <1>2 DEF SetCatalog, ScopeInv, NoteOK
<1>3. DOMAIN catalogs' = Scopes /\ \A t \in Scopes : catalogs'[t] \in Entries(t)
  BY DEF SetCatalog, ScopeInv
<1> QED
  BY <1>1, <1>2, <1>3 DEF SetCatalog, ScopeInv, Entries

LEMMA ScopeStep == ScopeInv /\ ScopeNext => ScopeInv'
<1> SUFFICES ASSUME ScopeInv, ScopeNext PROVE ScopeInv'
  OBVIOUS
<1>1. ASSUME NEW r \in Requests, RequestStep(r) PROVE ScopeInv'
  <2>1. CASE Headers(r)
    BY <2>1, HeadersKeeps
  <2>2. CASE CatalogAwaited(r)
    BY <2>2, CatalogAwaitedKeeps
  <2>3. CASE Send(r)
    BY <2>3, SendKeeps
  <2>4. CASE Rejected(r)
    BY <2>4, RejectedKeeps
  <2>5. CASE Ends(r) \/ Abort(r)
    BY <2>5, OverKeeps DEF Ends, Abort
  <2>6. ASSUME NEW given \in Given[r], Params(r, given) PROVE ScopeInv'
    BY <2>6, ParamsKeeps
  <2>7. ASSUME NEW role \in Roles, AgentKnown(r, role) PROVE ScopeInv'
    BY <2>7, AgentKnownKeeps
  <2>8. ASSUME NEW s \in Scopes, Acquire(r, s) PROVE ScopeInv'
    BY <2>8, AcquireKeeps
  <2> QED
    BY <1>1, <2>1, <2>2, <2>3, <2>4, <2>5, <2>6, <2>7, <2>8 DEF RequestStep
<1>2. ASSUME NEW key \in MessageKeys, OtherProvider(key) PROVE ScopeInv'
  BY <1>2, OtherProviderKeeps
<1>3. ASSUME NEW s \in Scopes, NEW entry \in Entries(s), SetCatalog(s, entry) PROVE ScopeInv'
  BY <1>3, SetCatalogKeeps
<1> QED
  BY <1>1, <1>2, <1>3, SessionDeletedKeeps DEF ScopeNext

LEMMA ScopeStutters == ScopeInv /\ UNCHANGED scopeVars => ScopeInv'
BY DEF scopeVars, ScopeInv, RequestFits, NoteOK, Prepared, Noticed, SentAs, Config, Moved,
       ScopeOf, Entries

-----------------------------------------------------------------------------
(* What is sent                                                            *)

\* The first value of a chain is chosen if it is set.
LEMMA FirstChosen ==
    ASSUME NEW v, v # Absent, NEW S, NEW t \in Seq(S) PROVE Chosen(<<v>> \o t) = v
<1> DEFINE values == <<v>> \o t
           I == {i \in 1..Len(values) : values[i] # Absent}
<1>1. values \in Seq(S \cup {v}) /\ Len(values) = Len(t) + 1 /\ values[1] = v /\ Len(t) \in Nat
  OBVIOUS
<1> HIDE DEF values
<1>2. 1 \in I /\ \A i \in I : i \in Nat /\ 1 =< i
  BY <1>1
<1> HIDE DEF I
<1>3. \A i \in I : (\A j \in I : i =< j) => i = 1
  BY <1>2
<1>4. Min(I) = 1
  BY <1>2, <1>3 DEF Min
<1>5. SelectInSeq(values, LAMBDA w : w # Absent) = 1
  BY <1>2, <1>4 DEF SelectInSeq, I
<1> QED
  BY <1>1, <1>5 DEF Chosen, values

\* A change of account, field by field; one without the old model changes nothing.
IsSynced(p, injected, old, next, q) ==
  /\ q.text.delegates = p.text.delegates /\ DOMAIN q.text = TextFields
  /\ old = Absent => q = p
  /\ old # Absent =>
       /\ q.effort = Swap(injected, "effort", p.effort, old.effort, next.effort)
       /\ q.summary = SwapSummary(p, injected, old, next)
       /\ q.verbosity = Swap(injected, "verbosity", p.verbosity, old.verbosity, next.verbosity)
       /\ q.parallel = Swap(injected, "parallel", p.parallel, old.parallel, next.parallel)
       /\ LET before == AsksEncrypted(p.effort, p.summary, old)
              after == AsksEncrypted(q.effort, q.summary, next)
              changed == q.effort # p.effort \/ q.summary # p.summary
          IN q.encrypted = CASE before /\ ~after /\ changed -> FALSE
                             [] ~before /\ after -> TRUE
                             [] OTHER -> p.encrypted
LEMMA SyncFits ==
    ASSUME NEW p, NEW injected, NEW old, NEW new, DOMAIN p = OptionFields, DOMAIN p.text = TextFields
    PROVE  IsSynced(p, injected, old, IF new = Absent THEN Bare ELSE new,
                    SyncScope(p, injected, old, new))
<1> DEFINE q == SyncScope(p, injected, old, new)
           next == IF new = Absent THEN Bare ELSE new
<1>1. CASE old = Absent
  BY <1>1 DEF SyncScope, IsSynced
<1>2. CASE old # Absent
  <2>1. q = SyncTo(p, injected, old, next)
    BY <1>2 DEF SyncScope, ClearScope
  <2> HIDE DEF q, next
  <2>2. /\ q.effort = Swap(injected, "effort", p.effort, old.effort, next.effort)
        /\ q.summary = SwapSummary(p, injected, old, next)
        /\ q.verbosity = Swap(injected, "verbosity", p.verbosity, old.verbosity, next.verbosity)
        /\ q.parallel = Swap(injected, "parallel", p.parallel, old.parallel, next.parallel)
        /\ q.text = SwapText(p.text, injected, old.instructions, next.instructions)
    BY <2>1 DEF SyncTo, OptionFields
  <2>3. LET effort == Swap(injected, "effort", p.effort, old.effort, next.effort)
            summary == SwapSummary(p, injected, old, next)
            before == AsksEncrypted(p.effort, p.summary, old)
            after == AsksEncrypted(effort, summary, next)
            changed == effort # p.effort \/ summary # p.summary
        IN q.encrypted = CASE before /\ ~after /\ changed -> FALSE
                            [] ~before /\ after -> TRUE
                            [] OTHER -> p.encrypted
    BY <2>1 DEF SyncTo, OptionFields
  <2>4. q.text.delegates = p.text.delegates /\ DOMAIN q.text = TextFields
    BY <2>2 DEF SwapText, TextFields
  <2> QED
    BY <1>2, <2>2, <2>3, <2>4 DEF q, next, IsSynced
<1> QED
  BY <1>1, <1>2

Asked(options, choice, ultra) ==
  IF (IF choice.ultra THEN ParseUltra(ultra) ELSE Absent) # Absent THEN "ultra" ELSE options.effort
OnTheWire(options, choice, ultra) ==
  IF Asked(options, choice, ultra) = "ultra" /\ {options.effort, options.summary} # {Absent}
  THEN "max" ELSE options.effort
IsSent(options, configured, choice, injected, ultra, old, new, sent) ==
  LET synced == SyncScope([options EXCEPT !.effort = OnTheWire(options, choice, ultra)], injected, old, new)
  IN /\ sent.effort = synced.effort /\ sent.summary = synced.summary
     /\ sent.verbosity = synced.verbosity /\ sent.parallel = synced.parallel
     /\ sent.encrypted = synced.encrypted
     /\ sent.fatal <=> FatalSummary(synced, configured, IF new = Absent THEN Bare ELSE new)
     /\ sent.text.delegates => /\ options.text.delegates
                               /\ choice.ultra
                               /\ Asked(options, choice, ultra) = "ultra" => new # Absent /\ new.ultra
LEMMA TransformFits ==
    ASSUME NEW options, NEW configured, NEW choice, NEW injected, NEW ultra, NEW old, NEW new,
           DOMAIN options = OptionFields, DOMAIN options.text = TextFields
    PROVE  IsSent(options, configured, choice, injected, ultra, old, new,
                  Transform(options, configured, choice, injected, ultra, old, new))
<1> DEFINE state == IF choice.ultra THEN ParseUltra(ultra) ELSE Absent
           effort == IF state # Absent THEN "ultra" ELSE options.effort
           asked == ResolveUltra(effort, new, IF state = Absent THEN "root" ELSE state.role)
           wired == IF effort = "ultra" /\ {options.effort, options.summary} # {Absent} THEN "max"
                    ELSE options.effort
           p == [options EXCEPT !.effort = wired]
           synced == SyncScope(p, injected, old, new)
           sent == Transform(options, configured, choice, injected, ultra, old, new)
<1>1. sent = [text |-> [synced.text EXCEPT !.delegates = @ /\ choice.ultra
                                                       /\ (effort = "ultra" => asked.eligible)],
              effort |-> synced.effort, summary |-> synced.summary, verbosity |-> synced.verbosity,
              parallel |-> synced.parallel, tier |-> synced.tier, encrypted |-> synced.encrypted,
              fatal |-> FatalSummary(synced, configured, IF new = Absent THEN Bare ELSE new)]
  BY DEF Transform
<1>2. asked.eligible => effort = "ultra" /\ new # Absent /\ new.ultra
  BY DEF ResolveUltra
<1> HIDE DEF state, effort, wired
<1>3. DOMAIN p = OptionFields /\ p.text = options.text /\ DOMAIN p.text = TextFields
  BY DEF OptionFields
<1> HIDE DEF p
<1>4. synced.text.delegates = options.text.delegates /\ DOMAIN synced.text = TextFields
  <2>1. IsSynced(p, injected, old, IF new = Absent THEN Bare ELSE new, synced)
    BY <1>3, SyncFits
  <2> QED
    BY <1>3, <2>1 DEF IsSynced
<1> HIDE DEF synced, asked
<1>5. sent.text.delegates => options.text.delegates /\ choice.ultra /\ (effort = "ultra" => asked.eligible)
  <2>1. sent.text = [synced.text EXCEPT !.delegates = synced.text.delegates /\ choice.ultra
                                                      /\ (effort = "ultra" => asked.eligible)]
    BY <1>1
  <2> HIDE DEF sent
  <2>2. sent.text.delegates = (/\ synced.text.delegates /\ choice.ultra
                               /\ effort = "ultra" => asked.eligible)
    BY <1>4, <2>1 DEF TextFields
  <2> QED
    BY <1>4, <2>2
<1>6. /\ sent.effort = synced.effort /\ sent.summary = synced.summary
      /\ sent.verbosity = synced.verbosity /\ sent.parallel = synced.parallel
      /\ sent.encrypted = synced.encrypted
      /\ sent.fatal = FatalSummary(synced, configured, IF new = Absent THEN Bare ELSE new)
  BY <1>1
<1> HIDE DEF sent
<1> QED
  BY <1>2, <1>5, <1>6 DEF state, effort, wired, synced, p, sent, IsSent, Asked, OnTheWire

\* What a request with a note of its own or with none was sent with.
Wired(q) == IF q.options.effort = "ultra" THEN "max" ELSE q.options.effort
Former(q) == IF Moved(q) THEN q.previous ELSE Absent
SyncedTo(q) == SyncScope([q.options EXCEPT !.effort = Wired(q)], q.meta.injected, Former(q), q.selected)
LEMMA OwnSent ==
    ASSUME ScopeInv, NEW r \in Requests, Sent(r), Own(r)
    PROVE  LET q == request[r]
               synced == SyncedTo(q)
           IN /\ Prepared(q) /\ Noticed(r, q) /\ q.meta.injected \in {{}, q.injected}
              /\ q.sent.effort = synced.effort /\ q.sent.summary = synced.summary
              /\ q.sent.verbosity = synced.verbosity /\ q.sent.parallel = synced.parallel
              /\ q.sent.encrypted = synced.encrypted
<1> DEFINE q == request[r]
           wired == OnTheWire(q.options, settings, q.meta.ultra)
           synced == SyncScope([q.options EXCEPT !.effort = wired], q.meta.injected, Former(q), q.selected)
<1>1. RequestFits(r, q) /\ q.pc \in {"sent", "fatal"} /\ q.meta.of \in {r, Absent}
  BY DEF ScopeInv, Sent, Own
<1> HIDE DEF q
<1>2. Prepared(q) /\ Noticed(r, q) /\ q.sent = SentAs(q)
  BY <1>1 DEF RequestFits, Taking
<1>3. DOMAIN q.options = OptionFields /\ DOMAIN q.options.text = TextFields
  BY <1>2 DEF Prepared
<1>4. q.sent = Transform(q.options, Config, settings, q.meta.injected, q.meta.ultra, Former(q), q.selected)
  BY <1>2 DEF SentAs, Former
<1>5. /\ q.sent.effort = synced.effort /\ q.sent.summary = synced.summary
      /\ q.sent.verbosity = synced.verbosity /\ q.sent.parallel = synced.parallel
      /\ q.sent.encrypted = synced.encrypted
  <2>1. IsSent(q.options, Config, settings, q.meta.injected, q.meta.ultra, Former(q), q.selected, q.sent)
    BY <1>3, <1>4, TransformFits
  <2> QED
    BY <2>1 DEF IsSent
<1>6. Asked(q.options, settings, q.meta.ultra) = q.options.effort
  BY <1>1, <1>2 DEF Noticed, Prepared, ParseUltra, Asked
<1>7. wired = Wired(q)
  BY <1>6, RequestConstants DEF Wired, OnTheWire
<1>8. q.meta.injected \in {{}, q.injected}
  BY <1>1, <1>2 DEF Noticed
<1> HIDE DEF wired
<1> QED
  BY <1>2, <1>5, <1>7, <1>8 DEF SyncedTo, q

\* A field of a request that is not injected keeps its value, and one that still has
\* the former model's default gets the next one's.
LEMMA SyncedFields ==
    ASSUME NEW q, DOMAIN q.options = OptionFields, DOMAIN q.options.text = TextFields
    PROVE  LET p == [q.options EXCEPT !.effort = Wired(q)]
           IN /\ IsSynced(p, q.meta.injected, Former(q), IF q.selected = Absent THEN Bare ELSE q.selected,
                          SyncedTo(q))
              /\ p.effort = Wired(q) /\ p.text = q.options.text
              /\ p.summary = q.options.summary /\ p.verbosity = q.options.verbosity
              /\ p.parallel = q.options.parallel /\ p.encrypted = q.options.encrypted
<1> DEFINE p == [q.options EXCEPT !.effort = Wired(q)]
<1>1. /\ p.effort = Wired(q) /\ DOMAIN p = OptionFields /\ p.text = q.options.text
      /\ p.summary = q.options.summary /\ p.verbosity = q.options.verbosity
      /\ p.parallel = q.options.parallel /\ p.encrypted = q.options.encrypted
      /\ DOMAIN p.text = TextFields
  BY DEF OptionFields
<1>2. SyncedTo(q) = SyncScope(p, q.meta.injected, Former(q), q.selected)
  BY DEF SyncedTo
<1> HIDE DEF p
<1>3. IsSynced(p, q.meta.injected, Former(q), IF q.selected = Absent THEN Bare ELSE q.selected, SyncedTo(q))
  BY <1>1, <1>2, SyncFits
<1> QED
  BY <1>1, <1>3 DEF p

LEMMA HostValuesKept == ScopeInv => HostValuesSurvive
<1> SUFFICES ASSUME ScopeInv, NEW r \in Requests, Sent(r), Own(r), NEW f \in Fields \ request[r].injected,
                    f = "effort" => request[r].options.effort # "ultra"
             PROVE  request[r].sent[f] = request[r].options[f]
  BY DEF HostValuesSurvive
<1> DEFINE q == request[r]
           p == [q.options EXCEPT !.effort = Wired(q)]
           next == IF q.selected = Absent THEN Bare ELSE q.selected
<1>1. /\ Prepared(q) /\ q.meta.injected \in {{}, q.injected}
      /\ q.sent.effort = SyncedTo(q).effort /\ q.sent.summary = SyncedTo(q).summary
      /\ q.sent.verbosity = SyncedTo(q).verbosity /\ q.sent.parallel = SyncedTo(q).parallel
  BY OwnSent
<1>2. /\ IsSynced(p, q.meta.injected, Former(q), next, SyncedTo(q))
      /\ p.effort = Wired(q) /\ p.summary = q.options.summary /\ p.verbosity = q.options.verbosity
      /\ p.parallel = q.options.parallel
  BY <1>1, SyncedFields DEF Prepared
<1>3. f \notin q.meta.injected /\ f \in {"effort", "summary", "verbosity", "parallel"}
  BY <1>1 DEF Fields
<1> HIDE DEF p, next
<1>4. CASE f = "effort"
  <2>1. SyncedTo(q).effort = Wired(q)
    BY <1>2, <1>3, <1>4 DEF IsSynced, Swap
  <2> QED
    BY <1>1, <1>4, <2>1 DEF Wired
<1>5. CASE f = "summary"
  <2>1. SyncedTo(q).summary = q.options.summary
    BY <1>2, <1>3, <1>5 DEF IsSynced, Swap, SwapSummary
  <2> QED
    BY <1>1, <1>5, <2>1
<1>6. CASE f = "verbosity"
  <2>1. SyncedTo(q).verbosity = q.options.verbosity
    BY <1>2, <1>3, <1>6 DEF IsSynced, Swap
  <2> QED
    BY <1>1, <1>6, <2>1
<1>7. CASE f = "parallel"
  <2>1. SyncedTo(q).parallel = q.options.parallel
    BY <1>2, <1>3, <1>7 DEF IsSynced, Swap
  <2> QED
    BY <1>1, <1>7, <2>1
<1> QED
  BY <1>3, <1>4, <1>5, <1>6, <1>7

LEMMA NoForeignDefaultSent == ScopeInv => NoForeignDefault
<1> SUFFICES ASSUME ScopeInv, NEW r \in Requests, Sent(r), request[r].meta.of = r,
                    request[r].scope # request[r].account, request[r].model # Absent,
                    request[r].previous = request[r].model, request[r].options.effort # "ultra",
                    NEW f \in {"effort", "verbosity", "parallel"},
                    request[r].given[f] = Absent, request[r].model[f] # Absent,
                    request[r].options[f] = request[r].model[f]
             PROVE  request[r].sent[f] = IF request[r].selected = Absent THEN Absent
                                         ELSE request[r].selected[f]
  BY DEF NoForeignDefault
<1> DEFINE q == request[r]
           p == [q.options EXCEPT !.effort = Wired(q)]
           next == IF q.selected = Absent THEN Bare ELSE q.selected
<1>1. /\ Prepared(q) /\ Noticed(r, q)
      /\ q.sent.effort = SyncedTo(q).effort
      /\ q.sent.verbosity = SyncedTo(q).verbosity /\ q.sent.parallel = SyncedTo(q).parallel
  BY OwnSent DEF Own
<1>2. /\ IsSynced(p, q.meta.injected, Former(q), next, SyncedTo(q))
      /\ p.effort = Wired(q) /\ p.verbosity = q.options.verbosity /\ p.parallel = q.options.parallel
  BY <1>1, SyncedFields DEF Prepared
<1>3. f \in q.meta.injected
  BY <1>1 DEF Noticed, Prepared, Injected, Fields
<1>4. Former(q) = q.model
  BY <1>1, RequestConstants DEF Prepared, Former, Moved, ScopeOf
<1>5. next[f] = IF q.selected = Absent THEN Absent ELSE q.selected[f]
  BY DEF Bare
<1>6. Wired(q) = q.options.effort
  BY DEF Wired
<1> HIDE DEF p, next
<1>7. SyncedTo(q)[f] = next[f] /\ SyncedTo(q)[f] = q.sent[f]
  <2>1. CASE f = "effort"
    BY <1>1, <1>2, <1>3, <1>4, <1>6, <2>1 DEF IsSynced, Swap
  <2>2. CASE f = "verbosity"
    BY <1>1, <1>2, <1>3, <1>4, <2>2 DEF IsSynced, Swap
  <2>3. CASE f = "parallel"
    BY <1>1, <1>2, <1>3, <1>4, <2>3 DEF IsSynced, Swap
  <2> QED
    BY <2>1, <2>2, <2>3
<1> QED
  BY <1>5, <1>7

LEMMA DelegatesEligible == ScopeInv => DelegatesWhereEligible
<1> SUFFICES ASSUME ScopeInv, NEW r \in Requests, Sent(r), request[r].sent.text.delegates
             PROVE  settings.ultra /\ request[r].selected # Absent /\ request[r].selected.ultra
  BY DEF DelegatesWhereEligible
<1> DEFINE q == request[r]
<1>1. Prepared(q) /\ q.sent = SentAs(q)
  BY DEF ScopeInv, RequestFits, Sent
<1>2. DOMAIN q.options = OptionFields /\ DOMAIN q.options.text = TextFields
      /\ (q.options.text.delegates => q.options.effort = "ultra")
  BY <1>1 DEF Prepared
<1>3. q.sent = Transform(q.options, Config, settings, q.meta.injected, q.meta.ultra, Former(q), q.selected)
  BY <1>1 DEF SentAs, Former
<1>4. IsSent(q.options, Config, settings, q.meta.injected, q.meta.ultra, Former(q), q.selected, q.sent)
  BY <1>2, <1>3, TransformFits
<1> QED
  BY <1>2, <1>4 DEF IsSent, Asked

LEMMA EncryptedFollowsSent == ScopeInv => EncryptedFollows
<1> SUFFICES ASSUME ScopeInv, NEW r \in Requests, Sent(r), Own(r), Reasons(request[r].sent.effort),
                    request[r].sent.summary # Absent
             PROVE  request[r].sent.encrypted
  BY DEF EncryptedFollows
<1> DEFINE q == request[r]
           p == [q.options EXCEPT !.effort = Wired(q)]
           next == IF q.selected = Absent THEN Bare ELSE q.selected
           synced == SyncedTo(q)
<1>1. /\ Prepared(q) /\ q.meta.injected \in {{}, q.injected}
      /\ Reasons(synced.effort) /\ synced.summary # Absent
      /\ q.sent.encrypted = synced.encrypted
  BY OwnSent
<1>2. /\ IsSynced(p, q.meta.injected, Former(q), next, synced)
      /\ p.effort = Wired(q) /\ p.summary = q.options.summary /\ p.encrypted = q.options.encrypted
  BY <1>1, SyncedFields DEF Prepared
<1> HIDE DEF p, next, synced
<1>3. Reasons(q.options.effort) <=> Reasons(Wired(q))
  BY RequestConstants DEF Reasons, Wired
<1>4. Reasons(Wired(q)) /\ q.options.summary # Absent => q.options.encrypted
  BY <1>1, <1>3 DEF Prepared
<1>5. CASE Former(q) = Absent
  BY <1>1, <1>2, <1>4, <1>5 DEF IsSynced
<1>6. CASE Former(q) # Absent
  <2>1. synced.summary = SwapSummary(p, q.meta.injected, Former(q), next)
    BY <1>2, <1>6 DEF IsSynced
  <2>2. "summary" \in q.meta.injected => q.options.summary # Absent
    BY <1>1 DEF Prepared, Injected
  <2>3. q.options.summary # Absent
    BY <1>1, <1>2, <2>1, <2>2 DEF SwapSummary, Swap
  <2>4. synced.summary # "none"
    BY <1>1, <1>2, <2>1, RequestConstants DEF SwapSummary, Swap, DefaultSummary, Prepared
  <2>5. AsksEncrypted(synced.effort, synced.summary, next)
    BY <1>1, <2>4 DEF AsksEncrypted
  <2>6. AsksEncrypted(Wired(q), q.options.summary, Former(q)) => q.options.encrypted
    BY <1>4, <2>3 DEF AsksEncrypted
  <2>7. synced.encrypted = IF AsksEncrypted(Wired(q), q.options.summary, Former(q)) THEN q.options.encrypted
                           ELSE TRUE
    BY <1>2, <1>6, <2>5 DEF IsSynced
  <2> QED
    BY <1>1, <2>6, <2>7
<1> QED
  BY <1>5, <1>6

LEMMA ValidSummariesSent == ScopeInv => OnlyValidSummaries
<1> SUFFICES ASSUME ScopeInv, NEW r \in Requests, request[r].pc = "sent", request[r].sent.summary # Absent
             PROVE  request[r].sent.summary \in Summaries
  BY DEF OnlyValidSummaries
<1> DEFINE q == request[r]
           wired == OnTheWire(q.options, settings, q.meta.ultra)
           p == [q.options EXCEPT !.effort = wired]
           next == IF q.selected = Absent THEN Bare ELSE q.selected
           synced == SyncScope(p, q.meta.injected, Former(q), q.selected)
<1>1. Prepared(q) /\ q.sent = SentAs(q) /\ ~q.sent.fatal
  BY DEF ScopeInv, RequestFits
<1>2. DOMAIN q.options = OptionFields /\ DOMAIN q.options.text = TextFields /\ q.options.summary # "none"
  BY <1>1 DEF Prepared
<1>3. q.sent = Transform(q.options, Config, settings, q.meta.injected, q.meta.ultra, Former(q), q.selected)
  BY <1>1 DEF SentAs, Former
<1>4. q.sent.summary = synced.summary /\ ~FatalSummary(synced, Config, next)
  <2>1. IsSent(q.options, Config, settings, q.meta.injected, q.meta.ultra, Former(q), q.selected, q.sent)
    BY <1>2, <1>3, TransformFits
  <2> QED
    BY <1>1, <2>1 DEF IsSent
<1> HIDE DEF wired
<1>5. DOMAIN p = OptionFields /\ p.summary = q.options.summary /\ DOMAIN p.text = TextFields
  BY <1>2 DEF OptionFields
<1> HIDE DEF p
<1>6. IsSynced(p, q.meta.injected, Former(q), next, synced)
  BY <1>5, SyncFits
<1> HIDE DEF synced, next
<1>7. synced.summary # "none"
  BY <1>2, <1>5, <1>6, RequestConstants DEF IsSynced, SwapSummary, Swap, DefaultSummary
<1>8. SummarySource(synced.summary, Reasons(synced.effort), Config.summary, next) = synced.summary
  <2> DEFINE rest == IF ~Reasons(synced.effort) THEN <<>> ELSE
                       <<Config.summary>> \o
                       (IF ~next.summaries THEN <<>>
                        ELSE <<IF next.summary = Absent THEN "auto" ELSE next.summary>>)
             S == {Config.summary, IF next.summary = Absent THEN "auto" ELSE next.summary}
  <2>1. rest \in Seq(S)
    <3>1. <<>> \in Seq(S) /\ <<Config.summary>> \in Seq(S)
          /\ <<IF next.summary = Absent THEN "auto" ELSE next.summary>> \in Seq(S)
      OBVIOUS
    <3> HIDE DEF S
    <3> QED
      BY <3>1
  <2>2. SummarySource(synced.summary, Reasons(synced.effort), Config.summary, next)
        = Chosen(<<synced.summary>> \o rest)
    BY DEF SummarySource
  <2> HIDE DEF rest, S
  <2> QED
    BY <1>4, <2>1, <2>2, FirstChosen
<1> QED
  BY <1>4, <1>7, <1>8 DEF FatalSummary

\* TakesOwn, of one request: two that wait under its message are never told apart.
OwnTaken(r) ==
  LET waiting == {pending[KeyOf[r]][i].of : i \in DOMAIN pending[KeyOf[r]]}
  IN request[r].pc = "params" /\ request'[r].pc = "headers" /\ r \in waiting
     => request'[r].meta.of \in {r, Absent}

LEMMA HeadersTakeOwn ==
    ASSUME ScopeInv, NEW r \in Requests, Headers(r) PROVE OwnTaken(r)
<1> DEFINE waiting == pending[KeyOf[r]]
           q == [request[r] EXCEPT !.pc = "headers", !.meta = Taken(waiting),
                                   !.scope = IF Taken(waiting).scope # Absent THEN Taken(waiting).scope
                                             ELSE active]
<1>1. DOMAIN request = Requests /\ DOMAIN request[r] = DOMAIN NewRequest /\ waiting \in Seq(NoteSet)
  BY DEF ScopeInv, RequestFits, MessageKeys
<1>2. request' = [request EXCEPT ![r] = q]
  BY DEF Headers, Becomes
<1>3. request'[r] = q
  BY <1>1, <1>2
<1>4. q.meta = Taken(waiting)
  BY <1>1 DEF NewRequest
<1> HIDE DEF q
<1>5. ASSUME r \in {waiting[i].of : i \in DOMAIN waiting} PROVE Taken(waiting).of \in {r, Absent}
  <2> HIDE DEF waiting
  <2>1. CASE Len(waiting) = 1
    BY <1>1, <1>5, <2>1 DEF Taken
  <2>2. CASE Len(waiting) # 1
    BY <2>2 DEF Taken, None
  <2> QED
    BY <2>1, <2>2
<1> QED
  BY <1>3, <1>4, <1>5 DEF OwnTaken

LEMMA OwnIsTaken ==
    ASSUME ScopeInv, ScopeNext, NEW r \in Requests PROVE OwnTaken(r)
<1> SUFFICES ASSUME request[r].pc = "params", request'[r].pc = "headers" PROVE OwnTaken(r)
  BY DEF OwnTaken
<1>0. DOMAIN request = Requests
  BY DEF ScopeInv
<1>1. request'[r] # request[r]
  OBVIOUS
<1>2. ASSUME NEW p \in Requests, NEW q, Becomes(p, q) PROVE p = r /\ q.pc = "headers"
  BY <1>0, <1>1, <1>2 DEF Becomes
<1>3. ASSUME NEW p \in Requests, RequestStep(p) PROVE Headers(r)
  <2>1. CASE Headers(p)
    <3>1. PICK q : Becomes(p, q)
      BY <2>1 DEF Headers
    <3> QED
      BY <1>2, <2>1, <3>1
  <2>2. CASE CatalogAwaited(p)
    BY <1>2, <2>2 DEF CatalogAwaited
  <2>3. CASE Send(p)
    BY <1>2, <2>3 DEF Send
  <2>4. CASE Rejected(p)
    BY <1>2, <2>4 DEF Rejected
  <2>5. CASE Ends(p) \/ Abort(p)
    <3>1. Becomes(p, Over)
      BY <2>5 DEF Ends, Abort
    <3>2. Over.pc = "done"
      BY DEF Over, NewRequest
    <3> QED
      BY <1>2, <3>1, <3>2
  <2>6. ASSUME NEW given \in Given[p], Params(p, given) PROVE FALSE
    <3>1. request[p].pc = "idle" /\ \E q : Becomes(p, q)
      BY <2>6 DEF Params, Publish
    <3> QED
      BY <1>2, <3>1
  <2>7. ASSUME NEW role \in Roles, AgentKnown(p, role) PROVE FALSE
    <3>1. request[p].pc = "agent" /\ \E q : Becomes(p, q)
      BY <2>7 DEF AgentKnown, Publish
    <3> QED
      BY <1>2, <3>1
  <2>8. ASSUME NEW s \in Scopes, Acquire(p, s) PROVE FALSE
    BY <1>2, <2>8 DEF Acquire
  <2> QED
    BY <1>3, <2>1, <2>2, <2>3, <2>4, <2>5, <2>6, <2>7, <2>8 DEF RequestStep
<1>4. \E p \in Requests : RequestStep(p)
  BY <1>1 DEF ScopeNext, OtherProvider, SessionDeleted, SetCatalog
<1> QED
  BY <1>3, <1>4, HeadersTakeOwn

-----------------------------------------------------------------------------
(* Custom models, one after the other                                      *)

IsCustoms(map, f) ==
  /\ f[0] = map
  /\ \A i \in 1..Len(Customs) : f[i] = Custom(f[i - 1], Customs[i])
  /\ WithCustoms(map) = f[Len(Customs)]

LEMMA CustomsUnfold == ASSUME NEW map PROVE \E f : IsCustoms(map, f)
<1> DEFINE N == Len(Customs)
           IsUpTo(f, m) == f = [i \in 0..m |-> IF i = 0 THEN map ELSE Custom(f[i - 1], Customs[i])]
           T == {m \in 0..N : \E f : IsUpTo(f, m)}
<1>1. N \in Nat
  BY ModelConstants
<1> HIDE DEF N
<1>2. 0 \in T
  <2>1. IsUpTo([i \in 0..0 |-> map], 0)
    OBVIOUS
  <2> HIDE DEF IsUpTo
  <2> QED
    BY <1>1, <2>1
<1>3. ASSUME NEW m \in 0..N, m \in T, m < N PROVE m + 1 \in T
  <2>1. PICK f : IsUpTo(f, m)
    BY <1>3
  <2> DEFINE g == [i \in 0..(m + 1) |-> IF i = m + 1 THEN Custom(f[m], Customs[m + 1]) ELSE f[i]]
  <2>2. m \in Nat /\ m + 1 \in 0..N
    BY <1>1, <1>3
  <2>3. ASSUME NEW i \in 0..(m + 1)
        PROVE  g[i] = IF i = 0 THEN map ELSE Custom(g[i - 1], Customs[i])
    <3>1. CASE i = m + 1
      <4>1. m \in 0..(m + 1) /\ i - 1 = m /\ m # m + 1 /\ i # 0
        BY <2>2, <3>1
      <4> QED
        BY <3>1, <4>1
    <3>2. CASE i # m + 1
      <4>1. i \in 0..m
        BY <2>2, <3>2
      <4>2. f[i] = IF i = 0 THEN map ELSE Custom(f[i - 1], Customs[i])
        BY <2>1, <4>1
      <4>3. i # 0 => i - 1 \in 0..(m + 1) /\ i - 1 # m + 1
        BY <2>2, <4>1
      <4> QED
        BY <3>2, <4>2, <4>3
    <3> QED
      BY <3>1, <3>2
  <2>4. IsUpTo(g, m + 1)
    <3>1. DOMAIN g = 0..(m + 1) /\ g = [i \in 0..(m + 1) |-> g[i]]
      OBVIOUS
    <3> HIDE DEF g
    <3> QED
      BY <2>3, <3>1
  <2> QED
    BY <2>2, <2>4
<1>4. N \in T
  <2> HIDE DEF T
  <2> QED
    BY <1>1, <1>2, <1>3, UpTo
<1> DEFINE f == CHOOSE f : IsUpTo(f, N)
<1>5. IsUpTo(f, N)
  BY <1>4
<1>6. WithCustoms(map) = f[N]
  BY DEF WithCustoms, N
<1> HIDE DEF f
<1>7. f[0] = map /\ \A i \in 1..N : f[i] = Custom(f[i - 1], Customs[i])
  BY <1>1, <1>5
<1> QED
  BY <1>6, <1>7 DEF IsCustoms, N

-----------------------------------------------------------------------------
(* What a map of models is                                                 *)

IsModel(m) == DOMAIN m = ModelFields
\* Where an entry comes from shows in its slug.
Stems(slug, m) == /\ IsModel(m)
                  /\ m.owner \in {"host", "catalog", "config", "custom", "alias"}
                  /\ m.owner \in {"catalog", "config"} => m.of = slug
                  /\ m.owner = "custom" => slug \in CustomSlugs
                  /\ m.owner = "alias" => m.generated
Modest(m) == ~ultraOn => m.effort # "ultra"
Sound(map) == \A slug \in DOMAIN map : Stems(slug, map[slug]) /\ Modest(map[slug])

LEMMA CatalogSound ==
    ASSUME NEW map, NEW catalog, Sound(map) PROVE Sound(FromCatalog(map, catalog))
<1> DEFINE offered == {slug \in DOMAIN catalog : catalog[slug].context # Unset}
           new == FromCatalog(map, catalog)
<1>1. /\ DOMAIN new = (DOMAIN map \ DOMAIN catalog) \cup offered
      /\ \A slug \in DOMAIN new : new[slug] = IF slug \in offered THEN Built(slug, catalog[slug], Under(map, slug))
                                              ELSE map[slug]
  BY DEF FromCatalog
<1> HIDE DEF new
<1>2. ASSUME NEW slug \in offered PROVE Stems(slug, Built(slug, catalog[slug], Under(map, slug)))
                                        /\ Modest(Built(slug, catalog[slug], Under(map, slug)))
  BY DEF Built, Stems, Modest, IsModel, ModelFields
<1> HIDE DEF offered
<1>3. ASSUME NEW slug \in DOMAIN new PROVE Stems(slug, new[slug]) /\ Modest(new[slug])
  BY <1>1, <1>2 DEF Sound
<1> QED
  BY <1>3 DEF Sound, new

\* A custom model, if its target is there.
CustomOf(map, custom) ==
  [map[custom.target] EXCEPT !.owner = "custom", !.of = custom.target,
                             !.on = @ \cup (custom.on \ map[custom.target].off)]
LEMMA CustomEffect ==
    ASSUME NEW map, NEW custom
    PROVE  LET new == Custom(map, custom)
           IN IF custom.target \in DOMAIN map
              THEN /\ DOMAIN new = DOMAIN map \cup {custom.slug}
                   /\ new[custom.slug] = CustomOf(map, custom)
                   /\ \A slug \in DOMAIN map \ {custom.slug} : new[slug] = map[slug]
              ELSE /\ DOMAIN new = DOMAIN map \ {custom.slug}
                   /\ \A slug \in DOMAIN new : new[slug] = map[slug]
BY DEF Custom, CustomOf, Without

LEMMA CustomOfFits ==
    ASSUME NEW map, NEW custom, IsModel(map[custom.target])
    PROVE  LET new == CustomOf(map, custom) target == map[custom.target]
           IN /\ IsModel(new) /\ new.owner = "custom" /\ new.of = custom.target
              /\ new.on = target.on \cup (custom.on \ target.off)
              /\ \A f \in ModelFields \ {"owner", "of", "on"} : new[f] = target[f]
BY DEF CustomOf, IsModel, ModelFields

LEMMA CustomSound ==
    ASSUME NEW map, NEW i \in DOMAIN Customs, Sound(map) PROVE Sound(Custom(map, Customs[i]))
<1> DEFINE custom == Customs[i]
           new == Custom(map, custom)
<1>1. custom.slug \in CustomSlugs
  BY DEF CustomSlugs
<1> HIDE DEF custom
<1>2. IF custom.target \in DOMAIN map
      THEN /\ DOMAIN new = DOMAIN map \cup {custom.slug}
           /\ new[custom.slug] = CustomOf(map, custom)
           /\ \A slug \in DOMAIN map \ {custom.slug} : new[slug] = map[slug]
      ELSE /\ DOMAIN new = DOMAIN map \ {custom.slug}
           /\ \A slug \in DOMAIN new : new[slug] = map[slug]
  BY CustomEffect
<1> HIDE DEF new
<1>3. ASSUME custom.target \in DOMAIN map
      PROVE Stems(custom.slug, CustomOf(map, custom)) /\ Modest(CustomOf(map, custom))
  <2>1. IsModel(map[custom.target]) /\ Modest(map[custom.target])
    BY <1>3 DEF Sound, Stems
  <2>2. LET c == CustomOf(map, custom) target == map[custom.target]
        IN /\ IsModel(c) /\ c.owner = "custom" /\ c.of = custom.target
           /\ c.on = target.on \cup (custom.on \ target.off)
           /\ \A f \in ModelFields \ {"owner", "of", "on"} : c[f] = target[f]
    BY <2>1, CustomOfFits
  <2>3. CustomOf(map, custom).effort = map[custom.target].effort
    BY <2>2 DEF ModelFields
  <2> QED
    BY <1>1, <2>1, <2>2, <2>3 DEF Stems, Modest
<1>4. ASSUME NEW slug \in DOMAIN new PROVE Stems(slug, new[slug]) /\ Modest(new[slug])
  BY <1>2, <1>3 DEF Sound
<1> QED
  BY <1>4 DEF Sound, new, custom

LEMMA CustomsSound == ASSUME NEW map, Sound(map) PROVE Sound(WithCustoms(map))
<1>1. PICK f : IsCustoms(map, f)
  BY CustomsUnfold
<1> DEFINE T == {m \in 0..Len(Customs) : Sound(f[m])}
<1>2. Len(Customs) \in Nat /\ DOMAIN Customs = 1..Len(Customs)
  BY ModelConstants
<1>3. 0 \in T
  BY <1>1, <1>2 DEF IsCustoms
<1>4. ASSUME NEW m \in 0..Len(Customs), m \in T, m < Len(Customs) PROVE m + 1 \in T
  <2>1. m + 1 \in 1..Len(Customs) /\ m + 1 \in 0..Len(Customs) /\ (m + 1) - 1 = m /\ m + 1 \in DOMAIN Customs
    BY <1>2, <1>4
  <2>2. f[m + 1] = Custom(f[m], Customs[m + 1])
    BY <1>1, <2>1 DEF IsCustoms
  <2>3. Sound(f[m])
    BY <1>4
  <2>4. Sound(f[m + 1])
    BY <2>1, <2>2, <2>3, CustomSound
  <2> QED
    BY <2>1, <2>4
<1>5. Len(Customs) \in T
  <2> HIDE DEF T
  <2> QED
    BY <1>2, <1>3, <1>4, UpTo
<1> QED
  BY <1>1, <1>5 DEF IsCustoms

-----------------------------------------------------------------------------
(* Aliases                                                                 *)

SlugOf(w) == AliasOf[w[1]][w[2]]
Wants(map, catalog, kinds) ==
  {w \in (DOMAIN Kept(map) \cap Bases) \X Kinds :
     w[2] \in Wanted(w[1], Kept(map)[w[1]], Under(catalog, w[1]), kinds)}
Made(map, catalog, kinds) ==
  {w \in Wants(map, catalog, kinds) : SlugOf(w) \notin DOMAIN Kept(map) \cup DOMAIN catalog}
Long(map, catalog, kinds, slug) ==
  {w \in Wants(map, catalog, kinds) : w[2] = "1m" /\ SlugOf(w) = slug}
AliasOfModel(map, w) == [Kept(map)[w[1]] EXCEPT !.owner = "alias", !.generated = TRUE, !.of = w[1]]
Copied(map, catalog, kinds, slug) ==
  IF slug \in DOMAIN Kept(map) THEN Kept(map)[slug]
  ELSE AliasOfModel(map, CHOOSE w \in Made(map, catalog, kinds) : SlugOf(w) = slug)
Lengthened(map, catalog, kinds, slug) ==
  IF Long(map, catalog, kinds, slug) = {} THEN Copied(map, catalog, kinds, slug)
  ELSE LET w == CHOOSE w \in Long(map, catalog, kinds, slug) : TRUE
       IN [Copied(map, catalog, kinds, slug) EXCEPT !.context = MaxContext(w[1], Under(catalog, w[1]))]

LEMMA AliasedEffect ==
    ASSUME NEW map, NEW catalog, NEW kinds
    PROVE  LET aliased == Aliased(map, catalog, kinds)
           IN /\ aliased.allowed = {SlugOf(w) : w \in Wants(map, catalog, kinds)}
              /\ DOMAIN aliased.map = DOMAIN Kept(map) \cup {SlugOf(w) : w \in Made(map, catalog, kinds)}
              /\ \A slug \in DOMAIN aliased.map :
                   aliased.map[slug] = Lengthened(map, catalog, kinds, slug)
<1> DEFINE kept == Kept(map)
           slugOf(w) == AliasOf[w[1]][w[2]]
           wanted == {w \in (DOMAIN kept \cap Bases) \X Kinds :
                        w[2] \in Wanted(w[1], kept[w[1]], Under(catalog, w[1]), kinds)}
           made == {w \in wanted : slugOf(w) \notin DOMAIN kept \cup DOMAIN catalog}
           copied == [slug \in DOMAIN kept \cup {slugOf(w) : w \in made} |->
                        IF slug \in DOMAIN kept THEN kept[slug]
                        ELSE LET w == CHOOSE w \in made : slugOf(w) = slug
                             IN [kept[w[1]] EXCEPT !.owner = "alias", !.generated = TRUE, !.of = w[1]]]
           long(slug) == {w \in wanted : w[2] = "1m" /\ slugOf(w) = slug}
           new == [slug \in DOMAIN copied |->
                     IF long(slug) = {} THEN copied[slug]
                     ELSE LET w == CHOOSE w \in long(slug) : TRUE
                          IN [copied[slug] EXCEPT !.context = MaxContext(w[1], Under(catalog, w[1]))]]
<1>1. Aliased(map, catalog, kinds) = [allowed |-> {slugOf(w) : w \in wanted}, map |-> new]
  BY DEF Aliased
<1>2. wanted = Wants(map, catalog, kinds)
  BY DEF Wants
<1>3. \A w : slugOf(w) = SlugOf(w)
  BY DEF SlugOf
<1> HIDE DEF wanted, slugOf, kept
<1>4. made = Made(map, catalog, kinds)
  BY <1>2, <1>3 DEF Made, kept
<1>5. \A slug : long(slug) = Long(map, catalog, kinds, slug)
  BY <1>2, <1>3 DEF Long
<1> HIDE DEF made, long
<1>6. /\ DOMAIN copied = DOMAIN Kept(map) \cup {SlugOf(w) : w \in Made(map, catalog, kinds)}
      /\ \A slug \in DOMAIN copied : copied[slug] = Copied(map, catalog, kinds, slug)
  BY <1>3, <1>4 DEF Copied, AliasOfModel, kept
<1> HIDE DEF copied
<1>7. DOMAIN new = DOMAIN copied /\ \A slug \in DOMAIN new : new[slug] = Lengthened(map, catalog, kinds, slug)
  BY <1>5, <1>6 DEF Lengthened
<1> HIDE DEF new
<1> QED
  BY <1>1, <1>2, <1>3, <1>6, <1>7

LEMMA KeptEffect ==
    ASSUME NEW map
    PROVE  /\ DOMAIN Kept(map) = {slug \in DOMAIN map : ~map[slug].generated}
           /\ \A slug \in DOMAIN Kept(map) : Kept(map)[slug] = map[slug]
BY DEF Kept, Without

\* An alias is made of the one base and the one kind that give its slug.
LEMMA AliasesApart ==
    ASSUME NEW u \in Bases \X Kinds, NEW v \in Bases \X Kinds, SlugOf(u) = SlugOf(v) PROVE u = v
<1>1. u[1] \in Bases /\ u[2] \in Kinds /\ v[1] \in Bases /\ v[2] \in Kinds
      /\ u = <<u[1], u[2]>> /\ v = <<v[1], v[2]>>
  OBVIOUS
<1>2. AliasOf[u[1]][u[2]] = AliasOf[v[1]][v[2]]
  BY DEF SlugOf
<1>3. u[1] = v[1] /\ u[2] = v[2]
  BY <1>1, <1>2, ModelConstants
<1> QED
  BY <1>1, <1>3
LEMMA AliasChosen ==
    ASSUME NEW map, NEW catalog, NEW kinds, NEW v \in Made(map, catalog, kinds), NEW slug, slug = SlugOf(v)
    PROVE  (CHOOSE w \in Made(map, catalog, kinds) : SlugOf(w) = slug) = v
<1> DEFINE u == CHOOSE w \in Made(map, catalog, kinds) : SlugOf(w) = slug
<1>1. u \in Made(map, catalog, kinds) /\ SlugOf(u) = SlugOf(v)
  OBVIOUS
<1> HIDE DEF u
<1>2. u \in Bases \X Kinds /\ v \in Bases \X Kinds
  BY <1>1 DEF Made, Wants
<1>3. u = v
  BY <1>1, <1>2, AliasesApart
<1> QED
  BY <1>3 DEF u
LEMMA LongOnly ==
    ASSUME NEW map, NEW catalog, NEW kinds, NEW v \in Wants(map, catalog, kinds)
    PROVE  Long(map, catalog, kinds, SlugOf(v)) = IF v[2] = "1m" THEN {v} ELSE {}
<1>1. \A w \in Wants(map, catalog, kinds) : SlugOf(w) = SlugOf(v) => w = v
  <2>1. \A w \in Wants(map, catalog, kinds) : w \in Bases \X Kinds
    BY DEF Wants
  <2> QED
    BY <2>1, AliasesApart
<1> QED
  BY <1>1 DEF Long

LEMMA AliasOfModelFits ==
    ASSUME NEW map, NEW w, IsModel(Kept(map)[w[1]])
    PROVE  /\ IsModel(AliasOfModel(map, w)) /\ AliasOfModel(map, w).owner = "alias"
           /\ AliasOfModel(map, w).of = w[1] /\ AliasOfModel(map, w).generated = TRUE
           /\ \A f \in ModelFields \ {"owner", "of", "generated"} : AliasOfModel(map, w)[f] = Kept(map)[w[1]][f]
BY DEF AliasOfModel, IsModel, ModelFields

LEMMA LengthenedFits ==
    ASSUME NEW map, NEW catalog, NEW kinds, NEW slug, IsModel(Copied(map, catalog, kinds, slug))
    PROVE  LET new == Lengthened(map, catalog, kinds, slug) old == Copied(map, catalog, kinds, slug)
           IN IsModel(new) /\ \A f \in ModelFields \ {"context"} : new[f] = old[f]
BY DEF Lengthened, IsModel, ModelFields

LEMMA CopiedFits ==
    ASSUME NEW map, NEW catalog, NEW kinds, Sound(map), NEW slug \in DOMAIN Aliased(map, catalog, kinds).map
    PROVE  LET new == Copied(map, catalog, kinds, slug)
           IN /\ Stems(slug, new) /\ Modest(new)
              /\ \/ slug \in DOMAIN Kept(map) /\ new = map[slug] /\ ~new.generated
                 \/ /\ slug \notin DOMAIN Kept(map)
                    /\ \E w \in Made(map, catalog, kinds) :
                         slug = SlugOf(w) /\ new = AliasOfModel(map, w)
<1>1. slug \in DOMAIN Kept(map) \cup {SlugOf(w) : w \in Made(map, catalog, kinds)}
  BY AliasedEffect
<1>2. CASE slug \in DOMAIN Kept(map)
  BY <1>2, KeptEffect DEF Copied, Sound
<1>3. CASE slug \notin DOMAIN Kept(map)
  <2>1. PICK w \in Made(map, catalog, kinds) : slug = SlugOf(w)
    BY <1>1, <1>3
  <2>2. Copied(map, catalog, kinds, slug) = AliasOfModel(map, w)
    <3>1. (CHOOSE v \in Made(map, catalog, kinds) : SlugOf(v) = slug) = w
      BY <2>1, AliasChosen
    <3> QED
      BY <1>3, <3>1 DEF Copied
  <2>3. w[1] \in DOMAIN Kept(map)
    BY DEF Made, Wants
  <2>4. IsModel(Kept(map)[w[1]]) /\ Modest(Kept(map)[w[1]])
    BY <2>3, KeptEffect DEF Sound, Stems
  <2>5. Stems(slug, AliasOfModel(map, w)) /\ Modest(AliasOfModel(map, w))
    <3> DEFINE m == AliasOfModel(map, w)
    <3>1. /\ IsModel(m) /\ m.owner = "alias" /\ m.of = w[1] /\ m.generated = TRUE
          /\ \A f \in ModelFields \ {"owner", "of", "generated"} : m[f] = Kept(map)[w[1]][f]
      BY <2>4 DEF AliasOfModel, IsModel, ModelFields
    <3>2. m.effort = Kept(map)[w[1]].effort
      BY <3>1 DEF ModelFields
    <3> HIDE DEF m
    <3>3. Stems(slug, m) /\ Modest(m)
      BY <2>4, <3>1, <3>2 DEF Stems, Modest
    <3> QED
      BY <3>3 DEF m
  <2> QED
    BY <1>3, <2>1, <2>2, <2>5
<1> QED
  BY <1>2, <1>3

LEMMA AliasedSound ==
    ASSUME NEW map, NEW catalog, NEW kinds, Sound(map) PROVE Sound(Aliased(map, catalog, kinds).map)
<1> DEFINE new == Aliased(map, catalog, kinds).map
<1> SUFFICES ASSUME NEW slug \in DOMAIN new PROVE Stems(slug, new[slug]) /\ Modest(new[slug])
  BY DEF Sound
<1>1. new[slug] = Lengthened(map, catalog, kinds, slug)
  BY AliasedEffect
<1>2. LET old == Copied(map, catalog, kinds, slug)
      IN /\ Stems(slug, old) /\ Modest(old)
         /\ \/ slug \in DOMAIN Kept(map) /\ old = map[slug] /\ ~old.generated
            \/ /\ slug \notin DOMAIN Kept(map)
               /\ \E w \in Made(map, catalog, kinds) :
                    slug = SlugOf(w) /\ old = AliasOfModel(map, w)
  BY CopiedFits
<1> DEFINE old == Copied(map, catalog, kinds, slug)
<1>3. IsModel(new[slug]) /\ \A f \in ModelFields \ {"context"} : new[slug][f] = old[f]
  BY <1>1, <1>2, LengthenedFits DEF Stems
<1> HIDE DEF new, old
<1> QED
  BY <1>2, <1>3 DEF Stems, Modest, ModelFields, old

LEMMA HiddenEffect ==
    ASSUME NEW map, Sound(map)
    PROVE  LET new == Hidden(map)
           IN /\ DOMAIN new = DOMAIN map /\ Sound(new)
              /\ ~ultraOn => \A slug \in DOMAIN new : "ultra" \notin new[slug].on
              /\ \A slug \in DOMAIN new : \A f \in ModelFields \ {"on"} : new[slug][f] = map[slug][f]
              /\ \A slug \in DOMAIN new :
                   new[slug].on = IF ultraOn THEN map[slug].on ELSE map[slug].on \ {"ultra"}
<1> DEFINE new == Hidden(map)
<1>1. /\ DOMAIN new = DOMAIN map
      /\ \A slug \in DOMAIN new : new[slug] = IF ultraOn THEN map[slug]
                                              ELSE [map[slug] EXCEPT !.on = @ \ {"ultra"}]
  BY DEF Hidden
<1> HIDE DEF new
<1>2. ASSUME NEW slug \in DOMAIN new
      PROVE  /\ IsModel(new[slug])
             /\ \A f \in ModelFields \ {"on"} : new[slug][f] = map[slug][f]
             /\ new[slug].on = IF ultraOn THEN map[slug].on ELSE map[slug].on \ {"ultra"}
             /\ Stems(slug, map[slug]) /\ Modest(map[slug])
  <2>1. Stems(slug, map[slug]) /\ Modest(map[slug]) /\ DOMAIN map[slug] = ModelFields
    BY <1>1 DEF Sound, Stems, IsModel
  <2>2. CASE ultraOn
    BY <1>1, <2>1, <2>2 DEF IsModel
  <2>3. CASE ~ultraOn
    <3>1. new[slug] = [map[slug] EXCEPT !.on = @ \ {"ultra"}]
      BY <1>1, <2>3
    <3> QED
      BY <2>1, <2>3, <3>1 DEF IsModel, ModelFields
  <2> QED
    BY <2>2, <2>3
<1>3. Sound(new)
  <2>1. \A slug \in DOMAIN new :
           /\ new[slug].owner = map[slug].owner /\ new[slug].of = map[slug].of
           /\ new[slug].generated = map[slug].generated /\ new[slug].effort = map[slug].effort
    BY <1>2 DEF ModelFields
  <2> QED
    BY <1>2, <2>1 DEF Sound, Stems, Modest
<1> QED
  BY <1>1, <1>2, <1>3 DEF new

-----------------------------------------------------------------------------
(* What a catalog makes of a map, and of none                              *)

AppliedFits(map, catalog) ==
  LET custom == WithCustoms(FromCatalog(map, catalog))
      aliased == Aliased(custom, catalog, AliasSettings["oauth"])
      allowed == DOMAIN catalog \cup aliased.allowed \cup CustomSlugs
      new == Applied(map, catalog)
  IN /\ Sound(custom) /\ Sound(aliased.map) /\ Sound(new)
     /\ DOMAIN new = DOMAIN aliased.map \cap allowed
     /\ ~ultraOn => \A slug \in DOMAIN new : "ultra" \notin new[slug].on
     /\ \A slug \in DOMAIN new :
          /\ \A f \in ModelFields \ {"on"} : new[slug][f] = aliased.map[slug][f]
          /\ new[slug].on = IF ultraOn THEN aliased.map[slug].on ELSE aliased.map[slug].on \ {"ultra"}
LEMMA AppliedEffect ==
    ASSUME NEW map, NEW catalog, Sound(map), catalog # Unset PROVE AppliedFits(map, catalog)
<1> DEFINE custom == WithCustoms(FromCatalog(map, catalog))
           aliased == Aliased(custom, catalog, AliasSettings["oauth"])
           allowed == DOMAIN catalog \cup aliased.allowed \cup CustomSlugs
           hidden == Hidden(aliased.map)
           new == Without(hidden, DOMAIN aliased.map \ allowed)
<1>1. Sound(custom)
  BY CatalogSound, CustomsSound
<1>2. Applied(map, catalog) = new
  BY DEF Applied
<1> HIDE DEF custom
<1>3. Sound(aliased.map)
  BY <1>1, AliasedSound
<1> HIDE DEF aliased
<1>4. /\ DOMAIN hidden = DOMAIN aliased.map /\ Sound(hidden)
      /\ ~ultraOn => \A slug \in DOMAIN hidden : "ultra" \notin hidden[slug].on
      /\ \A slug \in DOMAIN hidden : \A f \in ModelFields \ {"on"} : hidden[slug][f] = aliased.map[slug][f]
      /\ \A slug \in DOMAIN hidden :
           hidden[slug].on = IF ultraOn THEN aliased.map[slug].on ELSE aliased.map[slug].on \ {"ultra"}
  BY <1>3, HiddenEffect
<1> HIDE DEF hidden, allowed
<1>5. DOMAIN new = DOMAIN aliased.map \cap allowed /\ \A slug \in DOMAIN new : new[slug] = hidden[slug]
  BY <1>4 DEF Without
<1> HIDE DEF new
<1>6. Sound(new)
  BY <1>4, <1>5 DEF Sound
<1> QED
  BY <1>1, <1>2, <1>3, <1>4, <1>5, <1>6 DEF custom, aliased, allowed, AppliedFits

\* A custom model that replaces one of a catalog is made of that catalog, too, and
\* no alias for a long context has the slug of another model.
NamesApart ==
  /\ \A catalog \in ModelCatalogs, i \in DOMAIN Customs :
       Customs[i].slug \in DOMAIN catalog => Customs[i].target \in DOMAIN catalog
  /\ \A catalog \in ModelCatalogs, base \in Bases :
       "1m" \in Kinds => AliasOf[base]["1m"] \notin DOMAIN catalog \cup CustomSlugs

\* Two entries differ at most in the interface.
Same(a, b) == IsModel(a) /\ IsModel(b) /\ \A f \in ModelFields \ {"api"} : a[f] = b[f]
LEMMA SameIsSame == ASSUME NEW a, NEW b, Same(a, b) PROVE SameModel(a, b)
BY DEF Same, SameModel, IsModel, ModelFields

\* What comes of a catalog is the same in a map that had more before, and but for some
\* slugs what is there of a catalog's models comes of it.
Agrees(catalog, A, F, open) ==
  /\ Sound(A) /\ Sound(F) /\ DOMAIN F \subseteq DOMAIN A
  /\ \A slug \in DOMAIN F : Same(A[slug], F[slug]) /\ ~F[slug].generated
  /\ DOMAIN catalog \cap DOMAIN A \subseteq DOMAIN F
  /\ \A slug \in DOMAIN A \ open :
       A[slug].owner # "host" /\ ~A[slug].generated /\ A[slug].of \in DOMAIN catalog => slug \in DOMAIN F

LEMMA BuiltSame ==
    ASSUME NEW slug, NEW model, NEW before, NEW other
    PROVE  Same(Built(slug, model, before), Built(slug, model, other)) /\ ~Built(slug, model, other).generated
<1> DEFINE a == Built(slug, model, before)
           b == Built(slug, model, other)
<1>1. /\ a.of = b.of /\ a.owner = b.owner /\ a.generated = b.generated /\ a.context = b.context
      /\ a.on = b.on /\ a.off = b.off /\ a.fast = b.fast /\ a.effort = b.effort /\ a.text = b.text
      /\ DOMAIN a = ModelFields /\ DOMAIN b = ModelFields /\ b.generated = FALSE
  BY DEF Built, ModelFields
<1> HIDE DEF a, b
<1>2. Same(a, b) /\ ~b.generated
  BY <1>1 DEF Same, IsModel, ModelFields
<1> QED
  BY <1>2 DEF a, b

LEMMA CatalogAgrees ==
    ASSUME NEW map, NEW catalog, Sound(map)
    PROVE  Agrees(catalog, FromCatalog(map, catalog), FromCatalog(NoModels, catalog), CustomSlugs)
<1> DEFINE offered == {slug \in DOMAIN catalog : catalog[slug].context # Unset}
           A == FromCatalog(map, catalog)
           F == FromCatalog(NoModels, catalog)
<1>1. /\ DOMAIN A = (DOMAIN map \ DOMAIN catalog) \cup offered /\ DOMAIN F = offered
      /\ \A slug \in DOMAIN A \ offered : A[slug] = map[slug] /\ slug \notin DOMAIN catalog
      /\ \A slug \in offered : /\ A[slug] = Built(slug, catalog[slug], Under(map, slug))
                               /\ F[slug] = Built(slug, catalog[slug], Under(NoModels, slug))
                               /\ slug \in DOMAIN catalog
  BY DEF FromCatalog, NoModels
<1>2. Sound(NoModels)
  BY DEF Sound, NoModels
<1>3. Sound(A) /\ Sound(F)
  BY <1>2, CatalogSound
<1>4. \A slug \in offered : Same(A[slug], F[slug]) /\ ~F[slug].generated
  BY <1>1, BuiltSame
<1> HIDE DEF offered, A, F
<1>5. ASSUME NEW slug \in DOMAIN A \ CustomSlugs, A[slug].owner # "host", ~A[slug].generated,
             A[slug].of \in DOMAIN catalog, slug \notin offered
      PROVE  FALSE
  <2>1. Stems(slug, map[slug]) /\ A[slug] = map[slug] /\ slug \notin DOMAIN catalog
    BY <1>1, <1>5 DEF Sound
  <2> QED
    BY <1>5, <2>1 DEF Stems
<1> QED
  BY <1>1, <1>3, <1>4, <1>5 DEF Agrees, A, F

LEMMA CustomAgrees ==
    ASSUME NamesApart, NEW catalog \in ModelCatalogs, NEW i \in DOMAIN Customs,
           NEW A, NEW F, NEW open, Agrees(catalog, A, F, open)
    PROVE  Agrees(catalog, Custom(A, Customs[i]), Custom(F, Customs[i]), open \ {Customs[i].slug})
<1> DEFINE c == Customs[i]
           B == Custom(A, c)
           G == Custom(F, c)
<1>1. Sound(B) /\ Sound(G)
  BY CustomSound DEF Agrees
<1>2. IF c.target \in DOMAIN A
      THEN /\ DOMAIN B = DOMAIN A \cup {c.slug}
           /\ B[c.slug] = CustomOf(A, c)
           /\ \A slug \in DOMAIN A \ {c.slug} : B[slug] = A[slug]
      ELSE /\ DOMAIN B = DOMAIN A \ {c.slug}
           /\ \A slug \in DOMAIN B : B[slug] = A[slug]
  BY CustomEffect
<1>3. IF c.target \in DOMAIN F
      THEN /\ DOMAIN G = DOMAIN F \cup {c.slug}
           /\ G[c.slug] = CustomOf(F, c)
           /\ \A slug \in DOMAIN F \ {c.slug} : G[slug] = F[slug]
      ELSE /\ DOMAIN G = DOMAIN F \ {c.slug}
           /\ \A slug \in DOMAIN G : G[slug] = F[slug]
  BY CustomEffect
<1>4. c.slug \in DOMAIN catalog => c.target \in DOMAIN catalog
  BY DEF NamesApart
<1> HIDE DEF c, B, G
<1>5. DOMAIN G \subseteq DOMAIN B
  BY <1>2, <1>3 DEF Agrees
<1>6. ASSUME c.target \in DOMAIN F
      PROVE  /\ Same(CustomOf(A, c), CustomOf(F, c)) /\ ~CustomOf(F, c).generated
             /\ c.target \in DOMAIN A
  <2>1. /\ Same(A[c.target], F[c.target]) /\ ~F[c.target].generated /\ c.target \in DOMAIN A
    BY <1>6 DEF Agrees
  <2>2. IsModel(A[c.target]) /\ IsModel(F[c.target])
    BY <2>1 DEF Same
  <2> DEFINE a == CustomOf(A, c) f == CustomOf(F, c)
  <2>3. /\ IsModel(a) /\ a.owner = "custom" /\ a.of = c.target
        /\ a.on = A[c.target].on \cup (c.on \ A[c.target].off)
        /\ \A g \in ModelFields \ {"owner", "of", "on"} : a[g] = A[c.target][g]
    BY <2>2 DEF CustomOf, IsModel, ModelFields
  <2>4. /\ IsModel(f) /\ f.owner = "custom" /\ f.of = c.target
        /\ f.on = F[c.target].on \cup (c.on \ F[c.target].off)
        /\ \A g \in ModelFields \ {"owner", "of", "on"} : f[g] = F[c.target][g]
    BY <2>2 DEF CustomOf, IsModel, ModelFields
  <2> HIDE DEF a, f
  <2>5. a.on = f.on
    BY <2>1, <2>3, <2>4 DEF Same, ModelFields
  <2>6. \A g \in ModelFields \ {"api", "owner", "of", "on"} : a[g] = f[g]
    BY <2>1, <2>3, <2>4 DEF Same
  <2>7. f.generated = F[c.target].generated
    BY <2>4 DEF ModelFields
  <2>8. Same(a, f)
    BY <2>3, <2>4, <2>5, <2>6 DEF Same
  <2> QED
    BY <2>1, <2>7, <2>8 DEF a, f
<1>7. ASSUME NEW slug \in DOMAIN G PROVE Same(B[slug], G[slug]) /\ ~G[slug].generated
  <2>1. CASE slug = c.slug
    BY <1>2, <1>3, <1>6, <2>1
  <2>2. CASE slug # c.slug
    <3>1. slug \in DOMAIN F /\ G[slug] = F[slug] /\ slug \in DOMAIN A
      BY <1>3, <2>2 DEF Agrees
    <3>2. B[slug] = A[slug]
      BY <1>2, <2>2, <3>1
    <3> QED
      BY <3>1, <3>2 DEF Agrees
  <2> QED
    BY <2>1, <2>2
<1>8. DOMAIN catalog \cap DOMAIN B \subseteq DOMAIN G
  BY <1>2, <1>3, <1>4 DEF Agrees
<1>9. ASSUME NEW slug \in DOMAIN B \ (open \ {c.slug}), B[slug].owner # "host", ~B[slug].generated,
             B[slug].of \in DOMAIN catalog
      PROVE  slug \in DOMAIN G
  <2>1. CASE slug = c.slug
    <3>1. c.target \in DOMAIN A /\ B[slug] = CustomOf(A, c)
      BY <1>2, <2>1
    <3>2. IsModel(A[c.target])
      BY <3>1 DEF Agrees, Sound, Stems
    <3>3. B[slug].of = c.target
      BY <3>1, <3>2 DEF CustomOf, IsModel, ModelFields
    <3> QED
      BY <1>3, <1>9, <2>1, <3>1, <3>3 DEF Agrees
  <2>2. CASE slug # c.slug
    <3>1. slug \in DOMAIN A \ open /\ B[slug] = A[slug]
      BY <1>2, <1>9, <2>2
    <3>2. slug \in DOMAIN F
      BY <1>9, <3>1 DEF Agrees
    <3> QED
      BY <1>3, <2>2, <3>2
  <2> QED
    BY <2>1, <2>2
<1> QED
  BY <1>1, <1>5, <1>7, <1>8, <1>9 DEF Agrees, c, B, G

LEMMA CustomsAgree ==
    ASSUME NamesApart, NEW catalog \in ModelCatalogs, NEW map, Sound(map)
    PROVE  Agrees(catalog, WithCustoms(FromCatalog(map, catalog)),
                  WithCustoms(FromCatalog(NoModels, catalog)), {})
<1> DEFINE A == FromCatalog(map, catalog)
           F == FromCatalog(NoModels, catalog)
           N == Len(Customs)
           Left(m) == {Customs[i].slug : i \in (m + 1)..N}
<1>1. PICK f : IsCustoms(A, f)
  BY CustomsUnfold
<1>2. PICK g : IsCustoms(F, g)
  BY CustomsUnfold
<1>3. N \in Nat /\ DOMAIN Customs = 1..N
  BY ModelConstants
<1>4. Agrees(catalog, A, F, CustomSlugs)
  BY CatalogAgrees
<1> HIDE DEF A, F
<1> DEFINE T == {m \in 0..N : Agrees(catalog, f[m], g[m], Left(m))}
<1>5. 0 \in T
  <2>1. Left(0) = CustomSlugs
    BY <1>3 DEF CustomSlugs
  <2> HIDE DEF Left, N
  <2> QED
    BY <1>1, <1>2, <1>3, <1>4, <2>1 DEF IsCustoms
<1>6. ASSUME NEW m \in 0..N, m \in T, m < N PROVE m + 1 \in T
  <2>1. m + 1 \in 1..N /\ m + 1 \in 0..N /\ (m + 1) - 1 = m /\ m + 1 \in DOMAIN Customs
    BY <1>3, <1>6
  <2>2. f[m + 1] = Custom(f[m], Customs[m + 1]) /\ g[m + 1] = Custom(g[m], Customs[m + 1])
    BY <1>1, <1>2, <2>1 DEF IsCustoms
  <2>3. Agrees(catalog, f[m], g[m], Left(m))
    BY <1>6
  <2>4. Left(m) \ {Customs[m + 1].slug} \subseteq Left(m + 1)
    BY <1>3, <2>1
  <2> HIDE DEF Left
  <2>5. Agrees(catalog, f[m + 1], g[m + 1], Left(m) \ {Customs[m + 1].slug})
    BY <2>1, <2>2, <2>3, CustomAgrees
  <2>6. Agrees(catalog, f[m + 1], g[m + 1], Left(m + 1))
    BY <2>4, <2>5 DEF Agrees
  <2> QED
    BY <2>1, <2>6
<1>7. N \in T
  <2> HIDE DEF T, N
  <2> QED
    BY <1>3, <1>5, <1>6, UpTo
<1>8. Left(N) = {}
  BY <1>3
<1> HIDE DEF Left
<1> QED
  BY <1>1, <1>2, <1>7, <1>8 DEF IsCustoms, A, F

\* Where two maps agree, the bases of one catalog want the same aliases.
LEMMA WantedSame ==
    ASSUME NEW slug, NEW a, NEW b, NEW model, NEW kinds, Same(a, b)
    PROVE  Wanted(slug, a, model, kinds) = Wanted(slug, b, model, kinds)
<1>1. a.fast = b.fast /\ a.context = b.context
  BY DEF Same, ModelFields
<1> QED
  BY <1>1 DEF Wanted

LEMMA WantsAgree ==
    ASSUME NEW catalog, NEW kinds, NEW A, NEW F, Agrees(catalog, A, F, {})
    PROVE  /\ DOMAIN Kept(F) \subseteq DOMAIN Kept(A) /\ DOMAIN Kept(F) = DOMAIN F
           /\ \A slug \in DOMAIN F : Same(Kept(A)[slug], Kept(F)[slug])
           /\ Wants(F, catalog, kinds) \subseteq Wants(A, catalog, kinds)
           /\ \A w \in Wants(A, catalog, kinds) : w[1] \in DOMAIN F => w \in Wants(F, catalog, kinds)
<1>1. /\ DOMAIN Kept(A) = {slug \in DOMAIN A : ~A[slug].generated}
      /\ \A slug \in DOMAIN Kept(A) : Kept(A)[slug] = A[slug]
      /\ DOMAIN Kept(F) = {slug \in DOMAIN F : ~F[slug].generated}
      /\ \A slug \in DOMAIN Kept(F) : Kept(F)[slug] = F[slug]
  BY KeptEffect
<1>2. \A slug \in DOMAIN F : /\ Same(A[slug], F[slug]) /\ ~F[slug].generated /\ slug \in DOMAIN A
                             /\ ~A[slug].generated
  BY DEF Agrees, Same, ModelFields
<1>3. /\ DOMAIN Kept(F) = DOMAIN F /\ DOMAIN F \subseteq DOMAIN Kept(A)
      /\ \A slug \in DOMAIN F : Same(Kept(A)[slug], Kept(F)[slug])
  BY <1>1, <1>2
<1>4. \A slug \in DOMAIN F : Wanted(slug, Kept(A)[slug], Under(catalog, slug), kinds)
                             = Wanted(slug, Kept(F)[slug], Under(catalog, slug), kinds)
  BY <1>3, WantedSame
<1>5. ASSUME NEW w \in Wants(F, catalog, kinds) PROVE w \in Wants(A, catalog, kinds)
  <2>1. w \in (DOMAIN Kept(F) \cap Bases) \X Kinds
        /\ w[2] \in Wanted(w[1], Kept(F)[w[1]], Under(catalog, w[1]), kinds)
    BY DEF Wants
  <2>2. w[1] \in DOMAIN F /\ w \in (DOMAIN Kept(A) \cap Bases) \X Kinds
    BY <1>3, <2>1
  <2> QED
    BY <1>4, <2>1, <2>2 DEF Wants
<1>6. ASSUME NEW w \in Wants(A, catalog, kinds), w[1] \in DOMAIN F PROVE w \in Wants(F, catalog, kinds)
  <2>1. w \in (DOMAIN Kept(A) \cap Bases) \X Kinds
        /\ w[2] \in Wanted(w[1], Kept(A)[w[1]], Under(catalog, w[1]), kinds)
    BY DEF Wants
  <2>2. w \in (DOMAIN Kept(F) \cap Bases) \X Kinds
    BY <1>3, <1>6, <2>1
  <2> QED
    BY <1>4, <1>6, <2>1, <2>2 DEF Wants
<1> QED
  BY <1>3, <1>5, <1>6

LEMMA AliasSame ==
    ASSUME NEW A, NEW F, NEW w, Same(Kept(A)[w[1]], Kept(F)[w[1]])
    PROVE  Same(AliasOfModel(A, w), AliasOfModel(F, w))
<1>1. IsModel(Kept(A)[w[1]]) /\ IsModel(Kept(F)[w[1]])
  BY DEF Same
<1> DEFINE a == AliasOfModel(A, w) f == AliasOfModel(F, w)
<1>2. /\ IsModel(a) /\ a.owner = "alias" /\ a.of = w[1] /\ a.generated = TRUE
      /\ \A g \in ModelFields \ {"owner", "of", "generated"} : a[g] = Kept(A)[w[1]][g]
  BY <1>1 DEF AliasOfModel, IsModel, ModelFields
<1>3. /\ IsModel(f) /\ f.owner = "alias" /\ f.of = w[1] /\ f.generated = TRUE
      /\ \A g \in ModelFields \ {"owner", "of", "generated"} : f[g] = Kept(F)[w[1]][g]
  BY <1>1 DEF AliasOfModel, IsModel, ModelFields
<1> HIDE DEF a, f
<1>4. \A g \in ModelFields \ {"api", "owner", "of", "generated"} : a[g] = f[g]
  BY <1>2, <1>3 DEF Same
<1>5. Same(a, f)
  BY <1>2, <1>3, <1>4 DEF Same
<1> QED
  BY <1>5 DEF a, f

LEMMA LongerSame ==
    ASSUME NEW a, NEW f, NEW c, Same(a, f)
    PROVE  Same([a EXCEPT !.context = c], [f EXCEPT !.context = c])
BY DEF Same, IsModel, ModelFields

\* An alias whose base comes of the catalog is the one made of the catalog alone.
LEMMA MadeAgrees ==
    ASSUME NEW catalog, NEW kinds, NEW A, NEW F, Agrees(catalog, A, F, {}),
           NEW w \in Made(A, catalog, kinds), w[1] \in DOMAIN catalog
    PROVE  /\ w \in Made(F, catalog, kinds) /\ SlugOf(w) \notin DOMAIN F
           /\ Same(Lengthened(A, catalog, kinds, SlugOf(w)), Lengthened(F, catalog, kinds, SlugOf(w)))
<1>1. /\ DOMAIN Kept(F) \subseteq DOMAIN Kept(A) /\ DOMAIN Kept(F) = DOMAIN F
      /\ \A slug \in DOMAIN F : Same(Kept(A)[slug], Kept(F)[slug])
      /\ \A v \in Wants(A, catalog, kinds) : v[1] \in DOMAIN F => v \in Wants(F, catalog, kinds)
  BY WantsAgree
<1>2. w \in Wants(A, catalog, kinds) /\ SlugOf(w) \notin DOMAIN Kept(A) \cup DOMAIN catalog
  BY DEF Made
<1>3. w[1] \in DOMAIN A
  BY <1>2, KeptEffect DEF Wants
<1>4. w[1] \in DOMAIN F
  BY <1>3 DEF Agrees
<1>5. w \in Wants(F, catalog, kinds)
  BY <1>1, <1>2, <1>4
<1>6. w \in Made(F, catalog, kinds)
  BY <1>1, <1>2, <1>5 DEF Made
<1> DEFINE slug == SlugOf(w)
<1>7. slug \notin DOMAIN Kept(A) /\ slug \notin DOMAIN Kept(F)
  BY <1>1, <1>2
<1>8. Copied(A, catalog, kinds, slug) = AliasOfModel(A, w)
  <2>1. (CHOOSE v \in Made(A, catalog, kinds) : SlugOf(v) = slug) = w
    BY AliasChosen
  <2> HIDE DEF slug
  <2> QED
    BY <1>7, <2>1 DEF Copied
<1>9. Copied(F, catalog, kinds, slug) = AliasOfModel(F, w)
  <2>1. (CHOOSE v \in Made(F, catalog, kinds) : SlugOf(v) = slug) = w
    BY <1>6, AliasChosen
  <2> HIDE DEF slug
  <2> QED
    BY <1>7, <2>1 DEF Copied
<1>10. Same(AliasOfModel(A, w), AliasOfModel(F, w))
  BY <1>1, <1>4, AliasSame
<1>11. /\ Long(A, catalog, kinds, slug) = IF w[2] = "1m" THEN {w} ELSE {}
       /\ Long(F, catalog, kinds, slug) = IF w[2] = "1m" THEN {w} ELSE {}
  BY <1>2, <1>5, LongOnly
<1> HIDE DEF slug
<1>12. Same(Lengthened(A, catalog, kinds, slug), Lengthened(F, catalog, kinds, slug))
  <2>1. CASE w[2] = "1m"
    <3>1. (CHOOSE v \in {w} : TRUE) = w
      OBVIOUS
    <3>2. /\ Lengthened(A, catalog, kinds, slug)
             = [AliasOfModel(A, w) EXCEPT !.context = MaxContext(w[1], Under(catalog, w[1]))]
          /\ Lengthened(F, catalog, kinds, slug)
             = [AliasOfModel(F, w) EXCEPT !.context = MaxContext(w[1], Under(catalog, w[1]))]
      BY <1>8, <1>9, <1>11, <2>1, <3>1 DEF Lengthened
    <3> QED
      BY <1>10, <3>2, LongerSame
  <2>2. CASE w[2] # "1m"
    BY <1>8, <1>9, <1>10, <1>11, <2>2 DEF Lengthened
  <2> QED
    BY <2>1, <2>2
<1> QED
  BY <1>1, <1>6, <1>7, <1>12 DEF slug

\* A model that is kept and comes of the catalog is the one of the catalog alone.
LEMMA KeptAgrees ==
    ASSUME NamesApart, NEW catalog \in ModelCatalogs, NEW kinds, NEW A, NEW F, Agrees(catalog, A, F, {}),
           NEW slug \in DOMAIN Kept(A), A[slug].owner # "host", A[slug].of \in DOMAIN catalog
    PROVE  /\ slug \in DOMAIN F /\ slug \in DOMAIN catalog \cup CustomSlugs
           /\ Same(Lengthened(A, catalog, kinds, slug), Lengthened(F, catalog, kinds, slug))
<1>1. /\ DOMAIN Kept(F) = DOMAIN F
      /\ \A s \in DOMAIN F : Same(Kept(A)[s], Kept(F)[s])
      /\ Wants(F, catalog, kinds) \subseteq Wants(A, catalog, kinds)
  BY WantsAgree
<1>2. slug \in DOMAIN A /\ ~A[slug].generated
  BY KeptEffect
<1>3. slug \in DOMAIN F
  BY <1>2 DEF Agrees
<1>4. Stems(slug, A[slug])
  BY <1>2 DEF Agrees, Sound
<1>5. slug \in DOMAIN catalog \cup CustomSlugs
  BY <1>2, <1>4 DEF Stems
<1>6. Long(A, catalog, kinds, slug) = {}
  <2> SUFFICES ASSUME NEW w \in Long(A, catalog, kinds, slug) PROVE FALSE
    OBVIOUS
  <2>1. w \in Wants(A, catalog, kinds) /\ w[2] = "1m" /\ SlugOf(w) = slug
    BY DEF Long
  <2>2. w[1] \in Bases /\ w[2] \in Kinds
    BY <2>1 DEF Wants
  <2> QED
    BY <1>5, <2>1, <2>2 DEF NamesApart, SlugOf
<1>7. Long(F, catalog, kinds, slug) = {}
  BY <1>1, <1>6 DEF Long
<1>8. /\ Lengthened(A, catalog, kinds, slug) = Kept(A)[slug]
      /\ Lengthened(F, catalog, kinds, slug) = Kept(F)[slug]
  BY <1>1, <1>3, <1>6, <1>7 DEF Lengthened, Copied
<1> QED
  BY <1>1, <1>3, <1>5, <1>8

LEMMA HiddenSame ==
    ASSUME NEW a, NEW f, NEW b, NEW g, Same(a, f), IsModel(b), IsModel(g),
           \A x \in ModelFields \ {"on"} : b[x] = a[x] /\ g[x] = f[x],
           b.on = IF ultraOn THEN a.on ELSE a.on \ {"ultra"},
           g.on = IF ultraOn THEN f.on ELSE f.on \ {"ultra"}
    PROVE  Same(b, g)
<1>1. a.on = f.on
  BY DEF Same, ModelFields
<1>2. b.on = g.on
  BY <1>1
<1>3. \A x \in ModelFields \ {"api", "on"} : b[x] = g[x]
  BY DEF Same
<1> QED
  BY <1>2, <1>3 DEF Same

\* What is there of a catalog's models is what that alone makes of them.
FollowsAlone(map, catalog) ==
  /\ \A slug \in DOMAIN map : map[slug].owner # "host" /\ map[slug].of \in DOMAIN catalog =>
       slug \in DOMAIN Afresh(catalog) /\ SameModel(map[slug], Afresh(catalog)[slug])
  /\ DOMAIN Afresh(catalog) \subseteq DOMAIN map

LEMMA AppliedFollows ==
    ASSUME NamesApart, NEW catalog \in ModelCatalogs, catalog # Unset, NEW map, Sound(map)
    PROVE  FollowsAlone(Applied(map, catalog), catalog)
<1> DEFINE A == WithCustoms(FromCatalog(map, catalog))
           F == WithCustoms(FromCatalog(NoModels, catalog))
           K == AliasSettings["oauth"]
           a == Aliased(A, catalog, K)
           f == Aliased(F, catalog, K)
           B == Applied(map, catalog)
           G == Applied(NoModels, catalog)
<1>1. Agrees(catalog, A, F, {})
  BY CustomsAgree
<1>2. /\ Sound(B) /\ DOMAIN B = DOMAIN a.map \cap (DOMAIN catalog \cup a.allowed \cup CustomSlugs)
      /\ \A slug \in DOMAIN B :
           /\ \A x \in ModelFields \ {"on"} : B[slug][x] = a.map[slug][x]
           /\ B[slug].on = IF ultraOn THEN a.map[slug].on ELSE a.map[slug].on \ {"ultra"}
  <2>1. AppliedFits(map, catalog)
    BY AppliedEffect
  <2> QED
    BY <2>1 DEF AppliedFits
<1>3. /\ Sound(G) /\ DOMAIN G = DOMAIN f.map \cap (DOMAIN catalog \cup f.allowed \cup CustomSlugs)
      /\ \A slug \in DOMAIN G :
           /\ \A x \in ModelFields \ {"on"} : G[slug][x] = f.map[slug][x]
           /\ G[slug].on = IF ultraOn THEN f.map[slug].on ELSE f.map[slug].on \ {"ultra"}
  <2>1. Sound(NoModels)
    BY DEF Sound, NoModels
  <2>2. AppliedFits(NoModels, catalog)
    BY <2>1, AppliedEffect
  <2> QED
    BY <2>2 DEF AppliedFits
<1> HIDE DEF A, F, B, G, K
<1>4. /\ a.allowed = {SlugOf(w) : w \in Wants(A, catalog, K)}
      /\ DOMAIN a.map = DOMAIN Kept(A) \cup {SlugOf(w) : w \in Made(A, catalog, K)}
      /\ \A slug \in DOMAIN a.map : a.map[slug] = Lengthened(A, catalog, K, slug)
  BY AliasedEffect
<1>5. /\ f.allowed = {SlugOf(w) : w \in Wants(F, catalog, K)}
      /\ DOMAIN f.map = DOMAIN Kept(F) \cup {SlugOf(w) : w \in Made(F, catalog, K)}
      /\ \A slug \in DOMAIN f.map : f.map[slug] = Lengthened(F, catalog, K, slug)
  BY AliasedEffect
<1>6. /\ DOMAIN Kept(F) \subseteq DOMAIN Kept(A) /\ DOMAIN Kept(F) = DOMAIN F
      /\ Wants(F, catalog, K) \subseteq Wants(A, catalog, K)
  BY <1>1, WantsAgree
<1>7. \A slug \in DOMAIN a.map : /\ Stems(slug, Copied(A, catalog, K, slug))
                                 /\ IsModel(a.map[slug])
                                 /\ \A x \in ModelFields \ {"context"} :
                                      a.map[slug][x] = Copied(A, catalog, K, slug)[x]
  <2> SUFFICES ASSUME NEW slug \in DOMAIN a.map
               PROVE  /\ Stems(slug, Copied(A, catalog, K, slug)) /\ IsModel(a.map[slug])
                      /\ \A x \in ModelFields \ {"context"} :
                           a.map[slug][x] = Copied(A, catalog, K, slug)[x]
    OBVIOUS
  <2>1. Sound(A)
    BY <1>1 DEF Agrees
  <2>2. LET new == Copied(A, catalog, K, slug)
        IN /\ Stems(slug, new) /\ Modest(new)
           /\ \/ slug \in DOMAIN Kept(A) /\ new = A[slug] /\ ~new.generated
              \/ /\ slug \notin DOMAIN Kept(A)
                 /\ \E w \in Made(A, catalog, K) : slug = SlugOf(w) /\ new = AliasOfModel(A, w)
    BY <2>1, CopiedFits
  <2> QED
    BY <1>4, <2>2, LengthenedFits DEF Stems
<1> HIDE DEF a, f
<1>8. DOMAIN G \subseteq DOMAIN B
  <2>1. f.allowed \subseteq a.allowed
    BY <1>4, <1>5, <1>6
  <2>2. DOMAIN f.map \subseteq DOMAIN a.map
    <3>1. ASSUME NEW w \in Made(F, catalog, K) PROVE SlugOf(w) \in DOMAIN a.map
      BY <1>4, <1>6 DEF Made
    <3> QED
      BY <1>4, <1>5, <1>6, <3>1
  <2> QED
    BY <1>2, <1>3, <2>1, <2>2
<1>9. ASSUME NEW slug \in DOMAIN B, B[slug].owner # "host", B[slug].of \in DOMAIN catalog
      PROVE  slug \in DOMAIN G /\ Same(a.map[slug], f.map[slug])
  <2>1. slug \in DOMAIN a.map
    BY <1>2
  <2>2. B[slug].owner = Copied(A, catalog, K, slug).owner /\ B[slug].of = Copied(A, catalog, K, slug).of
    BY <1>2, <1>7, <2>1 DEF ModelFields
  <2>3. CASE slug \in DOMAIN Kept(A)
    <3>1. Copied(A, catalog, K, slug) = A[slug]
      BY <2>3, KeptEffect DEF Copied
    <3>2. /\ slug \in DOMAIN F /\ slug \in DOMAIN catalog \cup CustomSlugs
          /\ Same(Lengthened(A, catalog, K, slug), Lengthened(F, catalog, K, slug))
      BY <1>1, <1>9, <2>2, <2>3, <3>1, KeptAgrees
    <3> QED
      BY <1>3, <1>4, <1>5, <1>6, <2>1, <3>2
  <2>4. CASE slug \notin DOMAIN Kept(A)
    <3>1. PICK w \in Made(A, catalog, K) : slug = SlugOf(w)
      BY <1>4, <2>1, <2>4
    <3>2. Copied(A, catalog, K, slug).of = w[1]
      <4>1. (CHOOSE v \in Made(A, catalog, K) : SlugOf(v) = slug) = w
        BY <3>1, AliasChosen
      <4>2. Copied(A, catalog, K, slug) = AliasOfModel(A, w)
        BY <2>4, <4>1 DEF Copied
      <4>3. w[1] \in DOMAIN Kept(A)
        BY DEF Made, Wants
      <4>4. Kept(A)[w[1]] = A[w[1]] /\ w[1] \in DOMAIN A
        BY <4>3, KeptEffect
      <4>5. IsModel(Kept(A)[w[1]])
        BY <1>1, <4>4 DEF Agrees, Sound, Stems
      <4> QED
        BY <4>2, <4>5 DEF AliasOfModel, IsModel, ModelFields
    <3>3. /\ w \in Made(F, catalog, K) /\ SlugOf(w) \notin DOMAIN F
          /\ Same(Lengthened(A, catalog, K, SlugOf(w)), Lengthened(F, catalog, K, SlugOf(w)))
      BY <1>1, <1>9, <2>2, <3>2, MadeAgrees
    <3>4. w \in Wants(F, catalog, K)
      BY <3>3 DEF Made
    <3> QED
      BY <1>3, <1>4, <1>5, <2>1, <3>1, <3>3, <3>4
  <2> QED
    BY <2>3, <2>4
<1>10. ASSUME NEW slug \in DOMAIN B, B[slug].owner # "host", B[slug].of \in DOMAIN catalog
       PROVE  slug \in DOMAIN G /\ SameModel(B[slug], G[slug])
  <2>1. slug \in DOMAIN G /\ Same(a.map[slug], f.map[slug])
    BY <1>9, <1>10
  <2>2. IsModel(B[slug]) /\ IsModel(G[slug])
    BY <1>2, <1>3, <2>1 DEF Sound, Stems
  <2>3. /\ \A x \in ModelFields \ {"on"} : B[slug][x] = a.map[slug][x] /\ G[slug][x] = f.map[slug][x]
        /\ B[slug].on = IF ultraOn THEN a.map[slug].on ELSE a.map[slug].on \ {"ultra"}
        /\ G[slug].on = IF ultraOn THEN f.map[slug].on ELSE f.map[slug].on \ {"ultra"}
    BY <1>2, <1>3, <2>1
  <2>4. Same(B[slug], G[slug])
    BY <2>1, <2>2, <2>3, HiddenSame
  <2> QED
    BY <2>1, <2>4, SameIsSame
<1> QED
  BY <1>8, <1>10 DEF FollowsAlone, Afresh, B, G

-----------------------------------------------------------------------------
(* The configuration                                                       *)

NoUltraIn(map) == \A slug \in DOMAIN map : "ultra" \notin map[slug].on

LEMMA DisabledEffect ==
    ASSUME NEW map, Sound(map)
    PROVE  Sound(Disabled(map)) /\ (~ultraOn => NoUltraIn(Disabled(map)))
<1> DEFINE new == Disabled(map)
<1>1. /\ DOMAIN new = DOMAIN map
      /\ \A slug \in DOMAIN new :
           new[slug] = IF ultraOn \/ "ultra" \notin map[slug].on THEN map[slug]
                       ELSE [map[slug] EXCEPT !.on = @ \ {"ultra"}, !.off = @ \cup {"ultra"}]
  BY DEF Disabled
<1> HIDE DEF new
<1>2. ASSUME NEW slug \in DOMAIN new
      PROVE  Stems(slug, new[slug]) /\ Modest(new[slug]) /\ (~ultraOn => "ultra" \notin new[slug].on)
  <2>1. Stems(slug, map[slug]) /\ Modest(map[slug]) /\ DOMAIN map[slug] = ModelFields
    BY <1>1 DEF Sound, Stems, IsModel
  <2>2. CASE ultraOn \/ "ultra" \notin map[slug].on
    BY <1>1, <2>1, <2>2
  <2>3. CASE ~(ultraOn \/ "ultra" \notin map[slug].on)
    <3> DEFINE m == map[slug]
    <3>1. new[slug] = [m EXCEPT !.on = @ \ {"ultra"}, !.off = @ \cup {"ultra"}]
      BY <1>1, <2>3
    <3>2. DOMAIN m = ModelFields /\ Stems(slug, m) /\ Modest(m)
      BY <2>1
    <3> HIDE DEF m
    <3>3. /\ DOMAIN new[slug] = ModelFields /\ new[slug].on = m.on \ {"ultra"}
          /\ \A f \in ModelFields \ {"on", "off"} : new[slug][f] = m[f]
      BY <3>1, <3>2 DEF ModelFields
    <3>4. /\ new[slug].owner = m.owner /\ new[slug].of = m.of
          /\ new[slug].generated = m.generated /\ new[slug].effort = m.effort
      BY <3>3 DEF ModelFields
    <3> QED
      BY <3>2, <3>3, <3>4 DEF Stems, Modest, IsModel
  <2> QED
    BY <2>2, <2>3
<1> QED
  BY <1>2 DEF Sound, NoUltraIn, new

LEMMA OverriddenSound ==
    ASSUME NEW map, NEW catalog, Sound(map) PROVE Sound(Overridden(map, catalog))
<1> DEFINE told == {slug \in DOMAIN catalog : catalog[slug].efforts # {}}
           entry(slug) == IF slug \in DOMAIN map THEN map[slug] ELSE NewEntry(slug)
           on(slug) == Supported(catalog[slug])
           off(slug) == (VariantKeys \cup catalog[slug].efforts) \ on(slug)
           new == Overridden(map, catalog)
<1>1. /\ DOMAIN new = DOMAIN map \cup told
      /\ \A slug \in DOMAIN new :
           new[slug] = IF slug \notin told THEN map[slug]
                       ELSE [entry(slug) EXCEPT !.on = (@ \cup on(slug)) \ off(slug),
                                                !.off = (@ \cup off(slug)) \ on(slug)]
  BY DEF Overridden
<1> HIDE DEF new, told, on, off
<1>2. ASSUME NEW slug \in DOMAIN new PROVE Stems(slug, new[slug]) /\ Modest(new[slug])
  <2>1. CASE slug \notin told
    BY <1>1, <2>1 DEF Sound
  <2>2. CASE slug \in told
    <3> DEFINE m == entry(slug)
    <3>1. Stems(slug, m) /\ Modest(m)
      <4>1. Stems(slug, NewEntry(slug)) /\ Modest(NewEntry(slug))
        BY ModelConstants DEF NewEntry, Stems, Modest, IsModel, ModelFields
      <4> QED
        BY <4>1 DEF Sound
    <3>2. new[slug] = [m EXCEPT !.on = (@ \cup on(slug)) \ off(slug), !.off = (@ \cup off(slug)) \ on(slug)]
      BY <1>1, <2>2
    <3> HIDE DEF m
    <3>3. DOMAIN m = ModelFields
      BY <3>1 DEF Stems, IsModel
    <3>4. DOMAIN new[slug] = ModelFields /\ \A f \in ModelFields \ {"on", "off"} : new[slug][f] = m[f]
      BY <3>2, <3>3 DEF ModelFields
    <3>5. /\ new[slug].owner = m.owner /\ new[slug].of = m.of
          /\ new[slug].generated = m.generated /\ new[slug].effort = m.effort
      BY <3>4 DEF ModelFields
    <3> QED
      BY <3>1, <3>4, <3>5 DEF Stems, Modest, IsModel
  <2> QED
    BY <2>1, <2>2
<1> QED
  BY <1>2 DEF Sound, new

LEMMA HostSound ==
    ASSUME NEW host \in HostModels PROVE Sound(host)
BY ModelConstants DEF Sound, Stems, Modest, IsModel

LEMMA NoModelsSound == Sound(NoModels) /\ NoUltraIn(NoModels)
BY DEF Sound, NoModels, NoUltraIn

\* Copies offer what their base does.
LEMMA AliasedNoUltra ==
    ASSUME NEW map, NEW catalog, NEW kinds, Sound(map), NoUltraIn(map)
    PROVE  NoUltraIn(Aliased(map, catalog, kinds).map)
<1> DEFINE new == Aliased(map, catalog, kinds).map
<1> SUFFICES ASSUME NEW slug \in DOMAIN new PROVE "ultra" \notin new[slug].on
  BY DEF NoUltraIn
<1> DEFINE old == Copied(map, catalog, kinds, slug)
<1>1. new[slug] = Lengthened(map, catalog, kinds, slug)
  BY AliasedEffect
<1>2. /\ Stems(slug, old)
      /\ \/ slug \in DOMAIN Kept(map) /\ old = map[slug]
         \/ \E w \in Made(map, catalog, kinds) : old = AliasOfModel(map, w)
  BY CopiedFits
<1>3. new[slug].on = old.on
  <2>1. \A f \in ModelFields \ {"context"} : new[slug][f] = old[f]
    BY <1>1, <1>2, LengthenedFits DEF Stems
  <2> QED
    BY <2>1 DEF ModelFields
<1> HIDE DEF new, old
<1>4. CASE slug \in DOMAIN Kept(map) /\ old = map[slug]
  BY <1>3, <1>4, KeptEffect DEF NoUltraIn
<1>5. ASSUME NEW w \in Made(map, catalog, kinds), old = AliasOfModel(map, w) PROVE "ultra" \notin old.on
  <2>1. w[1] \in DOMAIN Kept(map)
    BY DEF Made, Wants
  <2>2. Kept(map)[w[1]] = map[w[1]] /\ w[1] \in DOMAIN map
    BY <2>1, KeptEffect
  <2>3. DOMAIN map[w[1]] = ModelFields
    BY <2>2 DEF Sound, Stems, IsModel
  <2>4. old.on = map[w[1]].on
    BY <1>5, <2>2, <2>3 DEF AliasOfModel, ModelFields
  <2> QED
    BY <2>2, <2>4 DEF NoUltraIn
<1> QED
  BY <1>2, <1>3, <1>4, <1>5

-----------------------------------------------------------------------------
(* The invariant                                                           *)

ModelInv ==
  /\ Sound(models)
  /\ current # Unset => linked /\ current \in ModelCatalogs
  /\ ~ultraOn => NoUltraIn(models) /\ NoUltraIn(config)

LEMMA ModelStarts == ModelInit => ModelInv
BY NoModelsSound DEF ModelInit, ModelInv

LEMMA ModelStep == ModelInv /\ ModelNext => ModelInv'
<1> SUFFICES ASSUME ModelInv, ModelNext PROVE ModelInv'
  OBVIOUS
<1> USE DEF ModelInv
<1>1. ASSUME NEW host \in HostModels, LoadOAuth(host) PROVE ModelInv'
  <2>1. Sound(host)
    BY HostSound
  <2>2. Sound(Hidden(host)) /\ (~ultraOn => NoUltraIn(Hidden(host)))
    BY <2>1, HiddenEffect DEF NoUltraIn
  <2>3. /\ models' = Hidden(host) /\ linked' = TRUE
        /\ ultraOn' = ultraOn /\ current' = current /\ config' = config
    BY <1>1 DEF LoadOAuth
  <2>4. Sound(models')
    BY <2>2, <2>3
  <2>5. Sound(models)'
    BY <2>3, <2>4 DEF Sound, Modest, Stems, IsModel
  <2> QED
    BY <2>2, <2>3, <2>5 DEF NoUltraIn
<1>2. ASSUME NEW host \in HostModels, LoadKey(host) PROVE ModelInv'
  <2> DEFINE new == Aliased(Hidden(host), NoModels, AliasSettings["api"]).map
  <2>1. Sound(host)
    BY HostSound
  <2>2. Sound(Hidden(host)) /\ (~ultraOn => NoUltraIn(Hidden(host)))
    BY <2>1, HiddenEffect DEF NoUltraIn
  <2>3. Sound(new)
    BY <2>2, AliasedSound
  <2>4. ~ultraOn => NoUltraIn(new)
    BY <2>2, AliasedNoUltra
  <2>5. /\ models' = new /\ linked' = linked
        /\ ultraOn' = ultraOn /\ current' = current /\ config' = config
    BY <1>2 DEF LoadKey
  <2> HIDE DEF new
  <2>6. Sound(models)'
    BY <2>3, <2>5 DEF Sound, Modest, Stems, IsModel
  <2> QED
    BY <2>4, <2>5, <2>6 DEF NoUltraIn
<1>3. ASSUME NEW catalog \in ModelCatalogs \cup {Unset}, Apply(catalog) PROVE ModelInv'
  <2> DEFINE new == Applied(models, catalog)
  <2>1. /\ models' = new /\ current' = (IF catalog = Unset THEN current ELSE catalog)
        /\ ultraOn' = ultraOn /\ linked' = linked /\ linked /\ config' = config
    BY <1>3 DEF Apply
  <2>2. Sound(new) /\ (~ultraOn => NoUltraIn(new))
    <3>1. CASE catalog = Unset
      BY <3>1 DEF Applied
    <3>2. CASE catalog # Unset
      <4>1. AppliedFits(models, catalog)
        BY <3>2, AppliedEffect
      <4> QED
        BY <4>1 DEF AppliedFits, NoUltraIn
    <3> QED
      BY <3>1, <3>2
  <2> HIDE DEF new
  <2>3. Sound(models)'
    BY <2>1, <2>2 DEF Sound, Modest, Stems, IsModel
  <2> QED
    BY <2>1, <2>2, <2>3 DEF NoUltraIn
<1>4. ASSUME NEW given \in HostModels, NEW catalog \in ModelCatalogs \cup {Unset}, NEW failed \in BOOLEAN,
             Configure(given, catalog, failed)
      PROVE  ModelInv'
  <2> DEFINE hidden == Disabled(given)
             told == IF catalog = Unset THEN NoModels ELSE catalog
             custom == WithCustoms(Overridden(hidden, told))
             new == IF failed THEN hidden ELSE Disabled(Aliased(custom, told, AliasSettings["oauth"]).map)
  <2>1. /\ config' = new /\ ultraOn' = ultraOn /\ models' = models
        /\ linked' = linked /\ current' = current
    BY <1>4 DEF Configure
  <2>2. Sound(hidden) /\ (~ultraOn => NoUltraIn(hidden))
    BY HostSound, DisabledEffect
  <2>3. Sound(custom)
    BY <2>2, OverriddenSound, CustomsSound
  <2> HIDE DEF custom, hidden, told
  <2>4. ~ultraOn => NoUltraIn(new)
    BY <2>2, <2>3, AliasedSound, DisabledEffect
  <2> HIDE DEF new
  <2>5. Sound(models)'
    BY <2>1 DEF Sound, Modest, Stems, IsModel
  <2> QED
    BY <2>1, <2>4, <2>5 DEF NoUltraIn
<1> QED
  BY <1>1, <1>2, <1>3, <1>4 DEF ModelNext

LEMMA ModelStutters == ModelInv /\ UNCHANGED modelVars => ModelInv'
BY DEF ModelInv, modelVars, Sound, Modest, Stems, IsModel, NoUltraIn

LEMMA UltraOffFollows == ModelInv => NoUltraWhenOff
BY DEF ModelInv, NoUltraWhenOff, NoUltraIn, Sound, Modest, Ours

-----------------------------------------------------------------------------
(* What a catalog alone makes does not change                              *)

LEMMA BuiltStays ==
    ASSUME ultraOn' = ultraOn, NEW CONSTANT slug, NEW CONSTANT model, NEW CONSTANT before
    PROVE  Built(slug, model, before)' = Built(slug, model, before)
<1>1. Supported(model)' = Supported(model)
  BY DEF Supported
<1> QED
  BY <1>1 DEF Built
LEMMA FromCatalogStays ==
    ASSUME ultraOn' = ultraOn, NEW CONSTANT catalog
    PROVE  FromCatalog(NoModels, catalog)' = FromCatalog(NoModels, catalog)
<1>1. ASSUME NEW CONSTANT slug
      PROVE  Built(slug, catalog[slug], Under(NoModels, slug))' = Built(slug, catalog[slug], Under(NoModels, slug))
  BY BuiltStays
<1> QED
  BY <1>1 DEF FromCatalog
LEMMA AfreshStays ==
    ASSUME ultraOn' = ultraOn, NEW CONSTANT catalog PROVE Afresh(catalog)' = Afresh(catalog)
<1>1. FromCatalog(NoModels, catalog)' = FromCatalog(NoModels, catalog)
  BY FromCatalogStays
<1> QED
  BY <1>1 DEF Afresh, Applied, Hidden

\* MadeOfCurrentCatalog, of one catalog.
Follows(catalog) == linked /\ current = catalog /\ catalog # Unset => FollowsAlone(models, catalog)
FollowInv == \A catalog \in ModelCatalogs : Follows(catalog)

LEMMA FollowStarts == ModelInit => FollowInv
BY DEF ModelInit, FollowInv, Follows

LEMMA FollowUnchanged ==
    ASSUME UNCHANGED <<ultraOn, models, linked, current>>, NEW CONSTANT catalog, Follows(catalog)
    PROVE  Follows(catalog)'
<1>1. Afresh(catalog)' = Afresh(catalog)
  BY AfreshStays
<1> QED
  BY <1>1 DEF Follows, FollowsAlone, SameModel

LEMMA FollowStep == NamesApart /\ ModelInv /\ FollowInv /\ ModelNext => FollowInv'
<1> SUFFICES ASSUME NamesApart, ModelInv, FollowInv, ModelNext, NEW CONSTANT catalog \in ModelCatalogs
             PROVE  Follows(catalog)'
  BY DEF FollowInv
<1>0. Follows(catalog)
  BY DEF FollowInv
<1>1. ASSUME NEW host \in HostModels, LoadOAuth(host) PROVE Follows(catalog)'
  BY <1>1 DEF LoadOAuth, ModelInv, Follows
<1>2. ASSUME NEW host \in HostModels, LoadKey(host) PROVE Follows(catalog)'
  BY <1>2 DEF LoadKey, ModelInv, Follows
<1>3. ASSUME NEW next \in ModelCatalogs \cup {Unset}, Apply(next) PROVE Follows(catalog)'
  <2>1. CASE next = Unset
    <3>1. UNCHANGED <<ultraOn, models, linked, current>>
      BY <1>3, <2>1 DEF Apply, Applied
    <3> QED
      BY <1>0, <3>1, FollowUnchanged
  <2>2. CASE next # Unset
    <3>1. CASE catalog # next
      BY <1>3, <2>2, <3>1 DEF Apply, Follows
    <3>2. CASE catalog = next
      <4>1. FollowsAlone(Applied(models, catalog), catalog)
        BY <2>2, <3>2, AppliedFollows DEF ModelInv
      <4>2. models' = Applied(models, catalog) /\ ultraOn' = ultraOn
        BY <1>3, <3>2 DEF Apply
      <4>3. Afresh(catalog)' = Afresh(catalog)
        BY <4>2, AfreshStays
      <4> QED
        BY <4>1, <4>2, <4>3 DEF Follows, FollowsAlone, SameModel
    <3> QED
      BY <3>1, <3>2
  <2> QED
    BY <2>1, <2>2
<1>4. ASSUME NEW given \in HostModels, NEW other \in ModelCatalogs \cup {Unset}, NEW failed \in BOOLEAN,
             Configure(given, other, failed)
      PROVE  Follows(catalog)'
  BY <1>0, <1>4, FollowUnchanged DEF Configure
<1> QED
  BY <1>1, <1>2, <1>3, <1>4 DEF ModelNext

LEMMA FollowStutters == FollowInv /\ UNCHANGED modelVars => FollowInv'
<1> SUFFICES ASSUME FollowInv, UNCHANGED modelVars, NEW CONSTANT catalog \in ModelCatalogs
             PROVE  Follows(catalog)'
  BY DEF FollowInv
<1> QED
  BY FollowUnchanged DEF FollowInv, modelVars

LEMMA CurrentFollows == ModelInv /\ FollowInv => MadeOfCurrentCatalog
BY DEF ModelInv, FollowInv, Follows, FollowsAlone, MadeOfCurrentCatalog, Ours

-----------------------------------------------------------------------------
(* Accounts and domains                                                    *)

LEMMA ModesAre == AuthModes = {"native", "codex"}
BY DEF AuthModes, Modes, Range

\* The first element that passes a test is one that does.
LEMMA LeastIn ==
    ASSUME NEW I \in SUBSET Nat, I # {} PROVE Min(I) \in I /\ \A j \in I : Min(I) <= j
<1> SUFFICES ASSUME \A i \in I : \E j \in I : ~(i <= j) PROVE FALSE
  BY DEF Min
<1>1. PICK i \in I : TRUE
  OBVIOUS
<1> DEFINE T == {m \in 0..i : \A j \in I : j >= m}
<1>2. 0 \in T
  BY <1>1
<1>3. ASSUME NEW m \in 0..i, m \in T, m < i PROVE m + 1 \in T
  <2>1. m \notin I
    BY <1>3
  <2>2. \A j \in I : j >= m + 1
    BY <1>1, <1>3, <2>1
  <2> QED
    BY <1>1, <1>3, <2>2
<1>4. i \in T
  <2> HIDE DEF T
  <2> QED
    BY <1>1, <1>2, <1>3, UpTo
<1> QED
  BY <1>1, <1>4

LEMMA FirstFits ==
    ASSUME NEW s, Len(s) \in Nat, NEW I \in SUBSET (1..Len(s)), NEW i, i = IF I # {} THEN Min(I) ELSE 0
    PROVE  i \in Nat /\ (i # 0 => i \in I) /\ (i = 0 => I = {})
<1>1. I \in SUBSET Nat /\ 0 \notin I
  OBVIOUS
<1>2. I # {} => Min(I) \in I
  BY <1>1, LeastIn
<1> QED
  BY <1>1, <1>2

LEMMA HonestFits ==
    ASSUME NEW a
    PROVE  a \in Honest <=>
             /\ a \in Accounts
             /\ a.id \in {NoId, Owner[a.refresh]} /\ a.claim \in {NoId, Owner[a.refresh]}
             /\ a.key \in Ids => a.key = Owner[a.refresh]
<1>1. {a.id, a.claim} \subseteq {NoId, Owner[a.refresh]}
      <=> a.id \in {NoId, Owner[a.refresh]} /\ a.claim \in {NoId, Owner[a.refresh]}
  OBVIOUS
<1>2. a \in Honest
      <=> /\ a \in Accounts /\ {a.id, a.claim} \subseteq {NoId, Owner[a.refresh]}
          /\ a.key \in Ids => a.key = Owner[a.refresh]
  BY DEF Honest
<1> QED
  BY <1>1, <1>2

LEMMA NoneIsNoDomain == NoDomain \notin HonestDomain
<1>1. Seq(Honest) \subseteq Seq(Accounts)
  BY DEF Honest
<1> QED
  BY <1>1, AuthConstants DEF HonestDomain

\* A key of the fallback or of an unknown scheme is no identity.
LEMMA KeysApart ==
    /\ NoKey \notin Ids /\ NoKey \notin OddKeys /\ Ids \cap OddKeys = {}
    /\ \A q \in Partials, n \in Nat : /\ Fallback(q, n) \in Keys /\ Fallback(q, n) \notin Ids
                                         /\ Fallback(q, n) # NoKey
BY AuthConstants DEF Keys, Fallback

LEMMA NormalHonest ==
    ASSUME NEW a \in Honest PROVE Normal(a) \in Honest /\ Normal(Normal(a)) = Normal(a)
<1> DEFINE id == IF a.id = NoId THEN a.claim ELSE a.id
           b == [a EXCEPT !.id = id, !.key = IF id = NoId \/ a.key \in OddKeys THEN a.key ELSE id]
<1>1. Normal(a) = b
  BY DEF Normal
<1>2. /\ a \in Accounts /\ a.id \in {NoId, Owner[a.refresh]} /\ a.claim \in {NoId, Owner[a.refresh]}
      /\ a.key \in Ids => a.key = Owner[a.refresh]
  BY HonestFits
<1>3. id \in {NoId, Owner[a.refresh]} /\ id \in Ids \cup {NoId} /\ Ids \subseteq Keys
  BY <1>2 DEF Accounts, Keys
<1>4. /\ b \in Accounts /\ b.id = id /\ b.claim = a.claim /\ b.refresh = a.refresh
      /\ b.key = IF id = NoId \/ a.key \in OddKeys THEN a.key ELSE id
  BY <1>2, <1>3 DEF Accounts
<1>5. b \in Honest
  <2> HIDE DEF b
  <2>1. b.key \in Ids => b.key = Owner[b.refresh]
    BY <1>2, <1>3, <1>4
  <2> QED
    BY <1>2, <1>3, <1>4, <2>1, HonestFits
<1>6. Normal(b) = b
  <2>1. (IF b.id = NoId THEN b.claim ELSE b.id) = b.id
    BY <1>2, <1>4
  <2>2. (IF b.id = NoId \/ b.key \in OddKeys THEN b.key ELSE b.id) = b.key
    BY <1>4
  <2> HIDE DEF b
  <2>3. Normal(b) = [b EXCEPT !.id = b.id, !.key = b.key]
    BY <2>1, <2>2 DEF Normal
  <2> QED
    BY <1>4, <2>3 DEF Accounts
<1> QED
  BY <1>1, <1>5, <1>6

-----------------------------------------------------------------------------
(* Settling the active account                                             *)

LEMMA FirstUsableFits ==
    ASSUME NEW s \in Seq(Honest)
    PROVE  FirstUsable(s) \in Keys \cup {NoKey} /\ (FirstUsable(s) # NoKey => Usable(s, FirstUsable(s)))
<1> DEFINE I == {i \in 1..Len(s) : s[i].enabled /\ s[i].key # NoKey}
           i == IF I # {} THEN Min(I) ELSE 0
<1>1. SelectInSeq(s, LAMBDA a : a.enabled /\ a.key # NoKey) = i
  BY DEF SelectInSeq
<1>2. i \in Nat /\ (i # 0 => i \in I)
  BY FirstFits
<1>3. FirstUsable(s) = IF i = 0 THEN NoKey ELSE s[i].key
  BY <1>1 DEF FirstUsable
<1> HIDE DEF i
<1>4. CASE i = 0
  BY <1>3, <1>4
<1>5. CASE i # 0
  <2>1. i \in DOMAIN s /\ s[i].enabled /\ s[i].key # NoKey /\ s[i] \in Honest
    BY <1>2, <1>5
  <2>2. s[i].key \in Keys
    BY <2>1 DEF Honest, Accounts
  <2> QED
    BY <1>3, <1>5, <2>1, <2>2 DEF Usable
<1> QED
  BY <1>4, <1>5

LEMMA ReconcileFits ==
    ASSUME NEW d \in HonestDomain
    PROVE  /\ Reconcile(d) \in HonestDomain /\ Reconcile(d).accounts = d.accounts
           /\ Reconcile(Reconcile(d)) = Reconcile(d)
<1> DEFINE s == d.accounts
           chosen == IF Usable(s, d.active) THEN d.active ELSE FirstUsable(s)
           r == [d EXCEPT !.active = chosen]
<1>1. Reconcile(d) = r
  BY DEF Reconcile
<1>2. s \in Seq(Honest) /\ d.active \in Keys \cup {NoKey}
  BY DEF HonestDomain
<1>3. chosen \in Keys \cup {NoKey} /\ (chosen # NoKey => Usable(s, chosen))
  BY <1>2, FirstUsableFits
<1>4. (IF Usable(s, chosen) THEN chosen ELSE FirstUsable(s)) = chosen
  BY <1>2, <1>3, FirstUsableFits
<1> HIDE DEF chosen
<1>5. r \in HonestDomain /\ r.accounts = s /\ r.active = chosen
  BY <1>2, <1>3 DEF HonestDomain
<1>6. Reconcile(r) = r
  <2> HIDE DEF r, s
  <2>1. Reconcile(r) = [r EXCEPT !.active = chosen]
    BY <1>4, <1>5 DEF Reconcile
  <2> QED
    BY <1>5, <2>1 DEF HonestDomain
<1> QED
  BY <1>1, <1>5, <1>6

LEMMA HealFits ==
    ASSUME NEW d \in HonestDomain PROVE Heal(d) \in HonestDomain /\ Heal(Heal(d)) = Heal(d)
<1> DEFINE s == d.accounts
           t == [i \in DOMAIN s |-> Normal(s[i])]
           n == [d EXCEPT !.accounts = t]
           h == Reconcile(n)
<1>1. Heal(d) = h
  BY DEF Heal
<1>2. s \in Seq(Honest) /\ d.active \in Keys \cup {NoKey}
  BY DEF HonestDomain
<1>3. t \in Seq(Honest) /\ [i \in DOMAIN t |-> Normal(t[i])] = t
  <2>1. \A i \in DOMAIN s : t[i] \in Honest /\ Normal(t[i]) = t[i]
    BY <1>2, NormalHonest
  <2>2. DOMAIN s = 1..Len(s) /\ Len(s) \in Nat
    BY <1>2
  <2>3. t \in [1..Len(s) -> Honest]
    BY <2>1, <2>2
  <2>4. t \in Seq(Honest)
    BY <2>2, <2>3
  <2>5. [i \in DOMAIN t |-> Normal(t[i])] = t
    BY <2>1
  <2> QED
    BY <2>4, <2>5
<1> HIDE DEF t
<1>4. n \in HonestDomain /\ n.accounts = t
  BY <1>2, <1>3 DEF HonestDomain
<1> HIDE DEF n
<1>5. h \in HonestDomain /\ h.accounts = t /\ Reconcile(h) = h
  BY <1>4, ReconcileFits
<1> HIDE DEF h
<1>6. [h EXCEPT !.accounts = [i \in DOMAIN h.accounts |-> Normal(h.accounts[i])]] = h
  BY <1>3, <1>5 DEF HonestDomain
<1>7. Heal(h) = h
  BY <1>5, <1>6 DEF Heal
<1> QED
  BY <1>1, <1>5, <1>7

LEMMA NormaliseFits ==
    ASSUME NEW auth \in HonestAuths PROVE Normalise(auth) \in HonestAuths /\ Normalise(Normalise(auth)) = Normalise(auth)
<1> DEFINE n == Normalise(auth)
<1>1. n = [m \in AuthModes |-> IF auth[m] = NoDomain THEN NoDomain ELSE Heal(auth[m])]
  BY DEF Normalise
<1> HIDE DEF n
<1>2. ASSUME NEW m \in AuthModes
      PROVE  /\ n[m] \in HonestDomain \cup {NoDomain}
             /\ (IF n[m] = NoDomain THEN NoDomain ELSE Heal(n[m])) = n[m]
  <2>1. auth[m] \in HonestDomain \cup {NoDomain}
    BY DEF HonestAuths
  <2>2. CASE auth[m] = NoDomain
    BY <1>1, <2>2
  <2>3. CASE auth[m] # NoDomain
    <3>1. auth[m] \in HonestDomain /\ n[m] = Heal(auth[m])
      BY <1>1, <2>1, <2>3
    <3> QED
      BY <3>1, HealFits, NoneIsNoDomain
  <2> QED
    BY <2>2, <2>3
<1>3. n \in HonestAuths
  BY <1>1, <1>2 DEF HonestAuths
<1>4. Normalise(n) = n
  BY <1>1, <1>2 DEF Normalise
<1> QED
  BY <1>3, <1>4 DEF n

AuthInv == /\ stored \in HonestAuths /\ legacy \in HonestAuths
           /\ edits \in 0..MaxEdits /\ Normalise(stored) = stored

LEMMA SaveFits ==
    ASSUME AuthInv, edits < MaxEdits, NEW auth \in HonestAuths, NEW write, Save(auth, write)
    PROVE  AuthInv'
<1>1. edits' \in 0..MaxEdits /\ legacy' \in HonestAuths
  BY AuthConstants DEF AuthInv, Save
<1>2. stored' = Normalise(auth)
  BY DEF Save
<1>3. stored' \in HonestAuths /\ Normalise(stored') = stored'
  BY <1>2, NormaliseFits
<1> QED
  BY <1>1, <1>3 DEF AuthInv

-----------------------------------------------------------------------------
(* Logging in and refreshing                                               *)

LEMMA EnsuredFits ==
    ASSUME NEW auth \in HonestAuths, NEW m \in AuthModes
    PROVE  /\ Ensured(auth, m) \in HonestAuths /\ Ensured(auth, m)[m] \in HonestDomain
<1>1. [accounts |-> <<>>, active |-> NoKey] \in HonestDomain
  BY DEF HonestDomain
<1>2. auth[m] # NoDomain => auth[m] \in HonestDomain
  BY DEF HonestAuths
<1> QED
  BY <1>1, <1>2 DEF Ensured, HonestAuths

LEMMA LoginsHonest ==
    ASSUME NEW in \in Logins
    PROVE  in \in Honest /\ in.key = NoKey
<1>1. PICK r \in Refreshes, p \in Partials, e \in Expiries :
        in \in {Fresh(Owner[r], CHOOSE q \in Partials : TRUE, r, e), Fresh(NoId, p, r, e)}
  BY DEF Logins
<1>2. (CHOOSE q \in Partials : TRUE) \in Partials
  BY <1>1
<1>3. \E id \in {NoId, Owner[r]}, q \in Partials :
        in = [key |-> NoKey, id |-> id, part |-> q, claim |-> id, refresh |-> r, expires |-> e,
              enabled |-> TRUE]
  BY <1>1, <1>2 DEF Fresh, Account
<1>4. Owner[r] \in Ids /\ NoKey \notin Ids
  BY <1>1, AuthConstants, KeysApart
<1>5. PICK id \in {NoId, Owner[r]}, q \in Partials :
        in = [key |-> NoKey, id |-> id, part |-> q, claim |-> id, refresh |-> r, expires |-> e,
              enabled |-> TRUE]
  BY <1>3
<1>6. /\ in \in Accounts /\ in.key = NoKey
      /\ in.id \in {NoId, Owner[in.refresh]} /\ in.claim \in {NoId, Owner[in.refresh]}
  BY <1>1, <1>4, <1>5 DEF Accounts
<1> QED
  BY <1>4, <1>6, HonestFits

LEMMA LoginMatchFits ==
    ASSUME NEW s \in Seq(Honest), NEW in
    PROVE  LET i == LoginMatch(s, in)
           IN /\ i = 0 \/ i \in DOMAIN s
              /\ i # 0 => \/ in.id # NoId /\ s[i].id = in.id
                          \/ s[i].refresh = in.refresh
<1> DEFINE I == {i \in 1..Len(s) : in.id # NoId /\ s[i].id = in.id}
           strict == IF I # {} THEN Min(I) ELSE 0
           same == {i \in DOMAIN s : s[i].refresh = in.refresh}
           only == CHOOSE i \in same : TRUE
<1>1. SelectInSeq(s, LAMBDA a : in.id # NoId /\ a.id = in.id) = strict
  BY DEF SelectInSeq
<1>2. strict \in Nat /\ (strict # 0 => strict \in I)
  BY FirstFits
<1>3. Cardinality(same) = 1 => only \in same
  <2>1. same = {} => Cardinality(same) = 0
    BY FS_EmptySet
  <2> HIDE DEF same
  <2> QED
    BY <2>1
<1>4. LoginMatch(s, in) = IF strict # 0 THEN strict
                          ELSE IF Cardinality(same) = 1 /\ (in.id = NoId \/ s[only].id = NoId)
                          THEN only ELSE 0
  BY <1>1 DEF LoginMatch
<1>5. DOMAIN s = 1..Len(s)
  OBVIOUS
<1> HIDE DEF strict, only
<1> QED
  BY <1>2, <1>3, <1>4, <1>5

LEMMA UpsertFits ==
    ASSUME NEW s \in Seq(Honest), NEW in \in Honest
    PROVE  /\ Upsert(s, in)[1] \in Seq(Honest)
           /\ Upsert(s, in)[2].key \in Keys \cup {NoKey}
<1> DEFINE i == LoginMatch(s, in)
           byRefresh == i # 0 /\ ~(in.id # NoId /\ s[i].id = in.id)
           upgrades == ~byRefresh \/ (s[i].id = NoId /\ in.id # NoId)
           target == IF i = 0 THEN [in EXCEPT !.key = NoKey] ELSE s[i]
           named == IF upgrades THEN [target EXCEPT !.id = in.id, !.part = in.part] ELSE target
           key == IF named.id = NoId \/ target.key \in OddKeys THEN target.key ELSE named.id
           next == [in EXCEPT !.id = named.id, !.part = named.part, !.key = key]
<1>1. Upsert(s, in) = IF i = 0 THEN <<Append(s, next), next>> ELSE <<[s EXCEPT ![i] = next], next>>
  BY DEF Upsert
<1>2. /\ i = 0 \/ i \in DOMAIN s
      /\ i # 0 => \/ in.id # NoId /\ s[i].id = in.id
                  \/ s[i].refresh = in.refresh
  BY LoginMatchFits
<1> HIDE DEF i
<1>3. /\ in \in Accounts /\ in.id \in {NoId, Owner[in.refresh]} /\ in.claim \in {NoId, Owner[in.refresh]}
      /\ in.key \in Ids => in.key = Owner[in.refresh]
  BY HonestFits
<1>4. i # 0 => /\ s[i] \in Accounts /\ s[i].id \in {NoId, Owner[s[i].refresh]}
               /\ s[i].key \in Ids => s[i].key = Owner[s[i].refresh]
  BY <1>2, HonestFits
<1>5. target \in Accounts /\ (i = 0 => target.key = NoKey) /\ (i # 0 => target = s[i])
  BY <1>3, <1>4 DEF Accounts
<1> HIDE DEF target
<1>6. named \in Accounts /\ (upgrades => named.id = in.id) /\ (~upgrades => named = target)
  BY <1>3, <1>5 DEF Accounts
<1>7. named.id \in {NoId, Owner[in.refresh]}
  BY <1>2, <1>3, <1>4, <1>5, <1>6
<1>8. key \in Keys \cup {NoKey} /\ (key \in Ids => key = Owner[in.refresh])
  <2>1. CASE named.id = NoId
    <3>1. key = target.key
      BY <2>1
    <3>2. CASE i = 0
      BY <1>5, <3>1, <3>2, KeysApart
    <3>3. CASE i # 0
      <4>1. s[i].refresh = in.refresh
        BY <1>2, <1>5, <1>6, <2>1, <3>3
      <4> QED
        BY <1>4, <1>5, <3>1, <3>3, <4>1 DEF Accounts
    <3> QED
      BY <3>2, <3>3
  <2>2. CASE named.id # NoId /\ target.key \in OddKeys
    BY <2>2, KeysApart DEF Keys
  <2>3. CASE named.id # NoId /\ target.key \notin OddKeys
    BY <1>6, <1>7, <2>3 DEF Keys, Accounts
  <2> QED
    BY <2>1, <2>2, <2>3
<1> HIDE DEF key, named
<1>9. /\ next \in Accounts /\ next.id = named.id /\ next.key = key /\ next.claim = in.claim
      /\ next.refresh = in.refresh
  BY <1>3, <1>6, <1>8 DEF Accounts
<1> HIDE DEF next
<1>10. next \in Honest
  BY <1>3, <1>7, <1>8, <1>9, HonestFits
<1>11. Upsert(s, in)[2] = next
  BY <1>1
<1>12. CASE i = 0
  BY <1>1, <1>8, <1>9, <1>10, <1>12
<1>13. CASE i # 0
  <2>1. [s EXCEPT ![i] = next] \in Seq(Honest)
    BY <1>2, <1>10, <1>13
  <2> QED
    BY <1>1, <1>8, <1>9, <1>13, <2>1
<1> QED
  BY <1>12, <1>13

LEMMA LoginKeeps ==
    ASSUME AuthInv, edits < MaxEdits, NEW m \in AuthModes, NEW in \in Logins, Login(m, in)
    PROVE  AuthInv'
<1> DEFINE auth == Ensured(stored, m)
           result == Upsert(auth[m].accounts, in)
           chosen == IF result[2].key # NoKey THEN result[2].key ELSE auth[m].active
           new == [auth EXCEPT ![m] = [auth[m] EXCEPT !.accounts = result[1], !.active = chosen]]
<1>1. auth \in HonestAuths /\ auth[m] \in HonestDomain
  BY EnsuredFits DEF AuthInv
<1>2. Save([auth EXCEPT ![m].accounts = result[1],
                        ![m].active = IF result[2].key # NoKey THEN result[2].key ELSE @],
           Write("login", <<m, in>>))
  BY DEF Login
<1> HIDE DEF auth
<1>3. auth[m].accounts \in Seq(Honest) /\ auth[m].active \in Keys \cup {NoKey}
  BY <1>1 DEF HonestDomain
<1>4. result[1] \in Seq(Honest) /\ result[2].key \in Keys \cup {NoKey}
  BY <1>3, LoginsHonest, UpsertFits
<1> HIDE DEF result
<1>5. [auth EXCEPT ![m].accounts = result[1],
                   ![m].active = IF result[2].key # NoKey THEN result[2].key ELSE @] = new
  BY <1>1 DEF HonestAuths, HonestDomain
<1>6. new \in HonestAuths
  BY <1>1, <1>3, <1>4 DEF HonestAuths, HonestDomain
<1> HIDE DEF new
<1> QED
  BY <1>2, <1>5, <1>6, SaveFits

LEMMA RefreshedKeeps ==
    ASSUME AuthInv, edits < MaxEdits, NEW m \in AuthModes, NEW i \in 1..3, NEW tokens \in Issued,
           NEW activates \in BOOLEAN, Refreshed(m, i, tokens, activates)
    PROVE  AuthInv'
<1> DEFINE d == stored[m]
           a == d.accounts[i]
           b == [a EXCEPT !.claim = tokens.claim, !.refresh = tokens.refresh,
                          !.expires = tokens.expires]
           key == Normal(b).key
           chosen == IF activates /\ key # NoKey THEN key ELSE d.active
           new == [stored EXCEPT ![m] = [d EXCEPT !.accounts = [d.accounts EXCEPT ![i] = b],
                                                  !.active = chosen]]
           given == [stored EXCEPT ![m].accounts[i] = b,
                                   ![m].active = IF activates /\ key # NoKey THEN key ELSE @]
<1>1. /\ i \in DOMAIN AccountsOf(stored, m) /\ tokens.claim \in {NoId, Owner[a.refresh]}
      /\ Owner[tokens.refresh] = Owner[a.refresh]
      /\ Save(given, Write("refresh", <<m, i>>))
  BY DEF Refreshed
<1>2. stored \in HonestAuths
  BY DEF AuthInv
<1>3. d # NoDomain /\ d \in HonestDomain /\ i \in DOMAIN d.accounts
  BY <1>1, <1>2 DEF AccountsOf, HonestAuths
<1>4. a \in Honest /\ d.accounts \in Seq(Honest) /\ d.active \in Keys \cup {NoKey}
  BY <1>3 DEF HonestDomain
<1>5. b \in Honest
  <2>1. /\ a \in Accounts /\ a.id \in {NoId, Owner[a.refresh]} /\ a.claim \in {NoId, Owner[a.refresh]}
        /\ a.key \in Ids => a.key = Owner[a.refresh]
    BY <1>4, HonestFits
  <2> HIDE DEF a
  <2>2. /\ b \in Accounts /\ b.id = a.id /\ b.claim = tokens.claim /\ b.refresh = tokens.refresh
        /\ b.key = a.key
    BY <2>1 DEF Accounts, Issued
  <2> HIDE DEF b
  <2> QED
    BY <1>1, <2>1, <2>2, HonestFits
<1> HIDE DEF b
<1>9. key \in Keys \cup {NoKey}
  BY <1>5, NormalHonest DEF Honest, Accounts
<1> HIDE DEF key
<1>6. given = new
  BY <1>2, <1>3, <1>4 DEF HonestAuths, HonestDomain
<1>7. [d.accounts EXCEPT ![i] = b] \in Seq(Honest)
  BY <1>3, <1>4, <1>5
<1>8. new \in HonestAuths
  BY <1>2, <1>3, <1>4, <1>7, <1>9 DEF HonestAuths, HonestDomain
<1> HIDE DEF new, given
<1> QED
  BY <1>1, <1>6, <1>8, SaveFits

-----------------------------------------------------------------------------
(* Importing                                                               *)

\* What goes on from a value in S by steps that stay in S.
Unfolded(f, N, S, base, step) ==
  /\ f = [i \in 0..N |-> IF i = 0 THEN base ELSE step[<<f[i - 1], i>>]]
  /\ \A i \in 0..N : f[i] \in S
LEMMA Unfolds ==
    ASSUME NEW N \in Nat, NEW S, NEW base \in S, NEW step \in [S \X (1..N) -> S]
    PROVE  \E f : Unfolded(f, N, S, base, step)
<1> DEFINE IsUpTo(f, m) == /\ f = [i \in 0..m |-> IF i = 0 THEN base ELSE step[<<f[i - 1], i>>]]
                           /\ \A i \in 0..m : f[i] \in S
           T == {m \in 0..N : \E f : IsUpTo(f, m)}
<1>1. 0 \in T
  <2>1. IsUpTo([i \in 0..0 |-> base], 0)
    OBVIOUS
  <2> HIDE DEF IsUpTo
  <2> QED
    BY <2>1
<1>2. ASSUME NEW m \in 0..N, m \in T, m < N PROVE m + 1 \in T
  <2>1. PICK f : IsUpTo(f, m)
    BY <1>2
  <2> DEFINE g == [i \in 0..(m + 1) |-> IF i = m + 1 THEN step[<<f[m], m + 1>>] ELSE f[i]]
  <2>2. m \in Nat /\ m + 1 \in 0..N /\ m + 1 \in 1..N /\ m \in 0..m
    BY <1>2
  <2>3. ASSUME NEW i \in 0..(m + 1)
        PROVE  g[i] = (IF i = 0 THEN base ELSE step[<<g[i - 1], i>>]) /\ g[i] \in S
    <3>1. CASE i = m + 1
      <4>1. m \in 0..(m + 1) /\ i - 1 = m /\ m # m + 1 /\ i # 0 /\ f[m] \in S
        BY <2>1, <2>2, <3>1
      <4>2. g[i - 1] = f[m] /\ g[i] = step[<<f[m], i>>]
        BY <3>1, <4>1
      <4> QED
        BY <2>2, <3>1, <4>1, <4>2
    <3>2. CASE i # m + 1
      <4>1. i \in 0..m
        BY <2>2, <3>2
      <4>2. f[i] = (IF i = 0 THEN base ELSE step[<<f[i - 1], i>>]) /\ f[i] \in S
        BY <2>1, <4>1
      <4>3. i # 0 => i - 1 \in 0..(m + 1) /\ i - 1 # m + 1
        BY <2>2, <4>1
      <4> QED
        BY <3>2, <4>2, <4>3
    <3> QED
      BY <3>1, <3>2
  <2>4. IsUpTo(g, m + 1)
    <3>1. DOMAIN g = 0..(m + 1) /\ g = [i \in 0..(m + 1) |-> g[i]]
      OBVIOUS
    <3> HIDE DEF g
    <3> QED
      BY <2>3, <3>1
  <2> QED
    BY <2>2, <2>4
<1>3. N \in T
  <2> HIDE DEF T
  <2> QED
    BY <1>1, <1>2, UpTo
<1> QED
  BY <1>3 DEF Unfolded

LEMMA OneOf == ASSUME NEW S, Cardinality(S) = 1 PROVE (CHOOSE i \in S : TRUE) \in S
<1>1. S = {} => Cardinality(S) = 0
  BY FS_EmptySet
<1> QED
  BY <1>1

LEMMA ImportMatchFits ==
    ASSUME NEW s \in Seq(Honest), NEW in
    PROVE  LET i == ImportMatch(s, in)
           IN /\ i = 0 \/ i \in DOMAIN s
              /\ i # 0 => \/ in.key # NoKey /\ s[i].key = in.key
                          \/ in.id # NoId /\ s[i].id = in.id
                          \/ s[i].refresh = in.refresh
<1> DEFINE I == {i \in 1..Len(s) : \/ in.key # NoKey /\ s[i].key = in.key
                                   \/ in.id # NoId /\ s[i].id = in.id}
           strict == IF I # {} THEN Min(I) ELSE 0
           same == {i \in DOMAIN s : s[i].refresh = in.refresh /\ NoId \in {in.id, s[i].id}}
           only == CHOOSE i \in same : TRUE
<1>1. SelectInSeq(s, LAMBDA a : \/ in.key # NoKey /\ a.key = in.key
                                \/ in.id # NoId /\ a.id = in.id) = strict
  BY DEF SelectInSeq
<1>2. strict \in Nat /\ (strict # 0 => strict \in I)
  BY FirstFits
<1>3. Cardinality(same) = 1 => only \in same
  BY OneOf
<1>4. ImportMatch(s, in) = IF strict # 0 THEN strict
                           ELSE IF Cardinality(same) = 1 THEN only ELSE 0
  BY <1>1 DEF ImportMatch
<1>5. DOMAIN s = 1..Len(s)
  OBVIOUS
<1> HIDE DEF strict, only
<1> QED
  BY <1>2, <1>3, <1>4, <1>5

\* Where the two of them may be one account's, the winner may have the other's key.
LEMMA PreferredHonest ==
    ASSUME NEW old \in Honest, NEW in \in Honest,
           \/ in.key # NoKey /\ old.key = in.key
           \/ in.id # NoId /\ old.id = in.id
           \/ old.refresh = in.refresh
    PROVE  Preferred(old, in) \in Honest
<1> DEFINE winner == IF in.expires >= old.expires THEN in ELSE old
           loser == IF in.expires >= old.expires THEN old ELSE in
           key == IF winner.key = NoKey THEN loser.key ELSE winner.key
           new == [winner EXCEPT !.key = key]
<1>1. Preferred(old, in) = new
  BY DEF Preferred
<1>2. /\ winner \in Honest /\ loser \in Honest
      /\ \/ winner.key # NoKey
         \/ winner.id # NoId /\ loser.id = winner.id
         \/ loser.refresh = winner.refresh
  OBVIOUS
<1> HIDE DEF winner, loser
<1>3. /\ winner \in Accounts /\ winner.id \in {NoId, Owner[winner.refresh]}
      /\ winner.claim \in {NoId, Owner[winner.refresh]}
      /\ winner.key \in Ids => winner.key = Owner[winner.refresh]
  BY <1>2, HonestFits
<1>4. /\ loser \in Accounts /\ loser.id \in {NoId, Owner[loser.refresh]}
      /\ loser.key \in Ids => loser.key = Owner[loser.refresh]
  BY <1>2, HonestFits
<1>5. key \in Keys \cup {NoKey} /\ (key \in Ids => key = Owner[winner.refresh])
  BY <1>2, <1>3, <1>4 DEF Accounts
<1> HIDE DEF key
<1>6. new \in Accounts /\ new.id = winner.id /\ new.claim = winner.claim /\ new.key = key
      /\ new.refresh = winner.refresh
  BY <1>3, <1>5 DEF Accounts
<1> HIDE DEF new
<1> QED
  BY <1>1, <1>3, <1>5, <1>6, HonestFits

LEMMA ImportAccountFits ==
    ASSUME NEW s \in Seq(Honest), NEW account \in Honest PROVE ImportAccount(s, account) \in Seq(Honest)
<1> DEFINE in == Normal(account)
           i == ImportMatch(s, in)
<1>1. in \in Honest
  BY NormalHonest
<1>2. ImportAccount(s, account) = IF i = 0 THEN Append(s, in)
                                  ELSE [s EXCEPT ![i] = Normal(Preferred(s[i], in))]
  BY DEF ImportAccount
<1> HIDE DEF in
<1>3. /\ i = 0 \/ i \in DOMAIN s
      /\ i # 0 => \/ in.key # NoKey /\ s[i].key = in.key
                  \/ in.id # NoId /\ s[i].id = in.id
                  \/ s[i].refresh = in.refresh
  BY ImportMatchFits
<1> HIDE DEF i
<1>4. CASE i = 0
  BY <1>1, <1>2, <1>4
<1>5. CASE i # 0
  <2>1. i \in DOMAIN s /\ s[i] \in Honest
    BY <1>3, <1>5
  <2>2. Preferred(s[i], in) \in Honest
    BY <1>1, <1>3, <1>5, <2>1, PreferredHonest
  <2> DEFINE p == Preferred(s[i], in)
  <2> HIDE DEF p
  <2>3. Normal(p) \in Honest
    BY <2>2, NormalHonest DEF p
  <2>4. [s EXCEPT ![i] = Normal(p)] \in Seq(Honest)
    BY <2>1, <2>3
  <2> QED
    BY <1>2, <1>5, <2>4 DEF p
<1> QED
  BY <1>4, <1>5

\* The accounts that the n-th account of an import makes of those before.
Importing(f, d, source) ==
  /\ f[0] = d.accounts
  /\ \A n \in 0..Len(source.accounts) : f[n] \in Seq(Honest)
  /\ \A n \in 1..Len(source.accounts) : f[n] = ImportAccount(f[n - 1], source.accounts[n])
\* The active account of an import.
ImportActive(accounts, d, source) ==
  IF source.active # NoKey /\ \E i \in DOMAIN accounts : accounts[i].key = source.active
  THEN source.active ELSE d.active
LEMMA ImportUnfolds ==
    ASSUME NEW d \in HonestDomain, NEW source \in HonestDomain
    PROVE  \E f : /\ Importing(f, d, source)
                  /\ ImportDomain(d, source) = [accounts |-> f[Len(source.accounts)],
                                                active |-> ImportActive(f[Len(source.accounts)], d, source)]
<1> DEFINE N == Len(source.accounts)
           S == Seq(Honest)
           Added(s, n) == ImportAccount(s, source.accounts[n])
           IsUpTo(f) == f = [n \in 0..N |-> IF n = 0 THEN d.accounts ELSE Added(f[n - 1], n)]
           step == [p \in S \X (1..N) |-> Added(p[1], p[2])]
           f == CHOOSE f : IsUpTo(f)
           new == [accounts |-> f[N], active |-> ImportActive(f[N], d, source)]
<1>1. /\ N \in Nat /\ d.accounts \in S /\ source.accounts \in S
      /\ d.active \in Keys \cup {NoKey} /\ source.active \in Keys \cup {NoKey}
  BY DEF HonestDomain
<1>2. ImportDomain(d, source) = new
  BY DEF ImportDomain, ImportActive
<1>3. \A s \in S, n \in 1..N : Added(s, n) \in S
  <2>1. \A n \in 1..N : source.accounts[n] \in Honest
    BY <1>1
  <2> QED
    BY <2>1, ImportAccountFits
<1> HIDE DEF N, S, Added
<1>4. step \in [S \X (1..N) -> S] /\ \A s \in S, n \in 1..N : step[<<s, n>>] = Added(s, n)
  BY <1>3
<1> HIDE DEF step
<1>5. PICK g : Unfolded(g, N, S, d.accounts, step)
  BY <1>1, <1>4, Unfolds
<1>6. IsUpTo(g)
  <2>1. ASSUME NEW i \in 0..N
        PROVE  g[i] = IF i = 0 THEN d.accounts ELSE Added(g[i - 1], i)
    <3>1. i # 0 => i - 1 \in 0..N /\ i \in 1..N
      BY <1>1
    <3> QED
      BY <1>4, <1>5, <3>1 DEF Unfolded
  <2>2. g = [i \in 0..N |-> g[i]]
    BY <1>5 DEF Unfolded
  <2> QED
    BY <2>1, <2>2
<1>7. IsUpTo(f)
  BY <1>6
<1> HIDE DEF f
<1> DEFINE T == {n \in 0..N : f[n] \in S}
<1>8. 0 \in T
  BY <1>1, <1>7
<1>9. ASSUME NEW n \in 0..N, n \in T, n < N PROVE n + 1 \in T
  <2>1. n + 1 \in 1..N /\ n + 1 \in 0..N /\ (n + 1) - 1 = n /\ n + 1 # 0
    BY <1>1, <1>9
  <2>2. f[n + 1] = Added(f[n], n + 1)
    BY <1>7, <2>1
  <2> QED
    BY <1>3, <1>9, <2>1, <2>2
<1>10. \A n \in 0..N : f[n] \in S
  <2> HIDE DEF T
  <2>1. \A n \in 0..N : n \in T
    BY <1>1, <1>8, <1>9, Upward
  <2> QED
    BY <2>1 DEF T
<1>11. \A n \in 1..N : f[n] = Added(f[n - 1], n)
  BY <1>1, <1>7
<1>12. f[0] = d.accounts
  BY <1>1, <1>7
<1>13. Importing(f, d, source)
  BY <1>10, <1>11, <1>12 DEF Importing, N, S, Added
<1> QED
  BY <1>2, <1>13 DEF N

LEMMA ImportDomainFits ==
    ASSUME NEW d \in HonestDomain, NEW source \in HonestDomain PROVE ImportDomain(d, source) \in HonestDomain
<1> DEFINE N == Len(source.accounts)
<1>1. PICK f : /\ Importing(f, d, source)
               /\ ImportDomain(d, source) = [accounts |-> f[N], active |-> ImportActive(f[N], d, source)]
  BY ImportUnfolds
<1>2. d.active \in Keys \cup {NoKey} /\ source.active \in Keys \cup {NoKey} /\ N \in 0..N
  BY DEF HonestDomain
<1>3. f[N] \in Seq(Honest)
  BY <1>1, <1>2 DEF Importing
<1>4. ImportActive(f[N], d, source) \in Keys \cup {NoKey}
  BY <1>2 DEF ImportActive
<1> QED
  BY <1>1, <1>3, <1>4 DEF HonestDomain

LEMMA ImportKeeps == ASSUME AuthInv, edits < MaxEdits, Import PROVE AuthInv'
<1>1. stored \in HonestAuths /\ legacy \in HonestAuths
  BY DEF AuthInv
<1>2. ASSUME NEW m \in AuthModes
      PROVE  (IF legacy[m] = NoDomain THEN stored[m] ELSE ImportDomain(Ensured(stored, m)[m], legacy[m]))
             \in HonestDomain \cup {NoDomain}
  <2>1. stored[m] \in HonestDomain \cup {NoDomain} /\ legacy[m] \in HonestDomain \cup {NoDomain}
    BY <1>1 DEF HonestAuths
  <2>2. Ensured(stored, m)[m] \in HonestDomain
    BY <1>1, EnsuredFits
  <2> QED
    BY <2>1, <2>2, ImportDomainFits
<1>3. Imported(stored) \in HonestAuths
  BY <1>2 DEF Imported, HonestAuths
<1>4. Save(Imported(stored), Write("import", legacy))
  BY DEF Import
<1> QED
  BY <1>3, <1>4, SaveFits

-----------------------------------------------------------------------------
(* The list of all accounts                                                *)

LEMMA AddRowFits ==
    ASSUME NEW rows \in Seq(Honest), NEW a \in Honest PROVE AddRow(rows, a) \in Seq(Honest)
<1> DEFINE I == {i \in 1..Len(rows) : RowKey(rows[i]) = RowKey(a)}
           i == IF I # {} THEN Min(I) ELSE 0
<1>1. SelectInSeq(rows, LAMBDA r : RowKey(r) = RowKey(a)) = i
  BY DEF SelectInSeq
<1>2. i \in Nat /\ (i # 0 => i \in I)
  <2>1. Len(rows) \in Nat /\ I \in SUBSET (1..Len(rows))
    OBVIOUS
  <2> HIDE DEF I
  <2> QED
    BY <2>1, FirstFits
<1>3. AddRow(rows, a) = IF i = 0 THEN Append(rows, a) ELSE [rows EXCEPT ![i] = Fresher(rows[i], a)]
  BY <1>1 DEF AddRow
<1> HIDE DEF i
<1>4. ASSUME NEW b \in Honest PROVE Fresher(b, a) \in Honest
  <2> DEFINE c == IF a.expires > b.expires THEN a ELSE b
             e == b.enabled \/ a.enabled
  <2>1. Fresher(b, a) = [c EXCEPT !.enabled = e]
    BY DEF Fresher
  <2>2. c \in Honest /\ e \in BOOLEAN
    BY <1>4 DEF Honest, Accounts
  <2> HIDE DEF c, e
  <2>3. /\ c \in Accounts /\ c.id \in {NoId, Owner[c.refresh]} /\ c.claim \in {NoId, Owner[c.refresh]}
        /\ c.key \in Ids => c.key = Owner[c.refresh]
    BY <2>2, HonestFits
  <2> DEFINE d == [c EXCEPT !.enabled = e]
  <2>4. d \in Accounts /\ d.id = c.id /\ d.claim = c.claim /\ d.refresh = c.refresh /\ d.key = c.key
    BY <2>2, <2>3 DEF Accounts
  <2> HIDE DEF d
  <2>5. d \in Honest
    BY <2>3, <2>4, HonestFits
  <2> QED
    BY <2>1, <2>5 DEF d
<1>5. CASE i = 0
  BY <1>3, <1>5
<1>6. CASE i # 0
  <2>1. i \in DOMAIN rows /\ rows[i] \in Honest
    BY <1>2, <1>6
  <2>2. [rows EXCEPT ![i] = Fresher(rows[i], a)] \in Seq(Honest)
    BY <1>4, <2>1
  <2> QED
    BY <1>3, <1>6, <2>2
<1> QED
  BY <1>5, <1>6

\* What merging makes of records: each row is one of them, enabled only if one
\* of its key is.
RowOf(r, S) == /\ \E a \in S : r = [a EXCEPT !.enabled = r.enabled]
               /\ r.enabled => \E a \in S : RowKey(a) = RowKey(r) /\ a.enabled

LEMMA RowKeyStays ==
    ASSUME NEW a \in Honest, NEW e
    PROVE  RowKey([a EXCEPT !.enabled = e]) = RowKey(a)
<1>1. a \in Accounts
  BY DEF Honest
<1>2. [a EXCEPT !.enabled = e].key = a.key /\ [a EXCEPT !.enabled = e].part = a.part
  BY <1>1 DEF Accounts
<1> QED
  BY <1>2 DEF RowKey

LEMMA AddRowEffect ==
    ASSUME NEW S, S \subseteq Honest, NEW rows \in Seq(Honest), NEW a \in S,
           \A i \in DOMAIN rows : RowOf(rows[i], S)
    PROVE  \A i \in DOMAIN AddRow(rows, a) : RowOf(AddRow(rows, a)[i], S)
<1> DEFINE I == {i \in 1..Len(rows) : RowKey(rows[i]) = RowKey(a)}
           i == IF I # {} THEN Min(I) ELSE 0
           new == AddRow(rows, a)
<1>1. SelectInSeq(rows, LAMBDA r : RowKey(r) = RowKey(a)) = i
  BY DEF SelectInSeq
<1>2. i \in Nat /\ (i # 0 => i \in I)
  <2>1. Len(rows) \in Nat /\ I \in SUBSET (1..Len(rows))
    OBVIOUS
  <2> HIDE DEF I
  <2> QED
    BY <2>1, FirstFits
<1>3. new = IF i = 0 THEN Append(rows, a) ELSE [rows EXCEPT ![i] = Fresher(rows[i], a)]
  BY <1>1 DEF AddRow
<1> HIDE DEF i, new
<1>4. RowOf(a, S)
  <2>1. a \in Accounts
    BY DEF Honest
  <2>2. a = [a EXCEPT !.enabled = a.enabled]
    BY <2>1 DEF Accounts
  <2> QED
    BY <2>2 DEF RowOf
<1>5. CASE i = 0
  BY <1>3, <1>4, <1>5 DEF new
<1>6. CASE i # 0
  <2> DEFINE r == rows[i]
             c == IF a.expires > r.expires THEN a ELSE r
             e == r.enabled \/ a.enabled
             f == Fresher(r, a)
  <2>1. i \in DOMAIN rows /\ r \in Honest /\ RowKey(r) = RowKey(a) /\ RowOf(r, S)
    BY <1>2, <1>6
  <2>2. f = [c EXCEPT !.enabled = e]
    BY DEF Fresher
  <2>3. c \in Honest /\ RowKey(c) = RowKey(a) /\ RowOf(c, S)
    BY <1>4, <2>1
  <2>4. RowKey(f) = RowKey(a)
    <3> HIDE DEF c, e
    <3> QED
      BY <2>2, <2>3, RowKeyStays
  <2>5. e => \E b \in S : RowKey(b) = RowKey(a) /\ b.enabled
    BY <2>1 DEF RowOf
  <2> HIDE DEF c, e, r, f
  <2>6. f.enabled = e
    BY <2>2, <2>3 DEF Honest, Accounts
  <2>7. PICK b \in S : c = [b EXCEPT !.enabled = c.enabled]
    BY <2>3 DEF RowOf
  <2>8. f = [b EXCEPT !.enabled = e]
    <3>1. b \in Accounts
      BY <2>7 DEF Honest
    <3> QED
      BY <2>2, <2>7, <3>1 DEF Accounts
  <2>9. RowOf(f, S)
    BY <2>4, <2>5, <2>6, <2>8 DEF RowOf
  <2>10. DOMAIN new = DOMAIN rows /\ new[i] = f /\ \A j \in DOMAIN rows \ {i} : new[j] = rows[j]
    BY <1>3, <1>6, <2>1 DEF f, r
  <2> QED
    BY <2>9, <2>10 DEF new
<1> QED
  BY <1>5, <1>6

\* The rows that the accounts before the n-th make.
Grouping(f, accounts, keyed) ==
  /\ f[0] = <<>>
  /\ \A n \in 0..Len(accounts) : f[n] \in Seq(Honest)
  /\ \A n \in 1..Len(accounts) :
       f[n] = IF (accounts[n].key # NoKey) = keyed THEN AddRow(f[n - 1], accounts[n]) ELSE f[n - 1]
LEMMA GroupUnfolds ==
    ASSUME NEW accounts \in Seq(Honest), NEW keyed
    PROVE  \E f : Grouping(f, accounts, keyed) /\ Group(accounts, keyed) = f[Len(accounts)]
<1> DEFINE N == Len(accounts)
           S == Seq(Honest)
           Added(s, n) == IF (accounts[n].key # NoKey) = keyed THEN AddRow(s, accounts[n]) ELSE s
           IsUpTo(f) == f = [n \in 0..N |-> IF n = 0 THEN <<>> ELSE Added(f[n - 1], n)]
           step == [p \in S \X (1..N) |-> Added(p[1], p[2])]
           f == CHOOSE f : IsUpTo(f)
<1>1. N \in Nat /\ <<>> \in S
  OBVIOUS
<1>2. Group(accounts, keyed) = f[N]
  BY DEF Group
<1>3. \A s \in S, n \in 1..N : Added(s, n) \in S
  BY AddRowFits
<1> HIDE DEF N, S, Added
<1>4. step \in [S \X (1..N) -> S] /\ \A s \in S, n \in 1..N : step[<<s, n>>] = Added(s, n)
  BY <1>3
<1> HIDE DEF step
<1>5. PICK g : Unfolded(g, N, S, <<>>, step)
  BY <1>1, <1>4, Unfolds
<1>6. IsUpTo(g)
  <2>1. ASSUME NEW i \in 0..N
        PROVE  g[i] = IF i = 0 THEN <<>> ELSE Added(g[i - 1], i)
    <3>1. i # 0 => i - 1 \in 0..N /\ i \in 1..N
      BY <1>1
    <3> QED
      BY <1>4, <1>5, <3>1 DEF Unfolded
  <2>2. g = [i \in 0..N |-> g[i]]
    BY <1>5 DEF Unfolded
  <2> QED
    BY <2>1, <2>2
<1>7. IsUpTo(f)
  BY <1>6
<1> HIDE DEF f
<1> DEFINE T == {n \in 0..N : f[n] \in S}
<1>8. 0 \in T
  BY <1>1, <1>7
<1>9. ASSUME NEW n \in 0..N, n \in T, n < N PROVE n + 1 \in T
  <2>1. n + 1 \in 1..N /\ n + 1 \in 0..N /\ (n + 1) - 1 = n /\ n + 1 # 0
    BY <1>1, <1>9
  <2>2. f[n + 1] = Added(f[n], n + 1)
    BY <1>7, <2>1
  <2> QED
    BY <1>3, <1>9, <2>1, <2>2
<1>10. \A n \in 0..N : f[n] \in S
  <2> HIDE DEF T
  <2>1. \A n \in 0..N : n \in T
    BY <1>1, <1>8, <1>9, Upward
  <2> QED
    BY <2>1 DEF T
<1>11. \A n \in 1..N : f[n] = Added(f[n - 1], n)
  BY <1>1, <1>7
<1>12. f[0] = <<>>
  BY <1>1, <1>7
<1>13. Grouping(f, accounts, keyed)
  BY <1>10, <1>11, <1>12 DEF Grouping, N, S, Added
<1> QED
  BY <1>2, <1>13 DEF N

LEMMA GroupEffect ==
    ASSUME NEW accounts \in Seq(Honest), NEW keyed
    PROVE  /\ Group(accounts, keyed) \in Seq(Honest)
           /\ \A i \in DOMAIN Group(accounts, keyed) : RowOf(Group(accounts, keyed)[i], Range(accounts))
<1> DEFINE N == Len(accounts)
           Fits(t) == \A i \in DOMAIN t : RowOf(t[i], Range(accounts))
<1>1. PICK f : Grouping(f, accounts, keyed) /\ Group(accounts, keyed) = f[N]
  BY GroupUnfolds
<1> DEFINE T == {n \in 0..N : Fits(f[n])}
<1>2. N \in Nat /\ Range(accounts) \subseteq Honest
  BY DEF Range
<1>3. 0 \in T
  BY <1>1, <1>2 DEF Grouping
<1>4. ASSUME NEW n \in 0..N, n \in T, n < N PROVE n + 1 \in T
  <2>1. n + 1 \in 1..N /\ n + 1 \in 0..N /\ (n + 1) - 1 = n
    BY <1>2, <1>4
  <2> DEFINE a == accounts[n + 1]
             t == f[n]
  <2>2. a \in Range(accounts) /\ t \in Seq(Honest) /\ Fits(t)
    <3>1. a \in Range(accounts) /\ t \in Seq(Honest)
      BY <1>1, <2>1 DEF Grouping, Range
    <3> HIDE DEF Fits
    <3> QED
      BY <1>4, <3>1
  <2>3. f[n + 1] = IF (a.key # NoKey) = keyed THEN AddRow(t, a) ELSE t
    BY <1>1, <2>1 DEF Grouping
  <2> HIDE DEF a, t
  <2>4. Fits(AddRow(t, a))
    BY <1>2, <2>2, AddRowEffect
  <2>5. Fits(f[n + 1])
    <3> HIDE DEF Fits
    <3> QED
      BY <2>2, <2>3, <2>4
  <2> QED
    BY <2>1, <2>5
<1>5. N \in T
  <2> HIDE DEF T
  <2> QED
    BY <1>2, <1>3, <1>4, UpTo
<1>6. f[N] \in Seq(Honest)
  BY <1>1, <1>2 DEF Grouping
<1> QED
  BY <1>1, <1>5, <1>6

LEMMA AccountsOfFit ==
    ASSUME NEW auth \in HonestAuths, NEW m \in AuthModes PROVE AccountsOf(auth, m) \in Seq(Honest)
BY DEF AccountsOf, HonestAuths, HonestDomain

LEMMA MergedFits == ASSUME NEW auth \in HonestAuths PROVE Merged(auth) \in Seq(Honest)
<1> DEFINE accounts == AccountsOf(auth, "native") \o AccountsOf(auth, "codex")
           first == Group(accounts, TRUE)
           others == Group(accounts, FALSE)
           rows == first \o others
           row(i) == [Normal(rows[i]) EXCEPT !.key = RowKey(Normal(rows[i]))]
<1>1. accounts \in Seq(Honest)
  <2>1. "native" \in AuthModes /\ "codex" \in AuthModes
    BY ModesAre
  <2>2. AccountsOf(auth, "native") \in Seq(Honest) /\ AccountsOf(auth, "codex") \in Seq(Honest)
    BY <2>1, AccountsOfFit
  <2> QED
    BY <2>2
<1>2. Merged(auth) = [i \in DOMAIN rows |-> row(i)]
  BY DEF Merged
<1> HIDE DEF accounts
<1>3. rows \in Seq(Honest)
  <2>1. first \in Seq(Honest) /\ others \in Seq(Honest)
    BY <1>1, GroupEffect
  <2> HIDE DEF first, others
  <2> QED
    BY <2>1
<1> HIDE DEF rows
<1>4. ASSUME NEW a \in Honest PROVE [a EXCEPT !.key = RowKey(a)] \in Honest
  <2>1. /\ a \in Accounts /\ a.id \in {NoId, Owner[a.refresh]} /\ a.claim \in {NoId, Owner[a.refresh]}
        /\ a.key \in Ids => a.key = Owner[a.refresh]
    BY <1>4, HonestFits
  <2> DEFINE key == RowKey(a)
             b == [a EXCEPT !.key = key]
  <2>2. key \in Keys /\ (key \in Ids => key = Owner[a.refresh])
    BY <2>1, KeysApart DEF RowKey, Accounts
  <2> HIDE DEF key
  <2>3. b \in Accounts /\ b.id = a.id /\ b.claim = a.claim /\ b.refresh = a.refresh /\ b.key = key
    BY <2>1, <2>2 DEF Accounts
  <2> HIDE DEF b
  <2>4. b \in Honest
    BY <2>1, <2>2, <2>3, HonestFits
  <2> QED
    BY <2>4 DEF b, key
<1>5. \A i \in DOMAIN rows : row(i) \in Honest
  BY <1>3, <1>4, NormalHonest
<1> HIDE DEF row
<1>6. DOMAIN rows = 1..Len(rows) /\ Len(rows) \in Nat
  BY <1>3
<1>7. [i \in 1..Len(rows) |-> row(i)] \in Seq(Honest)
  BY <1>5, <1>6
<1> QED
  BY <1>2, <1>6, <1>7

-----------------------------------------------------------------------------
(* The account tools and the menu                                          *)

LEMMA RemoveAtFits ==
    ASSUME NEW S, NEW s \in Seq(S), NEW n \in DOMAIN s PROVE RemoveAt(s, n) \in Seq(S)
<1>1. n \in 1..Len(s) /\ Len(s) \in Nat
  OBVIOUS
<1>2. SubSeq(s, 1, n - 1) \in Seq(S)
  BY <1>1, SubSeqProperties
<1>3. SubSeq(s, n + 1, Len(s)) \in Seq(S)
  BY <1>1, SubSeqProperties
<1> QED
  BY <1>2, <1>3 DEF RemoveAt

LEMMA HydratedFits == ASSUME NEW d \in HonestDomain PROVE Hydrated(d) \in HonestDomain
<1> DEFINE s == d.accounts
           Before(i) == {j \in 1..(i - 1) : s[j].key = NoKey /\ s[j].part = s[i].part}
           key(i) == IF s[i].key # NoKey THEN s[i].key ELSE Fallback(s[i].part, Cardinality(Before(i)))
           t == [i \in DOMAIN s |-> [s[i] EXCEPT !.key = key(i)]]
           n == [d EXCEPT !.accounts = t]
<1>1. s \in Seq(Honest) /\ d.active \in Keys \cup {NoKey}
  BY DEF HonestDomain
<1>2. DOMAIN s = 1..Len(s) /\ Len(s) \in Nat
  BY <1>1
<1>3. Hydrated(d) = Reconcile(n)
  BY DEF Hydrated
<1>4. ASSUME NEW i \in DOMAIN s PROVE t[i] \in Honest
  <2>1. i \in Nat /\ s[i] \in Honest
    BY <1>1, <1>2
  <2>2. /\ s[i] \in Accounts /\ s[i].id \in {NoId, Owner[s[i].refresh]}
        /\ s[i].claim \in {NoId, Owner[s[i].refresh]}
        /\ s[i].key \in Ids => s[i].key = Owner[s[i].refresh]
    BY <2>1, HonestFits
  <2>3. Cardinality(Before(i)) \in Nat
    <3>1. IsFiniteSet(1..(i - 1)) /\ Before(i) \in SUBSET (1..(i - 1))
      BY <2>1, FS_Interval
    <3> HIDE DEF Before
    <3>2. IsFiniteSet(Before(i))
      BY <3>1, FS_Subset
    <3> QED
      BY <3>2, FS_CardinalityType
  <2> HIDE DEF Before
  <2>4. key(i) \in Keys \cup {NoKey} /\ (key(i) \in Ids => key(i) = Owner[s[i].refresh])
    BY <2>2, <2>3, KeysApart DEF Accounts
  <2> DEFINE a == s[i]
             b == [a EXCEPT !.key = key(i)]
  <2>5. t[i] = b
    OBVIOUS
  <2> HIDE DEF key, s, t
  <2>6. b \in Accounts /\ b.id = a.id /\ b.claim = a.claim /\ b.refresh = a.refresh /\ b.key = key(i)
    BY <2>2, <2>4 DEF Accounts
  <2> HIDE DEF b
  <2>7. b \in Honest
    BY <2>2, <2>4, <2>6, HonestFits
  <2> QED
    BY <2>5, <2>7
<1>5. DOMAIN t = DOMAIN s
  OBVIOUS
<1> HIDE DEF t
<1>6. t \in Seq(Honest)
  <2>1. \E f : f = [i \in DOMAIN s |-> t[i]] /\ t = f
    BY <1>5, <1>4 DEF t
  <2>2. [i \in 1..Len(s) |-> t[i]] \in Seq(Honest)
    BY <1>2, <1>4
  <2> HIDE DEF s
  <2> QED
    BY <1>2, <2>1, <2>2
<1>7. n \in HonestDomain
  BY <1>1, <1>6 DEF HonestDomain
<1> HIDE DEF n
<1> QED
  BY <1>3, <1>7, ReconcileFits

LEMMA DomainMatchFits ==
    ASSUME NEW s, NEW row PROVE DomainMatch(s, row) = 0 \/ DomainMatch(s, row) \in DOMAIN s
<1> DEFINE Single(S) == IF Cardinality(S) = 1 THEN CHOOSE i \in S : TRUE ELSE 0
           byKey == {i \in DOMAIN s : s[i].key = row.key}
           byId == {i \in DOMAIN s : s[i].id = row.id}
           byRefresh == {i \in DOMAIN s : s[i].refresh = row.refresh}
<1>1. \A S : S \subseteq DOMAIN s => Single(S) = 0 \/ Single(S) \in DOMAIN s
  <2> SUFFICES ASSUME NEW S, S \subseteq DOMAIN s PROVE Single(S) = 0 \/ Single(S) \in DOMAIN s
    OBVIOUS
  <2>1. Cardinality(S) = 1 => (CHOOSE i \in S : TRUE) \in S
    BY OneOf
  <2> QED
    BY <2>1
<1>2. DomainMatch(s, row) = IF byKey # {} THEN Single(byKey)
                            ELSE IF row.id # NoId THEN Single(byId) ELSE Single(byRefresh)
  BY DEF DomainMatch
<1>3. byKey \subseteq DOMAIN s /\ byId \subseteq DOMAIN s /\ byRefresh \subseteq DOMAIN s
  OBVIOUS
<1> HIDE DEF Single, byKey, byId, byRefresh
<1> QED
  BY <1>1, <1>2, <1>3

LEMMA EnabledFits ==
    ASSUME NEW a \in Honest, NEW e \in BOOLEAN PROVE [a EXCEPT !.enabled = e] \in Honest
<1>1. /\ a \in Accounts /\ a.id \in {NoId, Owner[a.refresh]} /\ a.claim \in {NoId, Owner[a.refresh]}
      /\ a.key \in Ids => a.key = Owner[a.refresh]
  BY HonestFits
<1> DEFINE b == [a EXCEPT !.enabled = e]
<1>2. b \in Accounts /\ b.id = a.id /\ b.claim = a.claim /\ b.refresh = a.refresh /\ b.key = a.key
  BY <1>1 DEF Accounts
<1> HIDE DEF b
<1>3. b \in Honest
  BY <1>1, <1>2, HonestFits
<1> QED
  BY <1>3 DEF b

\* One account set, or removed.
LEMMA RowSetFits ==
    ASSUME NEW d \in HonestDomain, NEW n \in DOMAIN d.accounts, NEW e \in BOOLEAN
    PROVE  /\ [d EXCEPT !.accounts[n].enabled = e] \in HonestDomain
           /\ [d EXCEPT !.accounts = RemoveAt(@, n)] \in HonestDomain
<1>1. d.accounts \in Seq(Honest) /\ d.active \in Keys \cup {NoKey} /\ d.accounts[n] \in Honest
  BY DEF HonestDomain
<1> DEFINE a == [d.accounts[n] EXCEPT !.enabled = e]
<1>2. a \in Honest
  BY <1>1, EnabledFits
<1>3. [d EXCEPT !.accounts[n].enabled = e] = [d EXCEPT !.accounts = [d.accounts EXCEPT ![n] = a]]
  BY <1>1 DEF HonestDomain
<1> HIDE DEF a
<1>4. [d.accounts EXCEPT ![n] = a] \in Seq(Honest)
  BY <1>1, <1>2
<1>5. RemoveAt(d.accounts, n) \in Seq(Honest)
  BY <1>1, RemoveAtFits
<1>6. [d EXCEPT !.accounts[n].enabled = e] \in HonestDomain
  BY <1>1, <1>3, <1>4 DEF HonestDomain
<1>7. [d EXCEPT !.accounts = RemoveAt(@, n)] \in HonestDomain
  BY <1>1, <1>5 DEF HonestDomain
<1> QED
  BY <1>6, <1>7

LEMMA ToolChangeFits ==
    ASSUME NEW tool \in {"switch", "toggle", "remove"}, NEW d \in HonestDomain, NEW row \in Honest
    PROVE  ToolChange(tool, d, row) \in HonestDomain
<1> DEFINE n == DomainMatch(d.accounts, row)
<1>1. n = 0 \/ n \in DOMAIN d.accounts
  BY DomainMatchFits
<1>2. row.key \in Keys \cup {NoKey} /\ (~row.enabled) \in BOOLEAN
  BY DEF Honest, Accounts
<1>3. CASE tool = "switch"
  <2>1. ToolChange(tool, d, row) = IF Usable(d.accounts, row.key) THEN [d EXCEPT !.active = row.key] ELSE d
    BY <1>3 DEF ToolChange
  <2>2. [d EXCEPT !.active = row.key] \in HonestDomain
    BY <1>2 DEF HonestDomain
  <2> QED
    BY <2>1, <2>2
<1>4. CASE tool = "toggle"
  <2>1. ToolChange(tool, d, row) = IF n = 0 THEN d ELSE [d EXCEPT !.accounts[n].enabled = ~row.enabled]
    BY <1>4 DEF ToolChange
  <2> HIDE DEF n
  <2> QED
    BY <1>1, <1>2, <2>1, RowSetFits
<1>5. CASE tool = "remove"
  <2>1. ToolChange(tool, d, row) = IF n = 0 THEN d ELSE [d EXCEPT !.accounts = RemoveAt(@, n)]
    BY <1>5 DEF ToolChange
  <2> HIDE DEF n
  <2> QED
    BY <1>1, <1>2, <2>1, RowSetFits
<1> QED
  BY <1>3, <1>4, <1>5

LEMMA ToolKeeps ==
    ASSUME AuthInv, edits < MaxEdits, NEW tool \in {"switch", "toggle", "remove"},
           NEW i \in DOMAIN Merged(stored), WithTool(tool, i)
    PROVE  AuthInv'
<1> DEFINE row == Merged(stored)[i]
           new == [m \in AuthModes |-> IF stored[m] = NoDomain THEN NoDomain
                                       ELSE ToolChange(tool, Hydrated(stored[m]), row)]
<1>1. stored \in HonestAuths
  BY DEF AuthInv
<1>2. row \in Honest
  <2>1. Merged(stored) \in Seq(Honest)
    BY <1>1, MergedFits
  <2> QED
    BY <2>1
<1>3. Save(new, Write(tool, i))
  BY DEF WithTool
<1> HIDE DEF row
<1>4. ASSUME NEW m \in AuthModes, stored[m] # NoDomain
      PROVE  ToolChange(tool, Hydrated(stored[m]), row) \in HonestDomain
  <2>1. stored[m] \in HonestDomain
    BY <1>1, <1>4 DEF HonestAuths
  <2>2. Hydrated(stored[m]) \in HonestDomain
    BY <2>1, HydratedFits
  <2> QED
    BY <1>2, <2>2, ToolChangeFits
<1>5. new \in HonestAuths
  BY <1>4 DEF HonestAuths
<1> HIDE DEF new
<1> QED
  BY <1>3, <1>5, SaveFits

LEMMA MenuIndexFits ==
    ASSUME NEW s \in Seq(Honest), NEW row, NEW m
    PROVE  MenuIndex(s, row, m) = 0 \/ MenuIndex(s, row, m) \in DOMAIN s
<1> DEFINE other == CHOOSE o \in AuthModes : o # m
           places == <<row.at[m], row.at[other]>>
           P == {j \in 1..Len(places) : places[j] \in DOMAIN s /\ Shows(row, s[places[j]])}
           place == IF P # {} THEN Min(P) ELSE 0
           I == {j \in 1..Len(s) : row.key # NoKey /\ s[j].key = row.key}
           keyed == IF I # {} THEN Min(I) ELSE 0
           J == {j \in 1..Len(s) : Shows(row, s[j])}
           like == IF J # {} THEN Min(J) ELSE 0
<1>1. MenuIndex(s, row, m) = IF place # 0 THEN places[place] ELSE IF keyed # 0 THEN keyed ELSE like
  <2>1. SelectInSeq(places, LAMBDA n : n \in DOMAIN s /\ Shows(row, s[n])) = place
    BY DEF SelectInSeq
  <2>2. SelectInSeq(s, LAMBDA a : row.key # NoKey /\ a.key = row.key) = keyed
    BY DEF SelectInSeq
  <2>3. SelectInSeq(s, LAMBDA a : Shows(row, a)) = like
    BY DEF SelectInSeq
  <2> HIDE DEF place, keyed, like
  <2> QED
    BY <2>1, <2>2, <2>3 DEF MenuIndex
<1>2. place # 0 => places[place] \in DOMAIN s
  <2>1. Len(places) = 2 /\ P \in SUBSET (1..Len(places))
    OBVIOUS
  <2>2. \A j \in P : places[j] \in DOMAIN s
    OBVIOUS
  <2> HIDE DEF P, places
  <2>3. Len(places) \in Nat
    BY <2>1
  <2>4. place \in Nat /\ (place # 0 => place \in P)
    BY <2>1, <2>3, FirstFits
  <2> QED
    BY <2>2, <2>4
<1>3. DOMAIN s = 1..Len(s) /\ Len(s) \in Nat /\ I \in SUBSET (1..Len(s)) /\ J \in SUBSET (1..Len(s))
  OBVIOUS
<1> HIDE DEF I, J, place, places
<1>4. keyed # 0 => keyed \in DOMAIN s
  BY <1>3, FirstFits
<1>5. like # 0 => like \in DOMAIN s
  BY <1>3, FirstFits
<1> HIDE DEF keyed, like
<1> QED
  BY <1>1, <1>2, <1>4, <1>5

LEMMA MenuKeeps ==
    ASSUME AuthInv, edits < MaxEdits, NEW choice \in {"toggle", "delete"}, NEW row, NEW modes,
           WithMenu(choice, row, modes)
    PROVE  AuthInv'
<1> DEFINE place(m) == IF stored[m] = NoDomain THEN 0 ELSE MenuIndex(stored[m].accounts, row, m)
           new == [m \in AuthModes |-> IF m \in modes /\ place(m) # 0
                                       THEN Reconcile(MenuChange(choice, stored[m], place(m)))
                                       ELSE stored[m]]
<1>1. stored \in HonestAuths
  BY DEF AuthInv
<1>2. Save(new, Write("menu", row))
  BY DEF WithMenu
<1>3. ASSUME NEW m \in AuthModes, place(m) # 0
      PROVE  Reconcile(MenuChange(choice, stored[m], place(m))) \in HonestDomain
  <2>1. stored[m] \in HonestDomain /\ stored[m].accounts \in Seq(Honest)
    BY <1>1, <1>3 DEF HonestAuths, HonestDomain
  <2>2. place(m) \in DOMAIN stored[m].accounts
    BY <1>3, <2>1, MenuIndexFits
  <2> DEFINE d == stored[m] n == place(m)
  <2>3. d \in HonestDomain /\ n \in DOMAIN d.accounts /\ d.accounts[n] \in Honest
    BY <2>1, <2>2
  <2> HIDE DEF d, n
  <2>4. (~d.accounts[n].enabled) \in BOOLEAN
    OBVIOUS
  <2>5. MenuChange(choice, d, n) \in HonestDomain
    <3>1. CASE choice = "toggle"
      <4>1. MenuChange(choice, d, n) = [d EXCEPT !.accounts[n].enabled = ~d.accounts[n].enabled]
        BY <3>1 DEF MenuChange
      <4> QED
        BY <2>3, <2>4, <4>1, RowSetFits
    <3>2. CASE choice # "toggle"
      <4>1. MenuChange(choice, d, n) = [d EXCEPT !.accounts = RemoveAt(d.accounts, n)]
        BY <3>2 DEF MenuChange
      <4> QED
        BY <2>3, <4>1, RowSetFits
    <3> QED
      BY <3>1, <3>2
  <2> QED
    BY <2>5, ReconcileFits DEF d, n
<1> HIDE DEF place
<1>4. new \in HonestAuths
  BY <1>1, <1>3 DEF HonestAuths
<1> HIDE DEF new
<1> QED
  BY <1>2, <1>4, SaveFits

LEMMA DeleteAllKeeps ==
    ASSUME AuthInv, edits < MaxEdits, NEW modes, MenuDeleteAll(modes) PROVE AuthInv'
<1> DEFINE new == [m \in AuthModes |-> IF m \in modes THEN [accounts |-> <<>>, active |-> NoKey] ELSE stored[m]]
<1>1. stored \in HonestAuths
  BY DEF AuthInv
<1>2. [accounts |-> <<>>, active |-> NoKey] \in HonestDomain
  BY DEF HonestDomain
<1>3. new \in HonestAuths
  BY <1>1, <1>2 DEF HonestAuths
<1>4. Save(new, Write("deleteAll", modes))
  BY DEF MenuDeleteAll
<1> HIDE DEF new
<1> QED
  BY <1>3, <1>4, SaveFits

-----------------------------------------------------------------------------
(* The invariant                                                           *)

LEMMA AuthStarts == AuthInit => AuthInv
<1> SUFFICES ASSUME AuthInit PROVE AuthInv
  OBVIOUS
<1>1. PICK auth \in FirstAuths : stored = Normalise(auth)
  BY DEF AuthInit
<1>2. stored \in HonestAuths /\ Normalise(stored) = stored
  BY <1>1, NormaliseFits, AuthConstants
<1> QED
  BY <1>2, AuthConstants DEF AuthInit, AuthInv

LEMMA AuthStutters == AuthInv /\ UNCHANGED authVars => AuthInv'
BY DEF AuthInv, authVars

LEMMA AuthStep == AuthInv /\ AuthNext => AuthInv'
<1> SUFFICES ASSUME AuthInv, AuthNext PROVE AuthInv'
  OBVIOUS
<1>1. CASE OpenMenu
  BY <1>1 DEF OpenMenu, AuthInv
<1>2. ASSUME edits < MaxEdits, AuthWrite PROVE AuthInv'
  <2>1. ASSUME NEW m \in AuthModes, NEW in \in Logins, Login(m, in) PROVE AuthInv'
    BY <1>2, <2>1, LoginKeeps
  <2>2. ASSUME NEW m \in AuthModes, NEW i \in 1..3, NEW tokens \in Issued, NEW activates \in BOOLEAN,
               Refreshed(m, i, tokens, activates)
        PROVE  AuthInv'
    BY <1>2, <2>2, RefreshedKeeps
  <2>3. CASE Import
    BY <1>2, <2>3, ImportKeeps
  <2>4. ASSUME NEW i \in DOMAIN Merged(stored), ToolSwitch(i) \/ ToolToggle(i) \/ ToolRemove(i)
        PROVE  AuthInv'
    <3>1. \E tool \in {"switch", "toggle", "remove"} : WithTool(tool, i)
      BY <2>4 DEF ToolSwitch, ToolToggle, ToolRemove
    <3> QED
      BY <1>2, <3>1, ToolKeeps
  <2>5. ASSUME NEW r \in DOMAIN shown,
               MenuToggle(shown[r]) \/ \E modes \in ModeSets : MenuDelete(shown[r], modes)
        PROVE  AuthInv'
    <3>1. \E choice \in {"toggle", "delete"} : \E modes : WithMenu(choice, shown[r], modes)
      BY <2>5 DEF MenuToggle, MenuDelete
    <3> QED
      BY <1>2, <3>1, MenuKeeps
  <2>6. ASSUME NEW modes \in ModeSets, MenuDeleteAll(modes) PROVE AuthInv'
    BY <1>2, <2>6, DeleteAllKeeps
  <2> QED
    BY <1>2, <2>1, <2>2, <2>3, <2>4, <2>5, <2>6 DEF AuthWrite
<1> QED
  BY <1>1, <1>2 DEF AuthNext

LEMMA RecordsHonest == AuthInv => Records(stored) \cup Range(Merged(stored)) \subseteq Honest
<1> SUFFICES ASSUME AuthInv PROVE Records(stored) \cup Range(Merged(stored)) \subseteq Honest
  OBVIOUS
<1>1. stored \in HonestAuths
  BY DEF AuthInv
<1>2. \A m \in AuthModes : Range(AccountsOf(stored, m)) \subseteq Honest
  <2>1. \A m \in AuthModes : AccountsOf(stored, m) \in Seq(Honest)
    BY <1>1, AccountsOfFit
  <2> QED
    BY <2>1 DEF Range
<1>3. Merged(stored) \in Seq(Honest)
  BY <1>1, MergedFits
<1>4. Range(Merged(stored)) \subseteq Honest
  BY <1>3 DEF Range
<1> QED
  BY <1>2, <1>4 DEF Records

LEMMA AuthTypeFollows == AuthInv => AuthTypeOK
<1> SUFFICES ASSUME AuthInv PROVE AuthTypeOK
  OBVIOUS
<1>1. Records(stored) \subseteq Accounts
  BY RecordsHonest DEF Honest
<1>2. \A m \in Domains(stored) : stored[m].active \in Keys \cup {NoKey}
  BY DEF AuthInv, Domains, HonestAuths, HonestDomain
<1> QED
  BY <1>1, <1>2 DEF AuthTypeOK, AuthInv

LEMMA OwnersFollow == AuthInv => OwnersAreNamed
<1> SUFFICES ASSUME AuthInv, NEW a \in Records(stored) \cup Range(Merged(stored))
             PROVE  a.id \in {NoId, Owner[a.refresh]} /\ (a.key \in Ids => a.key = Owner[a.refresh])
  BY DEF OwnersAreNamed
<1>1. a \in Honest
  BY RecordsHonest
<1> QED
  BY <1>1, HonestFits

LEMMA NormalFollows == AuthInv => StoredIsNormal
BY DEF AuthInv, StoredIsNormal

-----------------------------------------------------------------------------
(* What a write leaves                                                     *)

\* Who wrote, and what.
LEMMA WrittenBy ==
    ASSUME AuthNext, NEW by, Wrote(by)
    PROVE  /\ by = "login" => \E m \in AuthModes, in \in Logins : Login(m, in) /\ last'.what = <<m, in>>
           /\ by = "import" => Import
           /\ by \in {"switch", "toggle", "remove"} =>
                \E i \in DOMAIN Merged(stored) : /\ WithTool(by, i) /\ last'.what = i
                                                 /\ by = "switch" => Merged(stored)[i].enabled
           /\ by = "menu" => \E choice \in {"toggle", "delete"} : \E row, modes :
                               WithMenu(choice, row, modes) /\ last'.what = row
<1>1. AuthWrite /\ last'.by = by
  BY DEF AuthNext, OpenMenu, Wrote
<1>2. ASSUME NEW m \in AuthModes, NEW in \in Logins, Login(m, in)
      PROVE  last'.by = "login" /\ last'.what = <<m, in>>
  BY <1>2 DEF Login, Save, Write
<1>3. ASSUME NEW m, NEW i, NEW tokens, NEW activates, Refreshed(m, i, tokens, activates)
      PROVE  last'.by = "refresh"
  BY <1>3 DEF Refreshed, Save, Write
<1>4. Import => last'.by = "import"
  BY DEF Import, Save, Write
<1>5. ASSUME NEW i, NEW tool, WithTool(tool, i) PROVE last'.by = tool /\ last'.what = i
  BY <1>5 DEF WithTool, Save, Write
<1>6. ASSUME NEW choice, NEW row, NEW modes, WithMenu(choice, row, modes)
      PROVE  last'.by = "menu" /\ last'.what = row
  BY <1>6 DEF WithMenu, Save, Write
<1>7. ASSUME NEW modes, MenuDeleteAll(modes) PROVE last'.by = "deleteAll"
  BY <1>7 DEF MenuDeleteAll, Save, Write
<1>8. \/ \E m \in AuthModes, in \in Logins : Login(m, in)
      \/ \E m, i, tokens, activates : Refreshed(m, i, tokens, activates)
      \/ Import
      \/ \E i \in DOMAIN Merged(stored) : \/ WithTool("switch", i) /\ Merged(stored)[i].enabled
                                          \/ WithTool("toggle", i) \/ WithTool("remove", i)
      \/ \E choice \in {"toggle", "delete"} : \E row, modes : WithMenu(choice, row, modes)
      \/ \E modes : MenuDeleteAll(modes)
  BY <1>1 DEF AuthWrite, ToolSwitch, ToolToggle, ToolRemove, MenuToggle, MenuDelete
<1> QED
  BY <1>1, <1>2, <1>3, <1>4, <1>5, <1>6, <1>7, <1>8

LEMMA HealEffect ==
    ASSUME NEW d \in HonestDomain
    PROVE  /\ Heal(d).accounts = [i \in DOMAIN d.accounts |-> Normal(d.accounts[i])]
           /\ Usable(Heal(d).accounts, d.active) => Heal(d).active = d.active
<1> DEFINE t == [i \in DOMAIN d.accounts |-> Normal(d.accounts[i])]
           n == [d EXCEPT !.accounts = t]
           chosen == IF Usable(t, d.active) THEN d.active ELSE FirstUsable(t)
<1>1. n.accounts = t /\ n.active = d.active /\ DOMAIN n = {"accounts", "active"}
  BY DEF HonestDomain
<1>2. Heal(d) = Reconcile(n)
  BY DEF Heal
<1> HIDE DEF n, t
<1>3. Reconcile(n) = [n EXCEPT !.active = chosen]
  BY <1>1 DEF Reconcile
<1>4. Heal(d).accounts = t /\ Heal(d).active = chosen
  BY <1>1, <1>2, <1>3
<1> QED
  BY <1>4 DEF t

\* What was saved, of one mode.
LEMMA SavedAs ==
    ASSUME NEW auth, NEW write, Save(auth, write), NEW m \in AuthModes
    PROVE  stored'[m] = IF auth[m] = NoDomain THEN NoDomain ELSE Heal(auth[m])
BY DEF Save, Normalise

\* A stored account is normal.
LEMMA StoredNormal ==
    ASSUME AuthInv, NEW m \in AuthModes, stored[m] # NoDomain
    PROVE  /\ stored[m] \in HonestDomain /\ stored[m].accounts \in Seq(Honest)
           /\ \A i \in DOMAIN stored[m].accounts : Normal(stored[m].accounts[i]) = stored[m].accounts[i]
<1>1. stored[m] \in HonestDomain /\ stored[m].accounts \in Seq(Honest)
  BY DEF AuthInv, HonestAuths, HonestDomain
<1>2. stored[m] = Heal(stored[m])
  BY DEF AuthInv, Normalise
<1>3. stored[m].accounts = [i \in DOMAIN stored[m].accounts |-> Normal(stored[m].accounts[i])]
  BY <1>1, <1>2, HealEffect
<1> QED
  BY <1>1, <1>3

\* An account in a domain that is saved stays as it is.
LEMMA HealStays ==
    ASSUME NEW d \in HonestDomain, \A i \in DOMAIN d.accounts : Normal(d.accounts[i]) = d.accounts[i]
    PROVE  Heal(d).accounts = d.accounts
<1>1. d.accounts = [i \in DOMAIN d.accounts |-> d.accounts[i]]
  BY DEF HonestDomain
<1> QED
  BY <1>1, HealEffect

LEMMA RemovedElements ==
    ASSUME NEW S, NEW s \in Seq(S), NEW n \in DOMAIN s
    PROVE  /\ RemoveAt(s, n) \in Seq(S)
           /\ Range(RemoveAt(s, n)) = {s[i] : i \in DOMAIN s \ {n}}
<1> DEFINE a == SubSeq(s, 1, n - 1)
           b == SubSeq(s, n + 1, Len(s))
           r == RemoveAt(s, n)
<1>1. n \in 1..Len(s) /\ Len(s) \in Nat /\ DOMAIN s = 1..Len(s)
  OBVIOUS
<1>2. a \in Seq(S) /\ Len(a) = n - 1 /\ \A i \in 1..(n - 1) : a[i] = s[i]
  BY <1>1, SubSeqProperties
<1>3. b \in Seq(S) /\ Len(b) = Len(s) - n /\ \A i \in 1..(Len(s) - n) : b[i] = s[n + i]
  BY <1>1, SubSeqProperties
<1>4. r = a \o b
  BY DEF RemoveAt
<1> HIDE DEF a, b, r
<1>5. /\ r \in Seq(S) /\ DOMAIN r = 1..(Len(s) - 1)
      /\ \A i \in 1..(Len(s) - 1) : r[i] = IF i < n THEN s[i] ELSE s[i + 1]
  <2>1. r \in Seq(S) /\ Len(r) = Len(s) - 1
    <3>1. r \in Seq(S) /\ Len(r) = Len(a) + Len(b)
      BY <1>2, <1>3, <1>4, ConcatProperties
    <3>2. (n - 1) + (Len(s) - n) = Len(s) - 1
      BY <1>1
    <3> QED
      BY <1>2, <1>3, <3>1, <3>2
  <2>2. ASSUME NEW i \in 1..(Len(s) - 1) PROVE r[i] = IF i < n THEN s[i] ELSE s[i + 1]
    <3>1. CASE i < n
      BY <1>1, <1>2, <1>3, <1>4, <2>2, <3>1
    <3>2. CASE ~(i < n)
      <4>1. r[i] = b[i - (n - 1)] /\ i - (n - 1) \in 1..(Len(s) - n)
        BY <1>1, <1>2, <1>3, <1>4, <2>2, <3>2
      <4>2. n + (i - (n - 1)) = i + 1
        BY <1>1, <2>2
      <4> QED
        BY <1>3, <3>2, <4>1, <4>2
    <3> QED
      BY <3>1, <3>2
  <2> QED
    BY <2>1, <2>2
<1>6. ASSUME NEW i \in DOMAIN r PROVE \E j \in DOMAIN s \ {n} : r[i] = s[j]
  <2>1. CASE i < n
    BY <1>1, <1>5, <1>6, <2>1
  <2>2. CASE ~(i < n)
    <3>1. i + 1 \in DOMAIN s \ {n} /\ r[i] = s[i + 1]
      BY <1>1, <1>5, <1>6, <2>2
    <3> QED
      BY <3>1
  <2> QED
    BY <2>1, <2>2
<1>7. ASSUME NEW j \in DOMAIN s \ {n} PROVE \E i \in DOMAIN r : r[i] = s[j]
  <2>1. CASE j < n
    BY <1>1, <1>5, <1>7, <2>1
  <2>2. CASE ~(j < n)
    <3>1. j - 1 \in DOMAIN r /\ ~(j - 1 < n) /\ (j - 1) + 1 = j
      BY <1>1, <1>5, <1>7, <2>2
    <3> QED
      BY <1>5, <3>1
  <2> QED
    BY <2>1, <2>2
<1>8. Range(r) = {s[j] : j \in DOMAIN s \ {n}}
  BY <1>6, <1>7 DEF Range
<1> QED
  BY <1>5, <1>8 DEF r

-----------------------------------------------------------------------------
(* A login                                                                 *)

LEMMA LoginSticks ==
    ASSUME AuthInv, NEW m \in AuthModes, NEW in \in Logins, in.id # NoId, Login(m, in)
    PROVE  \E a \in Range(AccountsOf(stored', m)) :
             a.id = in.id /\ a.refresh = in.refresh /\ a.enabled /\ stored'[m].active = a.key
<1> DEFINE auth == Ensured(stored, m)
           s == auth[m].accounts
           i == LoginMatch(s, in)
           byRefresh == i # 0 /\ ~(in.id # NoId /\ s[i].id = in.id)
           upgrades == ~byRefresh \/ (s[i].id = NoId /\ in.id # NoId)
           target == IF i = 0 THEN [in EXCEPT !.key = NoKey] ELSE s[i]
           named == IF upgrades THEN [target EXCEPT !.id = in.id, !.part = in.part] ELSE target
           key == IF named.id = NoId \/ target.key \in OddKeys THEN target.key ELSE named.id
           next == [in EXCEPT !.id = named.id, !.part = named.part, !.key = key]
           result == Upsert(s, in)
           chosen == IF result[2].key # NoKey THEN result[2].key ELSE auth[m].active
           new == [auth EXCEPT ![m] = [auth[m] EXCEPT !.accounts = result[1], !.active = chosen]]
<1>1. auth \in HonestAuths /\ auth[m] \in HonestDomain
  BY EnsuredFits DEF AuthInv
<1>2. Save([auth EXCEPT ![m].accounts = result[1],
                        ![m].active = IF result[2].key # NoKey THEN result[2].key ELSE @],
           Write("login", <<m, in>>))
  BY DEF Login
<1> HIDE DEF auth
<1>3. s \in Seq(Honest)
  BY <1>1 DEF HonestDomain
<1>4. result = IF i = 0 THEN <<Append(s, next), next>> ELSE <<[s EXCEPT ![i] = next], next>>
  BY DEF Upsert
<1>5. i # 0 => i \in DOMAIN s /\ s[i].id \in {in.id, NoId}
  <2> DEFINE I == {j \in 1..Len(s) : in.id # NoId /\ s[j].id = in.id}
             strict == IF I # {} THEN Min(I) ELSE 0
             same == {j \in DOMAIN s : s[j].refresh = in.refresh}
             only == CHOOSE j \in same : TRUE
  <2>1. SelectInSeq(s, LAMBDA a : in.id # NoId /\ a.id = in.id) = strict
    BY DEF SelectInSeq
  <2>2. strict # 0 => strict \in DOMAIN s /\ s[strict].id = in.id
    <3>1. Len(s) \in Nat /\ I \in SUBSET (1..Len(s)) /\ DOMAIN s = 1..Len(s)
      BY <1>3
    <3>2. \A j \in I : s[j].id = in.id
      OBVIOUS
    <3> HIDE DEF I
    <3>3. strict # 0 => strict \in I
      BY <3>1, FirstFits
    <3> QED
      BY <3>1, <3>2, <3>3
  <2>3. Cardinality(same) = 1 => only \in DOMAIN s
    <3>1. Cardinality(same) = 1 => only \in same
      BY OneOf
    <3> QED
      BY <3>1
  <2>4. i = IF strict # 0 THEN strict
            ELSE IF Cardinality(same) = 1 /\ (in.id = NoId \/ s[only].id = NoId) THEN only ELSE 0
    BY <2>1 DEF LoginMatch
  <2> HIDE DEF strict, only, i, same
  <2> QED
    BY <2>2, <2>3, <2>4
<1> HIDE DEF i
<1>6. /\ in \in Accounts /\ in \in Honest /\ in.enabled
  <2>1. in \in Honest
    BY LoginsHonest
  <2>2. in.enabled
    BY DEF Logins, Fresh, Account
  <2> QED
    BY <2>1, <2>2 DEF Honest
<1>7. target \in Accounts /\ named.id = in.id /\ named.part \in Partials
  BY <1>3, <1>5, <1>6 DEF Honest, Accounts
<1> HIDE DEF target, named
<1>8. key # NoKey /\ key = IF target.key \in OddKeys THEN target.key ELSE in.id
  BY <1>6, <1>7, KeysApart DEF Honest, Accounts
<1>9. /\ next.id = in.id /\ next.key = key /\ next.refresh = in.refresh /\ next.enabled
      /\ DOMAIN next = {"key", "id", "part", "claim", "refresh", "expires", "enabled"}
  BY <1>6, <1>7 DEF Accounts
<1>10. Normal(next) = next
  <2>0. next \in Accounts
    <3>1. in.id \in Ids \cup {NoId} /\ key \in Keys \cup {NoKey}
      BY <1>6, <1>7, <1>8 DEF Accounts, Keys
    <3> HIDE DEF key
    <3> QED
      BY <1>6, <1>7, <3>1 DEF Accounts
  <2> DEFINE k == IF next.id = NoId \/ next.key \in OddKeys THEN next.key ELSE next.id
  <2> HIDE DEF next
  <2>1. k = next.key /\ (IF next.id = NoId THEN next.claim ELSE next.id) = next.id
    BY <1>7, <1>8, <1>9
  <2>2. Normal(next) = [next EXCEPT !.id = next.id, !.key = k]
    BY <1>9, <2>1 DEF Normal
  <2> HIDE DEF k
  <2> QED
    BY <1>9, <2>0, <2>1, <2>2 DEF Accounts
<1> HIDE DEF next, key
<1>11. PICK j \in DOMAIN result[1] : result[1][j] = next /\ result[2] = next
  <2>1. CASE i = 0
    BY <1>3, <1>4, <2>1
  <2>2. CASE i # 0
    BY <1>3, <1>4, <1>5, <2>2
  <2> QED
    BY <2>1, <2>2
<1>12. result[1] \in Seq(Honest) /\ result[2].key \in Keys \cup {NoKey}
  BY <1>3, <1>6, UpsertFits
<1> HIDE DEF result
<1>13. [auth EXCEPT ![m].accounts = result[1],
                   ![m].active = IF result[2].key # NoKey THEN result[2].key ELSE @] = new
  BY <1>1 DEF HonestAuths, HonestDomain
<1>14. new[m] \in HonestDomain /\ new[m].accounts = result[1] /\ new[m].active = next.key
  BY <1>1, <1>8, <1>9, <1>11, <1>12 DEF HonestAuths, HonestDomain
<1> HIDE DEF new
<1>15. stored'[m] = Heal(new[m])
  <2>1. Save(new, Write("login", <<m, in>>))
    BY <1>2, <1>13
  <2> QED
    BY <1>14, <2>1, NoneIsNoDomain, SavedAs
<1>16. j \in DOMAIN stored'[m].accounts /\ stored'[m].accounts[j] = next
  <2>1. Heal(new[m]).accounts = [x \in DOMAIN new[m].accounts |-> Normal(new[m].accounts[x])]
    BY <1>14, HealEffect
  <2> QED
    BY <1>10, <1>11, <1>14, <1>15, <2>1
<1>17. stored'[m].active = next.key
  BY <1>8, <1>9, <1>14, <1>15, <1>16, HealEffect DEF Usable
<1>18. stored'[m] # NoDomain
  BY <1>14, <1>15, HealFits, NoneIsNoDomain
<1> QED
  BY <1>9, <1>16, <1>17, <1>18 DEF AccountsOf, Range

-----------------------------------------------------------------------------
(* An import                                                               *)

\* What normalising changes of an account, and when it changes nothing.
LEMMA NormalMeans ==
    ASSUME NEW a \in Honest
    PROVE  /\ Normal(a).refresh = a.refresh /\ Normal(a).expires = a.expires
           /\ Normal(a).key \in {a.key} \cup Ids
           /\ Normal(a) = a <=> /\ a.id = NoId => a.claim = NoId
                                /\ a.id # NoId => a.key \in OddKeys \cup {a.id}
<1> DEFINE id == IF a.id = NoId THEN a.claim ELSE a.id
           key == IF id = NoId \/ a.key \in OddKeys THEN a.key ELSE id
           b == [a EXCEPT !.id = id, !.key = key]
<1>1. Normal(a) = b
  BY DEF Normal
<1>2. a \in Accounts /\ id \in Ids \cup {NoId}
  BY DEF Honest, Accounts
<1>3. key \in {a.key} \cup Ids
  BY <1>2
<1>4. /\ a.id = id /\ a.key = key <=> /\ a.id = NoId => a.claim = NoId
                                      /\ a.id # NoId => a.key \in OddKeys \cup {a.id}
  OBVIOUS
<1> HIDE DEF id, key
<1>5. b.refresh = a.refresh /\ b.expires = a.expires /\ b.key = key /\ b.id = id
  BY <1>2 DEF Accounts
<1>6. a.id = id /\ a.key = key => b = a
  BY <1>2 DEF Accounts
<1> HIDE DEF b
<1> QED
  BY <1>1, <1>3, <1>4, <1>5, <1>6

Normals(s) == \A i \in DOMAIN s : Normal(s[i]) = s[i]
\* No key of K is two owners', and every key of s is an identity or one of K.
Owned(K) == \A a, b \in K : a.key # NoKey /\ a.key = b.key => Owner[a.refresh] = Owner[b.refresh]
KeyFrom(a, K) == \/ a.key \in Ids \cup {NoKey}
                 \/ \E b \in K : b.key = a.key /\ Owner[b.refresh] = Owner[a.refresh]
KeysFrom(s, K) == \A i \in DOMAIN s : KeyFrom(s[i], K)

\* An import matches accounts of one owner.
LEMMA MatchOwner ==
    ASSUME NEW K, Owned(K), NEW old \in Honest, NEW in \in Honest, KeyFrom(old, K), KeyFrom(in, K),
           \/ in.key # NoKey /\ old.key = in.key
           \/ in.id # NoId /\ old.id = in.id
           \/ old.refresh = in.refresh
    PROVE  Owner[old.refresh] = Owner[in.refresh]
<1>1. /\ old.id \in {NoId, Owner[old.refresh]} /\ in.id \in {NoId, Owner[in.refresh]}
      /\ old.key \in Ids => old.key = Owner[old.refresh]
      /\ in.key \in Ids => in.key = Owner[in.refresh]
  BY HonestFits
<1>2. CASE in.key # NoKey /\ old.key = in.key
  <2>1. CASE in.key \in Ids
    BY <1>1, <1>2, <2>1
  <2>2. CASE in.key \notin Ids
    BY <1>2, <2>2 DEF Owned, KeyFrom
  <2> QED
    BY <2>1, <2>2
<1>3. CASE in.id # NoId /\ old.id = in.id
  BY <1>1, <1>3
<1> QED
  BY <1>2, <1>3

\* Of two normal records of one account the preferred is normal.
LEMMA PreferredEffect ==
    ASSUME NEW K, Owned(K), NEW old \in Honest, NEW in \in Honest, KeyFrom(old, K), KeyFrom(in, K),
           Normal(old) = old, Normal(in) = in,
           \/ in.key # NoKey /\ old.key = in.key
           \/ in.id # NoId /\ old.id = in.id
           \/ old.refresh = in.refresh
    PROVE  LET p == Preferred(old, in)
               winner == IF in.expires >= old.expires THEN in ELSE old
               loser == IF in.expires >= old.expires THEN old ELSE in
           IN /\ p \in Honest /\ Normal(p) = p /\ KeyFrom(p, K)
              /\ p = [winner EXCEPT !.key = IF winner.key = NoKey THEN loser.key ELSE winner.key]
              /\ p.id = winner.id /\ p.expires = winner.expires /\ p.refresh = winner.refresh
              /\ p.key = IF winner.key = NoKey THEN loser.key ELSE winner.key
              /\ p.expires >= old.expires /\ Owner[p.refresh] = Owner[old.refresh]
<1> DEFINE p == Preferred(old, in)
           winner == IF in.expires >= old.expires THEN in ELSE old
           loser == IF in.expires >= old.expires THEN old ELSE in
           key == IF winner.key = NoKey THEN loser.key ELSE winner.key
<1>1. p = [winner EXCEPT !.key = key]
  BY DEF Preferred
<1>2. p \in Honest
  BY PreferredHonest
<1>3. Owner[old.refresh] = Owner[in.refresh]
  BY MatchOwner
<1>4. in.expires \in Int /\ old.expires \in Int
  BY AuthConstants DEF Honest, Accounts
<1>5. winner.expires >= old.expires
  BY <1>4
<1>6. /\ winner \in Honest /\ loser \in Honest /\ KeyFrom(winner, K) /\ KeyFrom(loser, K)
      /\ Owner[winner.refresh] = Owner[old.refresh] /\ Owner[loser.refresh] = Owner[old.refresh]
      /\ Normal(winner) = winner
  BY <1>3
<1> HIDE DEF winner, loser, p
<1>7. /\ p.id = winner.id /\ p.claim = winner.claim /\ p.expires = winner.expires
      /\ p.refresh = winner.refresh /\ p.key = key
  BY <1>1, <1>6 DEF Honest, Accounts
<1>8. KeyFrom(p, K)
  BY <1>6, <1>7 DEF KeyFrom
<1>9. Normal(p) = p
  <2>1. /\ winner.id = NoId => winner.claim = NoId
        /\ winner.id # NoId => winner.key \in OddKeys \cup {winner.id}
    BY <1>6, NormalMeans
  <2>2. winner.id # NoId => winner.key # NoKey
    BY <1>6, <2>1, KeysApart DEF Honest, Accounts
  <2> QED
    BY <1>2, <1>7, <2>1, <2>2, NormalMeans
<1> QED
  BY <1>1, <1>2, <1>3, <1>5, <1>6, <1>7, <1>8, <1>9 DEF p, winner, loser

LEMMA ImportStep ==
    ASSUME NEW K, Owned(K), NEW s \in Seq(Honest), Normals(s), KeysFrom(s, K),
           NEW account \in Honest, account \in K
    PROVE  LET r == ImportAccount(s, account)
           IN /\ r \in Seq(Honest) /\ Normals(r) /\ KeysFrom(r, K)
              /\ \A j \in DOMAIN s : /\ j \in DOMAIN r /\ r[j].expires >= s[j].expires
                                     /\ Owner[r[j].refresh] = Owner[s[j].refresh]
              /\ \A j \in DOMAIN r : Owner[r[j].refresh] # Owner[account.refresh]
                                     => j \in DOMAIN s /\ r[j] = s[j]
<1> DEFINE in == Normal(account)
           i == ImportMatch(s, in)
           r == ImportAccount(s, account)
<1>1. in \in Honest /\ Normal(in) = in /\ in.refresh = account.refresh /\ KeyFrom(in, K)
  BY NormalHonest, NormalMeans DEF KeyFrom
<1>2. r = IF i = 0 THEN Append(s, in) ELSE [s EXCEPT ![i] = Normal(Preferred(s[i], in))]
  BY DEF ImportAccount
<1>3. r \in Seq(Honest)
  BY ImportAccountFits
<1> HIDE DEF in, r
<1>4. /\ i = 0 \/ i \in DOMAIN s
      /\ i # 0 => \/ in.key # NoKey /\ s[i].key = in.key
                  \/ in.id # NoId /\ s[i].id = in.id
                  \/ s[i].refresh = in.refresh
  BY ImportMatchFits
<1>5. ASSUME NEW j \in DOMAIN s PROVE s[j].expires >= s[j].expires
  <2>1. s[j] \in Honest
    OBVIOUS
  <2>2. s[j].expires \in Int
    BY <2>1, AuthConstants DEF Honest, Accounts
  <2> QED
    BY <2>2
<1> HIDE DEF i
<1>6. DOMAIN s = 1..Len(s) /\ Len(s) \in Nat
  OBVIOUS
<1>7. CASE i = 0
  <2>1. DOMAIN r = 1..(Len(s) + 1) /\ r[Len(s) + 1] = in /\ \A j \in DOMAIN s : r[j] = s[j]
    BY <1>1, <1>2, <1>7
  <2>2. \A j \in DOMAIN r : j \in DOMAIN s \/ j = Len(s) + 1
    BY <1>6, <2>1
  <2>3. \A j \in DOMAIN r : Normal(r[j]) = r[j] /\ KeyFrom(r[j], K)
    BY <1>1, <2>1, <2>2 DEF Normals, KeysFrom
  <2>4. \A j \in DOMAIN s : j \in DOMAIN r
    BY <1>6, <2>1
  <2>5. \A j \in DOMAIN r : Owner[r[j].refresh] # Owner[account.refresh] => j \in DOMAIN s /\ r[j] = s[j]
    BY <1>1, <2>1, <2>2
  <2> QED
    BY <1>3, <1>5, <2>1, <2>3, <2>4, <2>5 DEF Normals, KeysFrom, r
<1>8. CASE i # 0
  <2> DEFINE p == Preferred(s[i], in)
  <2>1. i \in DOMAIN s /\ s[i] \in Honest /\ Normal(s[i]) = s[i] /\ KeyFrom(s[i], K)
    BY <1>4, <1>8 DEF Normals, KeysFrom
  <2>2. /\ Normal(p) = p /\ KeyFrom(p, K) /\ p.expires >= s[i].expires
        /\ Owner[p.refresh] = Owner[s[i].refresh]
    BY <1>1, <1>4, <1>8, <2>1, PreferredEffect
  <2>3. Owner[s[i].refresh] = Owner[account.refresh]
    BY <1>1, <1>4, <1>8, <2>1, MatchOwner
  <2> HIDE DEF p
  <2>4. DOMAIN r = DOMAIN s /\ r[i] = p /\ \A j \in DOMAIN s \ {i} : r[j] = s[j]
    BY <1>2, <1>8, <2>1, <2>2 DEF p
  <2>5. \A j \in DOMAIN r : Normal(r[j]) = r[j] /\ KeyFrom(r[j], K)
    BY <2>2, <2>4 DEF Normals, KeysFrom
  <2>6. \A j \in DOMAIN s : r[j].expires >= s[j].expires /\ Owner[r[j].refresh] = Owner[s[j].refresh]
    BY <1>5, <2>2, <2>4
  <2>7. \A j \in DOMAIN r : Owner[r[j].refresh] # Owner[account.refresh] => j \in DOMAIN s /\ r[j] = s[j]
    BY <2>2, <2>3, <2>4
  <2> QED
    BY <1>3, <2>4, <2>5, <2>6, <2>7 DEF Normals, KeysFrom, r
<1> QED
  BY <1>7, <1>8 DEF r

\* Every account of the domain stays in its place through an import, of its owner.
LEMMA ImportsKeep ==
    ASSUME NEW d \in HonestDomain, NEW source \in HonestDomain, NEW f, Importing(f, d, source),
           NEW K, Owned(K), Range(d.accounts) \cup Range(source.accounts) \subseteq K, Normals(d.accounts)
    PROVE  \A n \in 0..Len(source.accounts) :
             /\ Normals(f[n]) /\ KeysFrom(f[n], K)
             /\ \A j \in DOMAIN d.accounts : /\ j \in DOMAIN f[n] /\ f[n][j].expires >= d.accounts[j].expires
                                             /\ Owner[f[n][j].refresh] = Owner[d.accounts[j].refresh]
<1> DEFINE s == d.accounts
           N == Len(source.accounts)
           Stays(t) == /\ Normals(t) /\ KeysFrom(t, K)
                       /\ \A j \in DOMAIN s : /\ j \in DOMAIN t /\ t[j].expires >= s[j].expires
                                              /\ Owner[t[j].refresh] = Owner[s[j].refresh]
           T == {n \in 0..N : Stays(f[n])}
<1>1. s \in Seq(Honest) /\ source.accounts \in Seq(Honest) /\ N \in Nat
  BY DEF HonestDomain
<1>2. f[0] = s /\ \A n \in 0..N : f[n] \in Seq(Honest)
  BY DEF Importing
<1>3. \A t \in Seq(Honest) : \A j \in DOMAIN t : t[j].expires \in Int
  <2>1. \A t \in Seq(Honest) : \A j \in DOMAIN t : t[j] \in Honest
    OBVIOUS
  <2>2. \A a \in Honest : a.expires \in Int
    BY AuthConstants DEF Honest, Accounts
  <2> QED
    BY <2>1, <2>2
<1>4. Stays(s)
  <2>1. \A j \in DOMAIN s : s[j].expires >= s[j].expires
    BY <1>1, <1>3
  <2>2. \A j \in DOMAIN s : s[j] \in K
    BY DEF Range
  <2> QED
    BY <2>1, <2>2 DEF KeysFrom, KeyFrom
<1>5. ASSUME NEW n \in 0..N, Stays(f[n]), n < N PROVE Stays(f[n + 1])
  <2> DEFINE t == f[n]
             account == source.accounts[n + 1]
             r == f[n + 1]
  <2>1. n + 1 \in 1..N /\ n + 1 \in 0..N /\ (n + 1) - 1 = n
    BY <1>1, <1>5
  <2>2. account \in Honest /\ account \in K
    BY <1>1, <2>1 DEF Range
  <2>3. r = ImportAccount(t, account) /\ t \in Seq(Honest) /\ r \in Seq(Honest)
    BY <1>2, <2>1 DEF Importing
  <2> HIDE DEF t, r, account
  <2>4. /\ Normals(r) /\ KeysFrom(r, K)
        /\ \A j \in DOMAIN t : /\ j \in DOMAIN r /\ r[j].expires >= t[j].expires
                               /\ Owner[r[j].refresh] = Owner[t[j].refresh]
    BY <1>5, <2>2, <2>3, ImportStep DEF t
  <2>5. ASSUME NEW j \in DOMAIN s
        PROVE  /\ j \in DOMAIN r /\ r[j].expires >= s[j].expires
               /\ Owner[r[j].refresh] = Owner[s[j].refresh]
    <3>1. /\ j \in DOMAIN t /\ t[j].expires >= s[j].expires
          /\ Owner[t[j].refresh] = Owner[s[j].refresh]
      BY <1>5, <2>5 DEF t
    <3>2. r[j].expires \in Int /\ t[j].expires \in Int /\ s[j].expires \in Int
      BY <1>1, <1>3, <2>3, <2>4, <3>1
    <3> QED
      BY <2>4, <3>1, <3>2
  <2> QED
    BY <2>4, <2>5 DEF r
<1> HIDE DEF Stays
<1>6. \A n \in 0..N : n \in T
  <2>1. 0 \in T /\ \A n \in 0..N : n \in T /\ n < N => n + 1 \in T
    BY <1>1, <1>2, <1>4, <1>5
  <2> HIDE DEF T, N
  <2> QED
    BY <1>1, <2>1, Upward DEF N
<1> QED
  BY <1>6 DEF Stays

\* What an import saves of a mode that the installation has.
LEMMA ImportSaves ==
    ASSUME AuthInv, Import, NEW m \in AuthModes, legacy[m] # NoDomain
    PROVE  LET d == Ensured(stored, m)[m]
           IN /\ d \in HonestDomain /\ legacy[m] \in HonestDomain
              /\ AccountsOf(stored, m) = d.accounts /\ Normals(d.accounts)
              /\ stored'[m] = Heal(ImportDomain(d, legacy[m])) /\ stored'[m] \in HonestDomain
<1> DEFINE d == Ensured(stored, m)[m]
<1>1. stored \in HonestAuths /\ legacy[m] \in HonestDomain
  BY DEF AuthInv, HonestAuths
<1>2. d \in HonestDomain
  BY <1>1, EnsuredFits
<1>3. AccountsOf(stored, m) = d.accounts /\ Normals(d.accounts)
  <2>1. CASE stored[m] = NoDomain
    <3>1. d = [accounts |-> <<>>, active |-> NoKey]
      BY <1>1, <2>1 DEF Ensured, HonestAuths
    <3> QED
      BY <2>1, <3>1 DEF AccountsOf, Normals
  <2>2. CASE stored[m] # NoDomain
    <3>1. d = stored[m]
      BY <2>2 DEF Ensured
    <3> QED
      BY <2>2, <3>1, StoredNormal DEF AccountsOf, Normals
  <2> QED
    BY <2>1, <2>2
<1>4. Save(Imported(stored), Write("import", legacy))
  BY DEF Import
<1>5. Imported(stored)[m] = ImportDomain(d, legacy[m])
  BY DEF Imported
<1> HIDE DEF d
<1>6. ImportDomain(d, legacy[m]) \in HonestDomain
  BY <1>1, <1>2, ImportDomainFits
<1>7. stored'[m] = Heal(ImportDomain(d, legacy[m]))
  BY <1>4, <1>5, <1>6, NoneIsNoDomain, SavedAs
<1>8. stored'[m] \in HonestDomain
  BY <1>6, <1>7, HealFits
<1> QED
  BY <1>1, <1>2, <1>3, <1>7, <1>8 DEF d

LEMMA ImportKeepsMode ==
    ASSUME AuthInv, Import, NEW m \in AuthModes, KeysOwned(m), NEW a \in Range(AccountsOf(stored, m))
    PROVE  \E b \in Range(AccountsOf(stored', m)) : b.expires >= a.expires /\ Owner[b.refresh] = Owner[a.refresh]
<1>1. stored[m] # NoDomain /\ stored[m] \in HonestDomain /\ Heal(stored[m]) = stored[m]
  <2>1. stored[m] # NoDomain
    BY DEF AccountsOf, Range
  <2> QED
    BY <2>1 DEF AuthInv, HonestAuths, Normalise
<1>2. CASE legacy[m] = NoDomain
  <2>1. Save(Imported(stored), Write("import", legacy)) /\ Imported(stored)[m] = stored[m]
    BY <1>2 DEF Import, Imported
  <2>2. stored'[m] = stored[m]
    BY <1>1, <2>1, SavedAs
  <2>3. a \in Range(AccountsOf(stored', m))
    BY <2>2 DEF AccountsOf
  <2>4. a.expires \in Int
    <3>1. a \in Honest
      BY <1>1 DEF AccountsOf, Range, HonestDomain
    <3> QED
      BY <3>1, AuthConstants DEF Honest, Accounts
  <2> QED
    BY <2>3, <2>4
<1>3. CASE legacy[m] # NoDomain
  <2> DEFINE d == Ensured(stored, m)[m]
             source == legacy[m]
             N == Len(source.accounts)
             K == Range(AccountsOf(stored, m)) \cup Range(AccountsOf(legacy, m))
  <2>1. /\ d \in HonestDomain /\ source \in HonestDomain /\ AccountsOf(stored, m) = d.accounts
        /\ Normals(d.accounts) /\ stored'[m] = Heal(ImportDomain(d, source)) /\ stored'[m] \in HonestDomain
    BY <1>3, ImportSaves
  <2>2. Owned(K) /\ Range(d.accounts) \cup Range(source.accounts) \subseteq K
    BY <1>3, <2>1 DEF KeysOwned, Owned, AccountsOf
  <2> HIDE DEF d, source, K
  <2>3. PICK f : /\ Importing(f, d, source)
                 /\ ImportDomain(d, source) = [accounts |-> f[N], active |-> ImportActive(f[N], d, source)]
    BY <2>1, ImportUnfolds
  <2>4. N \in 0..N
    BY <2>1 DEF HonestDomain
  <2> DEFINE t == f[N]
  <2>5. \A j \in DOMAIN d.accounts : /\ j \in DOMAIN t /\ t[j].expires >= d.accounts[j].expires
                                     /\ Owner[t[j].refresh] = Owner[d.accounts[j].refresh]
    BY <2>1, <2>2, <2>3, <2>4, ImportsKeep
  <2>6. t \in Seq(Honest)
    BY <2>3, <2>4 DEF Importing
  <2>7. ImportDomain(d, source) \in HonestDomain /\ ImportDomain(d, source).accounts = t
    BY <2>1, <2>3, ImportDomainFits
  <2> HIDE DEF t
  <2>8. AccountsOf(stored', m) = [j \in DOMAIN t |-> Normal(t[j])]
    <3>1. Heal(ImportDomain(d, source)).accounts = [j \in DOMAIN t |-> Normal(t[j])]
      BY <2>7, HealEffect
    <3> QED
      BY <2>1, <3>1, NoneIsNoDomain DEF AccountsOf
  <2>9. PICK j \in DOMAIN d.accounts : d.accounts[j] = a
    BY <2>1 DEF Range
  <2>10. Normal(t[j]) \in Range(AccountsOf(stored', m))
    BY <2>5, <2>8, <2>9 DEF Range
  <2>11. Normal(t[j]).expires = t[j].expires /\ Normal(t[j]).refresh = t[j].refresh
    BY <2>5, <2>6, <2>9, NormalMeans
  <2> QED
    BY <2>5, <2>9, <2>10, <2>11
<1> QED
  BY <1>2, <1>3

\* The places ImportMatch chooses from.
StrictPlaces(s, in) ==
  {i \in DOMAIN s : \/ in.key # NoKey /\ s[i].key = in.key
                    \/ in.id # NoId /\ s[i].id = in.id}
SamePlaces(s, in) == {i \in DOMAIN s : s[i].refresh = in.refresh /\ NoId \in {in.id, s[i].id}}
LEMMA ImportPlaces ==
    ASSUME NEW s \in Seq(Honest), NEW in
    PROVE  LET S == StrictPlaces(s, in)
               T == SamePlaces(s, in)
               only == CHOOSE i \in T : TRUE
           IN /\ ImportMatch(s, in) = IF S # {} THEN Min(S) ELSE IF Cardinality(T) = 1 THEN only ELSE 0
              /\ S # {} => Min(S) \in S /\ \A i \in S : Min(S) <= i
              /\ Cardinality(T) = 1 => T = {only}
              /\ 0 \notin S \cup T
<1> DEFINE S == StrictPlaces(s, in)
           T == SamePlaces(s, in)
           only == CHOOSE i \in T : TRUE
           I == {i \in 1..Len(s) : \/ in.key # NoKey /\ s[i].key = in.key
                                   \/ in.id # NoId /\ s[i].id = in.id}
           strict == IF I # {} THEN Min(I) ELSE 0
<1>1. DOMAIN s = 1..Len(s) /\ Len(s) \in Nat
  OBVIOUS
<1>2. S = I /\ S \in SUBSET Nat /\ 0 \notin S \cup T
  <2>1. S = I
    BY <1>1 DEF StrictPlaces
  <2>2. S \subseteq DOMAIN s /\ T \subseteq DOMAIN s
    BY DEF StrictPlaces, SamePlaces
  <2> QED
    BY <1>1, <2>1, <2>2
<1>3. SelectInSeq(s, LAMBDA a : \/ in.key # NoKey /\ a.key = in.key
                                \/ in.id # NoId /\ a.id = in.id) = strict
  BY DEF SelectInSeq
<1>4. T = {i \in DOMAIN s : /\ s[i].refresh = in.refresh
                            /\ NoId \in {in.id, s[i].id}}
  BY DEF SamePlaces
<1>5. ImportMatch(s, in) = IF strict # 0 THEN strict
                           ELSE IF Cardinality(T) = 1 THEN only ELSE 0
  BY <1>3, <1>4 DEF ImportMatch
<1> HIDE DEF I, S, T
<1>6. S # {} => Min(S) \in S /\ \A i \in S : Min(S) <= i
  BY <1>2, LeastIn
<1>7. Cardinality(T) = 1 => T = {only}
  <2>1. T \in SUBSET DOMAIN s /\ IsFiniteSet(DOMAIN s)
    BY <1>1, FS_Interval DEF T, SamePlaces
  <2>2. IsFiniteSet(T)
    BY <2>1, FS_Subset
  <2>3. Cardinality(T) = 1 => \E x : T = {x}
    BY <2>2, FS_Singleton
  <2> QED
    BY <2>3
<1>8. S # {} => Min(S) # 0
  BY <1>2, <1>6
<1> QED
  BY <1>2, <1>5, <1>6, <1>7, <1>8 DEF S, T

\* Importing an account into what it was imported into finds the record that it
\* was merged into, which stays as it is.
LEMMA PreferredAgain ==
    ASSUME NEW K, Owned(K), NEW old \in Honest, NEW in \in Honest, KeyFrom(old, K), KeyFrom(in, K),
           Normal(old) = old, Normal(in) = in,
           \/ in.key # NoKey /\ old.key = in.key
           \/ in.id # NoId /\ old.id = in.id
           \/ old.refresh = in.refresh
    PROVE  Preferred(Preferred(old, in), in) = Preferred(old, in)
<1> DEFINE p == Preferred(old, in)
           winner == IF in.expires >= old.expires THEN in ELSE old
           loser == IF in.expires >= old.expires THEN old ELSE in
           key == IF winner.key = NoKey THEN loser.key ELSE winner.key
<1>1. p = [winner EXCEPT !.key = key] /\ p \in Honest /\ p.key = key /\ p.expires = winner.expires
  BY PreferredEffect
<1>2. in.expires \in Int /\ old.expires \in Int /\ in \in Accounts /\ p \in Accounts
  BY <1>1, AuthConstants DEF Honest, Accounts
<1>3. CASE in.expires >= old.expires
  <2>1. Preferred(p, in) = [in EXCEPT !.key = IF in.key = NoKey THEN p.key ELSE in.key]
    <3> HIDE DEF p
    <3> QED
      BY <1>1, <1>2, <1>3 DEF Preferred
  <2>2. (IF in.key = NoKey THEN p.key ELSE in.key) = key
    BY <1>1, <1>3
  <2> QED
    BY <1>1, <1>3, <2>1, <2>2
<1>4. CASE ~(in.expires >= old.expires)
  <2>1. Preferred(p, in) = [p EXCEPT !.key = IF p.key = NoKey THEN in.key ELSE p.key]
    <3> HIDE DEF p
    <3> QED
      BY <1>1, <1>2, <1>4 DEF Preferred
  <2>2. (IF p.key = NoKey THEN in.key ELSE p.key) = p.key
    BY <1>1, <1>4
  <2> HIDE DEF p
  <2>3. Preferred(p, in) = p
    BY <1>2, <2>1, <2>2 DEF Accounts
  <2> QED
    BY <2>3 DEF p
<1> QED
  BY <1>3, <1>4

LEMMA ImportAgain ==
    ASSUME NEW K, Owned(K), NEW s \in Seq(Honest), Normals(s), KeysFrom(s, K),
           NEW account \in Honest, account \in K
    PROVE  LET in == Normal(account)
               r == ImportAccount(s, account)
               i == ImportMatch(r, in)
           IN \/ i \in DOMAIN r /\ Normal(Preferred(r[i], in)) = r[i]
              \/ \E j, k \in DOMAIN r : j # k /\ r[j].refresh = in.refresh /\ r[k].refresh = in.refresh
<1> DEFINE in == Normal(account)
           i == ImportMatch(s, in)
           r == ImportAccount(s, account)
           S(t) == StrictPlaces(t, in)
           T(t) == SamePlaces(t, in)
<1>1. in \in Honest /\ Normal(in) = in /\ in.refresh = account.refresh /\ KeyFrom(in, K)
  BY NormalHonest, NormalMeans DEF KeyFrom
<1>2. r = IF i = 0 THEN Append(s, in) ELSE [s EXCEPT ![i] = Normal(Preferred(s[i], in))]
  BY DEF ImportAccount
<1>3. r \in Seq(Honest)
  BY ImportAccountFits
<1> HIDE DEF in, r
<1>4. /\ i = 0 \/ i \in DOMAIN s
      /\ i # 0 => \/ in.key # NoKey /\ s[i].key = in.key
                  \/ in.id # NoId /\ s[i].id = in.id
                  \/ s[i].refresh = in.refresh
  BY ImportMatchFits
<1>5. /\ i = IF S(s) # {} THEN Min(S(s)) ELSE IF Cardinality(T(s)) = 1 THEN CHOOSE j \in T(s) : TRUE ELSE 0
      /\ S(s) # {} => Min(S(s)) \in S(s)
      /\ Cardinality(T(s)) = 1 => T(s) = {CHOOSE j \in T(s) : TRUE}
      /\ 0 \notin S(s) \cup T(s)
  BY ImportPlaces
<1>6. /\ ImportMatch(r, in) = IF S(r) # {} THEN Min(S(r))
                              ELSE IF Cardinality(T(r)) = 1 THEN CHOOSE j \in T(r) : TRUE ELSE 0
      /\ S(r) # {} => Min(S(r)) \in S(r)
      /\ Cardinality(T(r)) = 1 => T(r) = {CHOOSE j \in T(r) : TRUE}
  BY <1>3, ImportPlaces
<1>7. DOMAIN s = 1..Len(s) /\ Len(s) \in Nat
  OBVIOUS
<1> HIDE DEF i
<1>8. CASE i = 0
  <2> DEFINE l == Len(s) + 1
  <2>1. DOMAIN r = 1..l /\ r[l] = in /\ (\A j \in DOMAIN s : r[j] = s[j]) /\ l \in DOMAIN r
    BY <1>1, <1>2, <1>7, <1>8
  <2>2. S(s) = {}
    BY <1>5, <1>8
  <2>3. Preferred(in, in) = in
    <3>1. Preferred(in, in) = [in EXCEPT !.key = in.key]
      BY <1>1, PreferredEffect
    <3> QED
      BY <1>1, <3>1 DEF Honest, Accounts
  <2>4. \A j \in DOMAIN r : j \in DOMAIN s \/ j = l
    BY <1>7, <2>1
  <2>5. S(r) \subseteq {l}
    BY <2>1, <2>2, <2>4 DEF StrictPlaces
  <2>6. l \in T(r) \/ l \in S(r)
    BY <2>1 DEF StrictPlaces, SamePlaces
  <2>7. CASE S(r) # {}
    <3>1. ImportMatch(r, in) = l
      BY <1>6, <2>5, <2>7
    <3> QED
      BY <1>1, <2>1, <2>3, <3>1 DEF in, r
  <2>8. CASE S(r) = {} /\ Cardinality(T(r)) = 1
    <3>1. ImportMatch(r, in) = l
      BY <1>6, <2>6, <2>8
    <3> QED
      BY <1>1, <2>1, <2>3, <3>1 DEF in, r
  <2>9. CASE S(r) = {} /\ Cardinality(T(r)) # 1
    <3>1. T(r) # {l}
      BY <2>9, FS_Singleton
    <3>2. PICK j \in T(r) : j # l
      BY <2>6, <2>9, <3>1
    <3>3. j \in DOMAIN r /\ r[j].refresh = in.refresh
      BY <3>2 DEF SamePlaces
    <3> QED
      BY <2>1, <3>2, <3>3 DEF in, r
  <2> QED
    BY <2>7, <2>8, <2>9
<1>9. CASE i # 0
  <2> DEFINE old == s[i]
             p == Preferred(old, in)
  <2>1. i \in DOMAIN s /\ old \in Honest /\ Normal(old) = old /\ KeyFrom(old, K)
    BY <1>4, <1>9 DEF Normals, KeysFrom
  <2>2. LET winner == IF in.expires >= old.expires THEN in ELSE old
            loser == IF in.expires >= old.expires THEN old ELSE in
        IN /\ Normal(p) = p /\ p.id = winner.id /\ p.refresh = winner.refresh
           /\ p.key = IF winner.key = NoKey THEN loser.key ELSE winner.key
    BY <1>1, <1>4, <1>9, <2>1, PreferredEffect
  <2>3. Preferred(p, in) = p
    BY <1>1, <1>4, <1>9, <2>1, PreferredAgain
  <2> HIDE DEF p
  <2>4. DOMAIN r = DOMAIN s /\ r[i] = p /\ \A j \in DOMAIN s \ {i} : r[j] = s[j]
    BY <1>2, <1>9, <2>1, <2>2 DEF p
  <2>5. CASE S(s) # {}
    <3>1. i \in S(s)
      BY <1>5, <2>5
    <3>2. i \in S(r)
      BY <2>1, <2>2, <2>4, <3>1 DEF StrictPlaces
    <3>3. S(r) = S(s)
      BY <2>1, <2>4, <3>1, <3>2 DEF StrictPlaces
    <3>4. ImportMatch(r, in) = i
      BY <1>5, <1>6, <2>5, <3>3
    <3> QED
      BY <2>1, <2>2, <2>3, <2>4, <3>4 DEF in, r
  <2>6. CASE S(s) = {}
    <3>1. T(s) = {i}
      BY <1>5, <1>9, <2>6
    <3>2. old.refresh = in.refresh /\ NoId \in {in.id, old.id}
      BY <3>1 DEF SamePlaces
    <3>3. S(r) \subseteq {i}
      BY <2>4, <2>6 DEF StrictPlaces
    <3>4. CASE S(r) # {}
      <4>1. ImportMatch(r, in) = i
        BY <1>6, <3>3, <3>4
      <4> QED
        BY <2>1, <2>2, <2>3, <2>4, <4>1 DEF in, r
    <3>5. CASE S(r) = {}
      <4>1. i \in T(r)
        <5>1. p.refresh = in.refresh
          BY <2>2, <3>2
        <5>2. ~(in.id # NoId /\ p.id = in.id)
          BY <2>1, <2>4, <3>5 DEF StrictPlaces
        <5>3. NoId \in {in.id, p.id}
          BY <2>2, <3>2, <5>2
        <5> QED
          BY <2>1, <2>4, <5>1, <5>3 DEF SamePlaces
      <4>2. T(r) = {i}
        BY <2>4, <3>1, <4>1 DEF SamePlaces
      <4>3. ImportMatch(r, in) = i
        BY <1>6, <3>5, <4>2, FS_Singleton
      <4> QED
        BY <2>1, <2>2, <2>3, <2>4, <4>3 DEF in, r
    <3> QED
      BY <3>4, <3>5
  <2> QED
    BY <2>5, <2>6
<1> QED
  BY <1>8, <1>9

\* The two have the same records of an owner, in the same places.
Agree(s, t, o) ==
  /\ \A j \in DOMAIN s : Owner[s[j].refresh] = o => j \in DOMAIN t /\ t[j] = s[j]
  /\ \A j \in DOMAIN t : Owner[t[j].refresh] = o => j \in DOMAIN s /\ t[j] = s[j]

LEMMA AgreeMatch ==
    ASSUME NEW K, Owned(K), NEW in \in Honest, KeyFrom(in, K), NEW s \in Seq(Honest), KeysFrom(s, K),
           NEW t \in Seq(Honest), KeysFrom(t, K), Agree(s, t, Owner[in.refresh])
    PROVE  ImportMatch(s, in) = ImportMatch(t, in)
<1> DEFINE Of(u) == StrictPlaces(u, in) \cup SamePlaces(u, in)
<1>1. ASSUME NEW u \in Seq(Honest), KeysFrom(u, K), NEW j \in Of(u)
      PROVE  j \in DOMAIN u /\ Owner[u[j].refresh] = Owner[in.refresh]
  <2>1. /\ j \in DOMAIN u /\ u[j] \in Honest /\ KeyFrom(u[j], K)
        /\ \/ in.key # NoKey /\ u[j].key = in.key
           \/ in.id # NoId /\ u[j].id = in.id
           \/ u[j].refresh = in.refresh
    BY <1>1 DEF StrictPlaces, SamePlaces, KeysFrom
  <2> QED
    BY <2>1, MatchOwner
<1>2. \A j \in Of(s) : j \in DOMAIN t /\ t[j] = s[j]
  BY <1>1 DEF Agree
<1>3. \A j \in Of(t) : j \in DOMAIN s /\ t[j] = s[j]
  BY <1>1 DEF Agree
<1>4. StrictPlaces(s, in) = StrictPlaces(t, in) /\ SamePlaces(s, in) = SamePlaces(t, in)
  BY <1>2, <1>3 DEF StrictPlaces, SamePlaces
<1>5. LET S == StrictPlaces(s, in)
          T == SamePlaces(s, in)
      IN ImportMatch(s, in) = IF S # {} THEN Min(S)
                              ELSE IF Cardinality(T) = 1 THEN CHOOSE i \in T : TRUE ELSE 0
  BY ImportPlaces
<1>6. LET S == StrictPlaces(t, in)
          T == SamePlaces(t, in)
      IN ImportMatch(t, in) = IF S # {} THEN Min(S)
                              ELSE IF Cardinality(T) = 1 THEN CHOOSE i \in T : TRUE ELSE 0
  BY ImportPlaces
<1> QED
  BY <1>4, <1>5, <1>6

\* What an import made of an account its other accounts leave.
LEMMA ImportsSettle ==
    ASSUME NEW d \in HonestDomain, NEW source \in HonestDomain, NEW f, Importing(f, d, source),
           NEW K, Owned(K), Range(d.accounts) \cup Range(source.accounts) \subseteq K, Normals(d.accounts),
           \A i, j \in DOMAIN source.accounts :
             Owner[source.accounts[i].refresh] = Owner[source.accounts[j].refresh] => i = j,
           NEW n \in 1..Len(source.accounts)
    PROVE  Agree(f[n], f[Len(source.accounts)], Owner[source.accounts[n].refresh])
<1> DEFINE N == Len(source.accounts)
           o == Owner[source.accounts[n].refresh]
           T == {k \in 0..N : k < n \/ Agree(f[n], f[k], o)}
<1>1. source.accounts \in Seq(Honest) /\ N \in Nat /\ DOMAIN source.accounts = 1..N
  BY DEF HonestDomain
<1>2. \A k \in 0..N : f[k] \in Seq(Honest) /\ Normals(f[k]) /\ KeysFrom(f[k], K)
  BY ImportsKeep DEF Importing
<1>3. 0 \in T
  BY <1>1
<1>4. ASSUME NEW k \in 0..N, k \in T, k < N PROVE k + 1 \in T
  <2>1. k + 1 \in 1..N /\ k + 1 \in 0..N /\ (k + 1) - 1 = k
    BY <1>1, <1>4
  <2>2. CASE k + 1 < n
    BY <2>1, <2>2
  <2>3. CASE k + 1 = n
    BY <2>1, <2>3 DEF Agree
  <2>4. CASE ~(k + 1 < n) /\ k + 1 # n
    <3>1. ~(k < n)
      BY <1>1, <2>4
    <3>2. Agree(f[n], f[k], o)
      BY <1>4, <3>1
    <3> DEFINE s == f[k]
               account == source.accounts[k + 1]
               r == f[k + 1]
    <3>3. account \in Honest /\ account \in K /\ Owner[account.refresh] # o
      <4>1. account \in Honest /\ account \in Range(source.accounts)
        BY <1>1, <2>1 DEF Range
      <4>2. k + 1 \in DOMAIN source.accounts /\ n \in DOMAIN source.accounts
        BY <1>1, <2>1
      <4> QED
        BY <2>4, <4>1, <4>2
    <3>4. r = ImportAccount(s, account) /\ s \in Seq(Honest) /\ Normals(s) /\ KeysFrom(s, K)
      BY <1>2, <2>1 DEF Importing
    <3> HIDE DEF s, account, r, o
    <3>5. /\ \A j \in DOMAIN s : j \in DOMAIN r /\ Owner[r[j].refresh] = Owner[s[j].refresh]
          /\ \A j \in DOMAIN r : Owner[r[j].refresh] # Owner[account.refresh]
                                 => j \in DOMAIN s /\ r[j] = s[j]
      BY <3>3, <3>4, ImportStep
    <3>6. Agree(f[n], r, o)
      BY <3>2, <3>3, <3>5 DEF Agree, s
    <3> QED
      BY <2>1, <3>6 DEF r
  <2> QED
    BY <2>2, <2>3, <2>4
<1>5. N \in T
  <2> HIDE DEF T
  <2>1. \A k \in 0..N : k \in T
    BY <1>1, <1>3, <1>4, Upward
  <2> QED
    BY <1>1, <2>1
<1> QED
  BY <1>1, <1>5

\* Importing an installation into what came of importing it changes no account,
\* unless two records share a refresh token.
LEMMA ImportsRepeat ==
    ASSUME NEW d \in HonestDomain, NEW source \in HonestDomain,
           NEW f, Importing(f, d, source),
           NEW K, Owned(K), Range(d.accounts) \cup Range(source.accounts) \subseteq K, Normals(d.accounts),
           \A i, j \in DOMAIN source.accounts :
             Owner[source.accounts[i].refresh] = Owner[source.accounts[j].refresh] => i = j,
           NEW e \in HonestDomain, e.accounts = f[Len(source.accounts)], ~Shared(e),
           NEW g, Importing(g, e, source)
    PROVE  g[Len(source.accounts)] = e.accounts
<1> DEFINE N == Len(source.accounts)
           t == e.accounts
           T == {k \in 0..N : g[k] = t}
<1>1. source.accounts \in Seq(Honest) /\ N \in Nat /\ DOMAIN source.accounts = 1..N
  BY DEF HonestDomain
<1>2. \A k \in 0..N : f[k] \in Seq(Honest) /\ Normals(f[k]) /\ KeysFrom(f[k], K)
  BY ImportsKeep DEF Importing
<1>3. t \in Seq(Honest) /\ KeysFrom(t, K)
  BY <1>1, <1>2
<1>4. ASSUME NEW n \in 1..N PROVE ImportAccount(t, source.accounts[n]) = t
  <2> DEFINE account == source.accounts[n]
             in == Normal(account)
             r == f[n]
             s == f[n - 1]
             i == ImportMatch(r, in)
  <2>1. account \in Honest /\ account \in K /\ n \in 0..N /\ n - 1 \in 0..N
    BY <1>1 DEF Range
  <2>2. in \in Honest /\ KeyFrom(in, K) /\ in.refresh = account.refresh
    BY <2>1, NormalHonest, NormalMeans DEF KeyFrom
  <2>3. r = ImportAccount(s, account)
    BY DEF Importing
  <2>4. /\ s \in Seq(Honest) /\ Normals(s) /\ KeysFrom(s, K)
        /\ r \in Seq(Honest) /\ KeysFrom(r, K)
    BY <1>2, <2>1
  <2>5. Agree(r, t, Owner[account.refresh])
    BY ImportsSettle
  <2> HIDE DEF r, s, t, account
  <2>6. \/ i \in DOMAIN r /\ Normal(Preferred(r[i], in)) = r[i]
        \/ \E j, k \in DOMAIN r : j # k /\ r[j].refresh = in.refresh /\ r[k].refresh = in.refresh
    BY <2>1, <2>3, <2>4, ImportAgain
  <2>7. \A j \in DOMAIN r : r[j].refresh = in.refresh => j \in DOMAIN t /\ t[j] = r[j]
    BY <2>2, <2>5 DEF Agree
  <2>8. i \in DOMAIN r /\ Normal(Preferred(r[i], in)) = r[i]
    <3>1. \A j, k \in DOMAIN t : j # k => t[j].refresh # t[k].refresh
      BY DEF Shared, t
    <3> HIDE DEF in, i
    <3> QED
      BY <2>6, <2>7, <3>1
  <2>9. i = ImportMatch(t, in)
    BY <1>3, <2>2, <2>4, <2>5, AgreeMatch
  <2>10. i # 0 /\ i \in DOMAIN t /\ t[i] = r[i]
    <3>1. i # 0
      BY <2>4, <2>8
    <3>2. \/ in.key # NoKey /\ r[i].key = in.key
          \/ in.id # NoId /\ r[i].id = in.id
          \/ r[i].refresh = in.refresh
      BY <2>4, <3>1, ImportMatchFits
    <3>3. r[i] \in Honest /\ KeyFrom(r[i], K)
      BY <2>4, <2>8 DEF KeysFrom
    <3>4. Owner[r[i].refresh] = Owner[account.refresh]
      BY <2>2, <3>2, <3>3, MatchOwner
    <3> QED
      BY <2>5, <2>8, <3>1, <3>4 DEF Agree
  <2>11. ImportAccount(t, account) = [t EXCEPT ![i] = Normal(Preferred(t[i], in))]
    BY <2>9, <2>10 DEF ImportAccount
  <2>12. ImportAccount(t, account) = [t EXCEPT ![i] = t[i]]
    BY <2>8, <2>10, <2>11
  <2> QED
    BY <1>3, <2>10, <2>12 DEF account
<1>5. 0 \in T
  BY <1>1 DEF Importing
<1>6. ASSUME NEW k \in 0..N, k \in T, k < N PROVE k + 1 \in T
  <2>1. k + 1 \in 1..N /\ k + 1 \in 0..N /\ (k + 1) - 1 = k
    BY <1>1, <1>6
  <2>2. g[k + 1] = ImportAccount(g[k], source.accounts[k + 1])
    BY <2>1 DEF Importing
  <2> QED
    BY <1>4, <1>6, <2>1, <2>2
<1> HIDE DEF T
<1>7. \A k \in 0..N : k \in T
  BY <1>1, <1>5, <1>6, Upward
<1> QED
  BY <1>1, <1>7 DEF T

\* The same import again gives the domain it gave.
LEMMA ImportAddsNothing ==
    ASSUME AuthInv, AuthInv', Import, NEW m \in Domains(stored'), KeysOwned(m), OwnersDiffer(m),
           ~Shared(stored'[m])
    PROVE  Normalise(Imported(stored'))[m] = stored'[m]
<1> DEFINE e == stored'[m]
<1>1. m \in AuthModes /\ e # NoDomain /\ e \in HonestDomain /\ Heal(e) = e
  <2>1. m \in AuthModes /\ e # NoDomain /\ e \in HonestDomain \cup {NoDomain}
    BY DEF Domains, AuthInv, HonestAuths
  <2>2. Normalise(stored')[m] = e
    BY DEF AuthInv
  <2> QED
    BY <2>1, <2>2 DEF Normalise
<1>2. Normalise(Imported(stored'))[m] = IF Imported(stored')[m] = NoDomain THEN NoDomain
                                         ELSE Heal(Imported(stored')[m])
  BY <1>1 DEF Normalise
<1>3. CASE legacy[m] = NoDomain
  <2>1. Imported(stored')[m] = e
    BY <1>1, <1>3 DEF Imported
  <2> QED
    BY <1>1, <1>2, <2>1
<1>4. CASE legacy[m] # NoDomain
  <2> DEFINE d == Ensured(stored, m)[m]
             source == legacy[m]
             N == Len(source.accounts)
             x == ImportDomain(d, source)
             y == ImportDomain(e, source)
             K == Range(AccountsOf(stored, m)) \cup Range(AccountsOf(legacy, m))
  <2>1. /\ d \in HonestDomain /\ source \in HonestDomain /\ AccountsOf(stored, m) = d.accounts
        /\ Normals(d.accounts) /\ e = Heal(x)
    BY <1>1, <1>4, ImportSaves
  <2>2. Owned(K) /\ Range(d.accounts) \cup Range(source.accounts) \subseteq K
    BY <1>4, <2>1 DEF KeysOwned, Owned, AccountsOf
  <2>3. \A i, j \in DOMAIN source.accounts :
          Owner[source.accounts[i].refresh] = Owner[source.accounts[j].refresh] => i = j
    BY <1>4 DEF OwnersDiffer, AccountsOf
  <2>4. Imported(stored')[m] = y
    <3>1. Ensured(stored', m)[m] = e
      BY <1>1 DEF Ensured
    <3> QED
      BY <1>1, <1>4, <3>1 DEF Imported
  <2> HIDE DEF d, source, K, e
  <2>5. PICK f : Importing(f, d, source) /\ x = [accounts |-> f[N], active |-> ImportActive(f[N], d, source)]
    BY <2>1, ImportUnfolds
  <2>6. PICK g : Importing(g, e, source) /\ y = [accounts |-> g[N], active |-> ImportActive(g[N], e, source)]
    BY <1>1, <2>1, ImportUnfolds
  <2> DEFINE A == f[N]
  <2>7. N \in 0..N
    BY <2>1 DEF HonestDomain
  <2>8. x \in HonestDomain /\ y \in HonestDomain
    BY <1>1, <2>1, ImportDomainFits
  <2>9. A \in Seq(Honest) /\ Normals(A)
    BY <2>1, <2>2, <2>5, <2>7, ImportsKeep DEF Importing
  <2>10. e.accounts = A
    <3>1. \A i \in DOMAIN x.accounts : Normal(x.accounts[i]) = x.accounts[i]
      BY <2>5, <2>9 DEF Normals
    <3>2. Heal(x).accounts = x.accounts
      BY <2>8, <3>1, HealStays
    <3> QED
      BY <2>1, <2>5, <3>2
  <2>11. g[N] = A
    <3>1. ~Shared(e)
      BY DEF e
    <3> QED
      BY <1>1, <2>1, <2>2, <2>3, <2>5, <2>6, <2>10, <3>1, ImportsRepeat
  <2> HIDE DEF A, x, y
  <2>12. Heal(y) = e
    <3>1. CASE source.active # NoKey /\ \E i \in DOMAIN A : A[i].key = source.active
      <4>1. x = y
        BY <2>5, <2>6, <2>11, <3>1 DEF A, ImportActive
      <4> QED
        BY <2>1, <4>1
    <3>2. CASE ~(source.active # NoKey /\ \E i \in DOMAIN A : A[i].key = source.active)
      <4>1. y = [accounts |-> A, active |-> e.active]
        BY <2>6, <2>11, <3>2 DEF ImportActive
      <4>2. e = [accounts |-> e.accounts, active |-> e.active]
        BY <1>1 DEF HonestDomain
      <4> QED
        BY <1>1, <2>10, <4>1, <4>2
    <3> QED
      BY <3>1, <3>2
  <2> QED
    BY <1>2, <2>4, <2>8, <2>12, NoneIsNoDomain DEF e
<1> QED
  BY <1>3, <1>4

-----------------------------------------------------------------------------
(* The account tools                                                       *)

\* A row of the merged list is a record of the store, by its key.
LEMMA MergedRow ==
    ASSUME AuthInv, NEW i \in DOMAIN Merged(stored)
    PROVE  LET row == Merged(stored)[i]
           IN /\ row \in Honest /\ row.key # NoKey
              /\ \E a \in Records(stored) : row.key = RowKey(a) /\ row.id = a.id /\ row.refresh = a.refresh
              /\ row.enabled => \E a \in Records(stored) : RowKey(a) = row.key /\ a.enabled
<1> DEFINE s == AccountsOf(stored, "native")
           t == AccountsOf(stored, "codex")
           accounts == s \o t
           first == Group(accounts, TRUE)
           others == Group(accounts, FALSE)
           rows == first \o others
           keyed(j) == [Normal(rows[j]) EXCEPT !.key = RowKey(Normal(rows[j]))]
           row == Merged(stored)[i]
<1>1. stored \in HonestAuths
  BY DEF AuthInv
<1>2. "native" \in AuthModes /\ "codex" \in AuthModes
  BY ModesAre
<1>3. s \in Seq(Honest) /\ t \in Seq(Honest) /\ Range(s) \cup Range(t) \subseteq Records(stored)
  BY <1>1, <1>2, AccountsOfFit DEF Records
<1>4. Merged(stored) = [j \in DOMAIN rows |-> keyed(j)]
  BY DEF Merged
<1> HIDE DEF s, t
<1>5. accounts \in Seq(Honest) /\ Range(accounts) \subseteq Records(stored)
  <2>1. ASSUME NEW j \in DOMAIN accounts PROVE accounts[j] \in Range(s) \cup Range(t)
    <3>1. Len(accounts) = Len(s) + Len(t) /\ j \in 1..Len(accounts)
      BY <1>3
    <3>2. CASE j <= Len(s)
      BY <1>3, <3>1, <3>2 DEF Range
    <3>3. CASE ~(j <= Len(s))
      <4>1. accounts[j] = t[j - Len(s)] /\ j - Len(s) \in DOMAIN t
        BY <1>3, <3>1, <3>3
      <4> QED
        BY <4>1 DEF Range
    <3> QED
      BY <3>2, <3>3
  <2>2. accounts \in Seq(Honest)
    BY <1>3
  <2> HIDE DEF accounts
  <2> QED
    BY <1>3, <2>1, <2>2 DEF Range
<1> HIDE DEF accounts
<1>6. /\ first \in Seq(Honest) /\ \A j \in DOMAIN first : RowOf(first[j], Range(accounts))
      /\ others \in Seq(Honest) /\ \A j \in DOMAIN others : RowOf(others[j], Range(accounts))
  BY <1>5, GroupEffect
<1> HIDE DEF first, others
<1>7. ASSUME NEW j \in DOMAIN rows PROVE rows[j] \in Honest /\ RowOf(rows[j], Range(accounts))
  <2>1. Len(rows) = Len(first) + Len(others) /\ j \in 1..Len(rows)
    BY <1>6
  <2>2. CASE j <= Len(first)
    <3>1. j \in DOMAIN first /\ rows[j] = first[j]
      BY <1>6, <2>1, <2>2
    <3> QED
      BY <1>6, <3>1
  <2>3. CASE ~(j <= Len(first))
    <3>1. rows[j] = others[j - Len(first)] /\ j - Len(first) \in DOMAIN others
      BY <1>6, <2>1, <2>3
    <3> QED
      BY <1>6, <3>1
  <2> QED
    BY <2>2, <2>3
<1> DEFINE r == rows[i]
<1>8. i \in DOMAIN rows /\ row = [Normal(r) EXCEPT !.key = RowKey(Normal(r))]
  BY <1>4
<1>9. r \in Honest /\ RowOf(r, Range(accounts))
  BY <1>7, <1>8
<1> HIDE DEF r, row
<1>10. PICK a \in Records(stored) : r = [a EXCEPT !.enabled = r.enabled]
  BY <1>5, <1>9 DEF RowOf
<1>11. a \in Honest /\ Normal(a) = a
  <2>1. PICK m \in AuthModes : a \in Range(AccountsOf(stored, m))
    BY <1>10 DEF Records
  <2>2. stored[m] # NoDomain /\ AccountsOf(stored, m) = stored[m].accounts
    BY <2>1 DEF AccountsOf, Range
  <2> QED
    BY <2>1, <2>2, StoredNormal DEF Range
<1>12. r.id = a.id /\ r.claim = a.claim /\ r.key = a.key /\ r.refresh = a.refresh /\ r.part = a.part
  <2>1. a \in Accounts
    BY <1>11 DEF Honest
  <2> QED
    BY <1>10, <2>1 DEF Accounts
<1>13. Normal(r) = r
  BY <1>9, <1>11, <1>12, NormalMeans
<1>14. RowKey(r) = RowKey(a) /\ RowKey(r) # NoKey
  <2>1. a \in Accounts
    BY <1>11 DEF Honest
  <2> QED
    BY <1>12, <2>1, KeysApart DEF RowKey, Accounts
<1>15. row.id = r.id /\ row.refresh = r.refresh /\ row.enabled = r.enabled /\ row.key = RowKey(r)
  <2> DEFINE key == RowKey(r)
  <2>1. row = [r EXCEPT !.key = key]
    BY <1>8, <1>13
  <2>2. r \in Accounts
    BY <1>9 DEF Honest
  <2> HIDE DEF key
  <2>3. row.id = r.id /\ row.refresh = r.refresh /\ row.enabled = r.enabled /\ row.key = key
    BY <2>1, <2>2 DEF Accounts
  <2> QED
    BY <2>3 DEF key
<1>16. row \in Honest
  <2>1. Merged(stored) \in Seq(Honest)
    BY <1>1, MergedFits
  <2> QED
    BY <2>1 DEF row
<1>17. row.enabled => \E b \in Records(stored) : RowKey(b) = row.key /\ b.enabled
  BY <1>5, <1>9, <1>15 DEF RowOf
<1> QED
  BY <1>10, <1>12, <1>14, <1>15, <1>16, <1>17 DEF row

\* Under keys that tell records apart each gets the key of its row.
LEMMA HydratedEffect ==
    ASSUME AuthInv, KeysTell, NEW m \in AuthModes, stored[m] # NoDomain
    PROVE  LET s == stored[m].accounts
               h == Hydrated(stored[m])
           IN /\ h \in HonestDomain
              /\ h.accounts = [i \in DOMAIN s |-> [s[i] EXCEPT !.key = RowKey(s[i])]]
              /\ \A i \in DOMAIN s : /\ h.accounts[i] \in Honest /\ Normal(h.accounts[i]) = h.accounts[i]
                                     /\ h.accounts[i].key = RowKey(s[i]) /\ h.accounts[i].id = s[i].id
                                     /\ h.accounts[i].refresh = s[i].refresh
                                     /\ h.accounts[i].enabled = s[i].enabled
              /\ \A i, j \in DOMAIN s : h.accounts[i].key = h.accounts[j].key => i = j
<1> DEFINE d == stored[m]
           s == d.accounts
           h == Hydrated(d)
           Before(i) == {j \in 1..(i - 1) : s[j].key = NoKey /\ s[j].part = s[i].part}
           key(i) == IF s[i].key # NoKey THEN s[i].key ELSE Fallback(s[i].part, Cardinality(Before(i)))
           t == [i \in DOMAIN s |-> [s[i] EXCEPT !.key = key(i)]]
           n == [d EXCEPT !.accounts = t]
<1>1. d \in HonestDomain /\ s \in Seq(Honest) /\ \A i \in DOMAIN s : Normal(s[i]) = s[i]
  BY StoredNormal
<1>2. h \in HonestDomain
  BY <1>1, HydratedFits
<1>3. \A i, j \in DOMAIN s : RowKey(s[i]) = RowKey(s[j]) => i = j
  BY DEF KeysTell, Domains
<1>4. h = Reconcile(n)
  BY DEF Hydrated
<1>5. h.accounts = t
  <2>1. n.accounts = t
    BY <1>1 DEF HonestDomain
  <2>2. Reconcile(n).accounts = n.accounts
    <3>1. DOMAIN n = {"accounts", "active"}
      BY <1>1 DEF HonestDomain
    <3> HIDE DEF n
    <3> QED
      BY <3>1 DEF Reconcile
  <2> QED
    BY <1>4, <2>1, <2>2
<1> HIDE DEF h, n
<1>6. ASSUME NEW i \in DOMAIN s PROVE key(i) = RowKey(s[i])
  <2>1. ASSUME s[i].key = NoKey, NEW j \in Before(i) PROVE FALSE
    <3>1. j \in DOMAIN s /\ j # i
      BY <1>1
    <3>2. RowKey(s[j]) = RowKey(s[i])
      BY <2>1 DEF RowKey
    <3> QED
      BY <1>3, <3>1, <3>2
  <2>2. s[i].key = NoKey => Cardinality(Before(i)) = 0
    <3>1. s[i].key = NoKey => Before(i) = {}
      BY <2>1
    <3> HIDE DEF Before
    <3> QED
      BY <3>1, FS_EmptySet
  <2> HIDE DEF Before
  <2> QED
    BY <2>2 DEF RowKey
<1>7. t = [i \in DOMAIN s |-> [s[i] EXCEPT !.key = RowKey(s[i])]]
  BY <1>6
<1> HIDE DEF t, key
<1>8. ASSUME NEW i \in DOMAIN s
      PROVE  LET b == h.accounts[i]
                 a == s[i]
             IN /\ b \in Honest /\ Normal(b) = b /\ b.key = RowKey(a) /\ b.id = a.id
                /\ b.refresh = a.refresh /\ b.enabled = a.enabled
  <2> DEFINE a == s[i]
             b == h.accounts[i]
             k == RowKey(a)
  <2>1. a \in Honest /\ a \in Accounts /\ Normal(a) = a
    BY <1>1, <1>8 DEF Honest
  <2>2. b = [a EXCEPT !.key = k]
    BY <1>5, <1>7, <1>8
  <2>3. b \in Honest
    <3>1. i \in DOMAIN h.accounts
      BY <1>5, <1>7, <1>8
    <3> QED
      BY <1>2, <3>1 DEF HonestDomain
  <2>4. k = a.key \/ a.key = NoKey
    BY DEF RowKey
  <2> HIDE DEF a, b, k
  <2>5. b.key = k /\ b.id = a.id /\ b.claim = a.claim /\ b.refresh = a.refresh /\ b.enabled = a.enabled
    BY <2>1, <2>2 DEF Accounts
  <2>6. a.id # NoId => a.key # NoKey
    BY <2>1, NormalMeans, KeysApart DEF Accounts
  <2>7. Normal(b) = b
    BY <2>1, <2>3, <2>4, <2>5, <2>6, NormalMeans
  <2> QED
    BY <2>3, <2>5, <2>7 DEF a, b, k
<1>9. \A i, j \in DOMAIN s : h.accounts[i].key = h.accounts[j].key => i = j
  BY <1>3, <1>8
<1>10. h.accounts = [i \in DOMAIN s |-> [s[i] EXCEPT !.key = RowKey(s[i])]]
  BY <1>5, <1>7
<1> QED
  BY <1>2, <1>8, <1>9, <1>10 DEF h

\* What the one match is.
LEMMA DomainMatchEffect ==
    ASSUME NEW s \in Seq(Honest), NEW row, \A i, j \in DOMAIN s : s[i].key = s[j].key => i = j
    PROVE  LET n == DomainMatch(s, row)
           IN /\ n # 0 => /\ n \in DOMAIN s
                          /\ \/ s[n].key = row.key
                             \/ row.id # NoId /\ s[n].id = row.id
                             \/ s[n].refresh = row.refresh
              /\ \A i \in DOMAIN s : s[i].key = row.key => n = i
<1> DEFINE Single(S) == IF Cardinality(S) = 1 THEN CHOOSE i \in S : TRUE ELSE 0
           byKey == {i \in DOMAIN s : s[i].key = row.key}
           byId == {i \in DOMAIN s : s[i].id = row.id}
           byRefresh == {i \in DOMAIN s : s[i].refresh = row.refresh}
           n == DomainMatch(s, row)
<1>1. \A S : Single(S) # 0 => Single(S) \in S
  <2> SUFFICES ASSUME NEW S, Cardinality(S) = 1 PROVE (CHOOSE i \in S : TRUE) \in S
    OBVIOUS
  <2> QED
    BY OneOf
<1>2. n = IF byKey # {} THEN Single(byKey)
          ELSE IF row.id # NoId THEN Single(byId) ELSE Single(byRefresh)
  BY DEF DomainMatch
<1>3. ASSUME NEW i \in DOMAIN s, s[i].key = row.key PROVE n = i
  <2>1. byKey = {i}
    BY <1>3
  <2>2. Single({i}) = i
    BY FS_Singleton
  <2> QED
    BY <1>2, <2>1, <2>2
<1> HIDE DEF Single
<1>4. n # 0 => n \in byKey \/ (row.id # NoId /\ n \in byId) \/ n \in byRefresh
  <2> HIDE DEF byKey, byId, byRefresh, n
  <2> QED
    BY <1>1, <1>2
<1> HIDE DEF n
<1> QED
  BY <1>3, <1>4 DEF n

\* What a tool saves of a domain.
LEMMA ToolEffect ==
    ASSUME AuthInv, KeysTell, NEW tool \in {"switch", "toggle", "remove"},
           NEW i \in DOMAIN Merged(stored), WithTool(tool, i), NEW m \in AuthModes, stored[m] # NoDomain
    PROVE  LET row == Merged(stored)[i]
               s == Hydrated(stored[m]).accounts
               n == DomainMatch(s, row)
           IN /\ stored'[m] # NoDomain
              /\ stored'[m].accounts = CASE tool = "switch" \/ n = 0 -> s
                                         [] tool = "toggle" /\ n # 0 -> [s EXCEPT ![n].enabled = ~row.enabled]
                                         [] tool = "remove" /\ n # 0 -> RemoveAt(s, n)
              /\ tool = "switch" /\ Usable(s, row.key) => stored'[m].active = row.key
<1> DEFINE row == Merged(stored)[i]
           h == Hydrated(stored[m])
           s == h.accounts
           n == DomainMatch(s, row)
           c == ToolChange(tool, h, row)
           new == [x \in AuthModes |-> IF stored[x] = NoDomain THEN NoDomain
                                       ELSE ToolChange(tool, Hydrated(stored[x]), row)]
           t == CASE tool = "switch" \/ n = 0 -> s
                  [] tool = "toggle" /\ n # 0 -> [s EXCEPT ![n].enabled = ~row.enabled]
                  [] tool = "remove" /\ n # 0 -> RemoveAt(s, n)
<1>1. /\ h \in HonestDomain /\ DOMAIN s = DOMAIN stored[m].accounts
      /\ \A j \in DOMAIN s : s[j] \in Honest /\ Normal(s[j]) = s[j]
  BY HydratedEffect
<1>2. row \in Honest
  BY MergedRow
<1>3. Save(new, Write(tool, i))
  BY DEF WithTool
<1>4. new[m] = c
  OBVIOUS
<1> HIDE DEF row, h, new
<1>5. c \in HonestDomain
  BY <1>1, <1>2, ToolChangeFits
<1>6. stored'[m] = Heal(c) /\ stored'[m] # NoDomain
  <2>1. Heal(c) \in HonestDomain
    BY <1>5, HealFits
  <2> HIDE DEF c
  <2> QED
    BY <1>3, <1>4, <1>5, <2>1, NoneIsNoDomain, SavedAs
<1>7. n = 0 \/ n \in DOMAIN s
  BY DomainMatchFits
<1> HIDE DEF n
<1>8. s \in Seq(Honest) /\ h \in [accounts : Seq(Honest), active : Keys \cup {NoKey}]
  BY <1>1 DEF HonestDomain
<1>9. c.accounts = t /\ (tool = "switch" /\ Usable(s, row.key) => c.active = row.key)
  <2>1. CASE tool = "switch"
    <3>1. c = IF Usable(s, row.key) THEN [h EXCEPT !.active = row.key] ELSE h
      BY <2>1 DEF ToolChange
    <3> QED
      BY <1>8, <2>1, <3>1
  <2>2. CASE tool = "toggle"
    <3>1. c = IF n = 0 THEN h ELSE [h EXCEPT !.accounts[n].enabled = ~row.enabled]
      BY <2>2 DEF ToolChange, n
    <3> QED
      BY <1>8, <2>2, <3>1
  <2>3. CASE tool = "remove"
    <3>1. c = IF n = 0 THEN h ELSE [h EXCEPT !.accounts = RemoveAt(s, n)]
      BY <2>3 DEF ToolChange, n
    <3> QED
      BY <1>8, <2>3, <3>1
  <2> QED
    BY <2>1, <2>2, <2>3
<1>10. \A j \in DOMAIN t : Normal(t[j]) = t[j]
  <2>1. CASE tool = "switch" \/ n = 0
    BY <1>1, <2>1
  <2>2. CASE tool = "toggle" /\ n # 0
    <3> DEFINE a == [s[n] EXCEPT !.enabled = ~row.enabled]
    <3>1. s[n] \in Honest /\ s[n] \in Accounts /\ Normal(s[n]) = s[n] /\ (~row.enabled) \in BOOLEAN
      BY <1>1, <1>7, <2>2 DEF Honest
    <3>2. a \in Honest
      BY <3>1, EnabledFits
    <3>3. a.id = s[n].id /\ a.claim = s[n].claim /\ a.key = s[n].key
      BY <3>1 DEF Accounts
    <3>4. Normal(a) = a
      <4> HIDE DEF a
      <4> QED
        BY <3>1, <3>2, <3>3, NormalMeans
    <3>5. t = [s EXCEPT ![n] = a]
      BY <2>2
    <3> HIDE DEF a
    <3>6. DOMAIN t = DOMAIN s /\ t[n] = a /\ \A j \in DOMAIN s \ {n} : t[j] = s[j]
      BY <1>7, <2>2, <3>5
    <3> HIDE DEF t
    <3> QED
      BY <1>1, <3>4, <3>6
  <2>3. CASE tool = "remove" /\ n # 0
    <3>1. t = RemoveAt(s, n) /\ Range(RemoveAt(s, n)) = {s[j] : j \in DOMAIN s \ {n}}
      BY <1>7, <1>8, <2>3, RemovedElements
    <3> HIDE DEF t
    <3>2. \A j \in DOMAIN t : \E k \in DOMAIN s : t[j] = s[k]
      BY <3>1 DEF Range
    <3> QED
      BY <1>1, <3>2
  <2> QED
    BY <2>1, <2>2, <2>3
<1> HIDE DEF t, c
<1>11. Heal(c).accounts = t
  BY <1>5, <1>9, <1>10, HealStays
<1>12. tool = "switch" /\ Usable(s, row.key) => stored'[m].active = row.key
  <2> SUFFICES ASSUME tool = "switch", Usable(s, row.key) PROVE Heal(c).active = row.key
    BY <1>6
  <2>1. Heal(c).accounts = s
    BY <1>11 DEF t
  <2>2. c.active = row.key
    BY <1>9
  <2>3. Usable(Heal(c).accounts, c.active) => Heal(c).active = c.active
    BY <1>5, HealEffect
  <2> QED
    BY <2>1, <2>2, <2>3
<1> QED
  BY <1>6, <1>7, <1>11, <1>12 DEF t, n, row, h

\* No domain comes of none.
LEMMA ToolNone ==
    ASSUME NEW tool, NEW i, WithTool(tool, i), NEW m \in AuthModes, stored[m] = NoDomain
    PROVE  stored'[m] = NoDomain
<1> DEFINE row == Merged(stored)[i]
           new == [x \in AuthModes |-> IF stored[x] = NoDomain THEN NoDomain
                                       ELSE ToolChange(tool, Hydrated(stored[x]), row)]
<1>1. Save(new, Write(tool, i))
  BY DEF WithTool
<1>2. new[m] = NoDomain
  OBVIOUS
<1> HIDE DEF new
<1> QED
  BY <1>1, <1>2, SavedAs

\* The records of the store after a tool, by their domains.
LEMMA ToolRecords ==
    ASSUME NEW tool, NEW i, WithTool(tool, i), NEW a \in Records(stored')
    PROVE  \E m \in AuthModes : stored[m] # NoDomain /\ stored'[m] # NoDomain /\ a \in Range(stored'[m].accounts)
<1>1. PICK m \in AuthModes : a \in Range(AccountsOf(stored', m))
  BY DEF Records
<1>2. stored'[m] # NoDomain /\ a \in Range(stored'[m].accounts)
  BY <1>1 DEF AccountsOf, Range
<1> QED
  BY <1>2, ToolNone

LEMMA ToggleHits ==
    ASSUME AuthInv, KeysTell, NEW i \in DOMAIN Merged(stored), WithTool("toggle", i),
           NEW a \in Records(stored'), a.key = Merged(stored)[i].key
    PROVE  a.enabled = ~Merged(stored)[i].enabled
<1> DEFINE row == Merged(stored)[i]
<1>1. PICK m \in AuthModes : stored[m] # NoDomain /\ a \in Range(stored'[m].accounts)
  BY ToolRecords
<1> DEFINE s == Hydrated(stored[m]).accounts
           n == DomainMatch(s, row)
           t == stored'[m].accounts
<1>2. /\ s \in Seq(Honest) /\ DOMAIN s = DOMAIN stored[m].accounts
      /\ \A j, k \in DOMAIN stored[m].accounts : s[j].key = s[k].key => j = k
  BY <1>1, HydratedEffect DEF HonestDomain
<1>3. n = 0 \/ n \in DOMAIN s
  BY DomainMatchFits
<1>4. t = IF n = 0 THEN s ELSE [s EXCEPT ![n].enabled = ~row.enabled]
  BY <1>1, <1>3, ToolEffect
<1> HIDE DEF t, s, row
<1>5. \A j \in DOMAIN s : s[j].key = row.key => n = j
  BY <1>2, DomainMatchEffect
<1> HIDE DEF n
<1>6. PICK j \in DOMAIN t : t[j] = a
  BY <1>1 DEF Range, t
<1>7. \A k \in DOMAIN s : s[k] \in Accounts
  BY <1>2 DEF Honest
<1>8. j \in DOMAIN s /\ s[j].key = a.key
  BY <1>3, <1>4, <1>6, <1>7 DEF Accounts
<1>9. n = j /\ n # 0
  <2>1. n = j
    BY <1>5, <1>8 DEF row
  <2> QED
    BY <1>2, <1>8, <2>1
<1> QED
  BY <1>4, <1>6, <1>7, <1>8, <1>9 DEF Accounts, row

LEMMA RemoveHits ==
    ASSUME AuthInv, KeysTell, OneKeyEach, NEW i \in DOMAIN Merged(stored), WithTool("remove", i),
           NEW a \in Records(stored')
    PROVE  LET row == Merged(stored)[i] IN a.key # row.key /\ (row.id # NoId => a.id # row.id)
<1> DEFINE row == Merged(stored)[i]
<1>1. PICK m \in AuthModes : stored[m] # NoDomain /\ a \in Range(stored'[m].accounts)
  BY ToolRecords
<1> DEFINE r == stored[m].accounts
           s == Hydrated(stored[m]).accounts
           n == DomainMatch(s, row)
           t == stored'[m].accounts
<1>2. /\ s \in Seq(Honest) /\ DOMAIN s = DOMAIN r
      /\ \A j \in DOMAIN r : s[j].key = RowKey(r[j]) /\ s[j].id = r[j].id
      /\ \A j, k \in DOMAIN r : s[j].key = s[k].key => j = k
  BY <1>1, HydratedEffect DEF HonestDomain
<1>3. n = 0 \/ n \in DOMAIN s
  BY DomainMatchFits
<1>4. t = IF n = 0 THEN s ELSE RemoveAt(s, n)
  BY <1>1, <1>3, ToolEffect
<1>5. PICK b \in Records(stored) : row.key = RowKey(b) /\ row.id = b.id
  BY MergedRow
<1>6. \A j \in DOMAIN r : r[j] \in Records(stored)
  BY <1>1 DEF Records, AccountsOf, Range
<1>7. ASSUME NEW c \in Records(stored), c.id # NoId PROVE RowKey(c) = c.key
  <2>1. c \in Honest /\ Normal(c) = c
    <3>1. PICK x \in AuthModes : c \in Range(AccountsOf(stored, x))
      BY DEF Records
    <3>2. stored[x] # NoDomain /\ AccountsOf(stored, x) = stored[x].accounts
      BY <3>1 DEF AccountsOf, Range
    <3> QED
      BY <3>1, <3>2, StoredNormal DEF Range
  <2>2. c.key \in OddKeys \cup {c.id} /\ c.id \in Ids
    BY <1>7, <2>1, NormalMeans DEF Honest, Accounts
  <2> QED
    BY <2>2, KeysApart DEF RowKey
<1> HIDE DEF t, s, row, r
<1>8. \A j \in DOMAIN s : s[j].key = row.key => n = j
  BY <1>2, DomainMatchEffect
<1> HIDE DEF n
<1>9. PICK j \in DOMAIN s : a = s[j] /\ (n # 0 => j # n)
  <2>1. CASE n = 0
    BY <1>1, <1>4, <2>1 DEF Range, t
  <2>2. CASE n # 0
    <3>1. Range(RemoveAt(s, n)) = {s[k] : k \in DOMAIN s \ {n}}
      BY <1>2, <1>3, <2>2, RemovedElements
    <3> QED
      BY <1>1, <1>4, <2>2, <3>1 DEF t
  <2> QED
    BY <2>1, <2>2
<1>10. a.key # row.key
  BY <1>2, <1>8, <1>9
<1>11. row.id # NoId => a.id # row.id
  <2> SUFFICES ASSUME row.id # NoId, a.id = row.id PROVE FALSE
    OBVIOUS
  <2>1. j \in DOMAIN r /\ r[j] \in Records(stored) /\ r[j].id = b.id /\ b.id # NoId
    BY <1>2, <1>5, <1>6, <1>9
  <2>2. r[j].key = b.key
    BY <2>1 DEF OneKeyEach
  <2>3. RowKey(r[j]) = RowKey(b)
    BY <1>7, <2>1, <2>2
  <2> QED
    BY <1>2, <1>5, <1>9, <1>10, <2>1, <2>3
<1> QED
  BY <1>10, <1>11 DEF row

LEMMA SwitchHits ==
    ASSUME AuthInv, KeysTell, NEW i \in DOMAIN Merged(stored), Merged(stored)[i].enabled, WithTool("switch", i)
    PROVE  LET key == Merged(stored)[i].key
               where == {m \in Domains(stored') : Usable(stored'[m].accounts, key)}
           IN where # {} /\ \A m \in where : stored'[m].active = key
<1> DEFINE key == Merged(stored)[i].key
           where == {m \in Domains(stored') : Usable(stored'[m].accounts, key)}
<1>1. ASSUME NEW m \in AuthModes, stored[m] # NoDomain
      PROVE  /\ stored'[m] # NoDomain /\ stored'[m].accounts = Hydrated(stored[m]).accounts
             /\ Usable(stored'[m].accounts, key) => stored'[m].active = key
  <2>1. stored'[m] # NoDomain /\ stored'[m].accounts = Hydrated(stored[m]).accounts
    BY <1>1, ToolEffect
  <2> QED
    BY <1>1, <2>1, ToolEffect
<1>2. key # NoKey /\ \E a \in Records(stored) : RowKey(a) = key /\ a.enabled
  BY MergedRow
<1>3. PICK a \in Records(stored) : RowKey(a) = key /\ a.enabled
  BY <1>2
<1>4. PICK m \in AuthModes : a \in Range(AccountsOf(stored, m))
  BY DEF Records
<1>5. stored[m] # NoDomain
  BY <1>4 DEF AccountsOf, Range
<1>6. PICK j \in DOMAIN stored[m].accounts : stored[m].accounts[j] = a
  BY <1>4, <1>5 DEF AccountsOf, Range
<1>7. /\ Hydrated(stored[m]).accounts[j].key = key /\ Hydrated(stored[m]).accounts[j].enabled
      /\ j \in DOMAIN Hydrated(stored[m]).accounts
  BY <1>3, <1>5, <1>6, HydratedEffect
<1>8. Usable(stored'[m].accounts, key)
  BY <1>1, <1>2, <1>5, <1>7 DEF Usable
<1>9. m \in where
  BY <1>1, <1>5, <1>8 DEF Domains
<1>10. ASSUME NEW x \in where PROVE stored'[x].active = key
  <2>1. x \in AuthModes /\ stored'[x] # NoDomain /\ Usable(stored'[x].accounts, key)
    BY <1>10 DEF Domains
  <2>2. stored[x] # NoDomain
    BY <2>1, ToolNone
  <2> QED
    BY <1>1, <2>1, <2>2
<1> QED
  BY <1>9, <1>10

LEMMA ToolSpares ==
    ASSUME AuthInv, KeysTell, NEW tool \in {"switch", "toggle", "remove"},
           NEW i \in DOMAIN Merged(stored), WithTool(tool, i), NEW m \in AuthModes,
           NEW a \in Range(AccountsOf(stored, m)), RowKey(a) # Merged(stored)[i].key,
           a.refresh # Merged(stored)[i].refresh,
           Merged(stored)[i].id # NoId => a.id # Merged(stored)[i].id
    PROVE  [a EXCEPT !.key = RowKey(a)] \in Range(AccountsOf(stored', m))
<1> DEFINE row == Merged(stored)[i]
           r == stored[m].accounts
           s == Hydrated(stored[m]).accounts
           n == DomainMatch(s, row)
           t == stored'[m].accounts
<1>1. stored[m] # NoDomain
  BY DEF AccountsOf, Range
<1>2. /\ s = [j \in DOMAIN r |-> [r[j] EXCEPT !.key = RowKey(r[j])]]
      /\ \A j \in DOMAIN r : s[j].key = RowKey(r[j]) /\ s[j].id = r[j].id /\ s[j].refresh = r[j].refresh
      /\ \A j, k \in DOMAIN r : s[j].key = s[k].key => j = k
  BY <1>1, HydratedEffect
<1>3. s \in Seq(Honest)
  BY <1>1, HydratedEffect DEF HonestDomain
<1>4. n = 0 \/ n \in DOMAIN s
  BY DomainMatchFits
<1>5. /\ stored'[m] # NoDomain
      /\ t = CASE tool = "switch" \/ n = 0 -> s
               [] tool = "toggle" /\ n # 0 -> [s EXCEPT ![n].enabled = ~row.enabled]
               [] tool = "remove" /\ n # 0 -> RemoveAt(s, n)
  BY <1>1, ToolEffect
<1>6. PICK j \in DOMAIN r : r[j] = a
  BY <1>1 DEF AccountsOf, Range
<1> HIDE DEF s, t, row, r
<1>7. j \in DOMAIN s /\ s[j] = [a EXCEPT !.key = RowKey(a)]
  BY <1>2, <1>6
<1>8. n # j
  <2>1. \A k, l \in DOMAIN s : s[k].key = s[l].key => k = l
    BY <1>2
  <2>2. n # 0 => \/ s[n].key = row.key
                 \/ row.id # NoId /\ s[n].id = row.id
                 \/ s[n].refresh = row.refresh
    BY <1>3, <2>1, DomainMatchEffect
  <2>3. s[j].key = RowKey(a) /\ s[j].id = a.id /\ s[j].refresh = a.refresh /\ j # 0
    BY <1>2, <1>6, <1>7, <1>3
  <2> HIDE DEF n
  <2> QED
    BY <2>2, <2>3 DEF row
<1> HIDE DEF n
<1>9. s[j] \in Range(t)
  <2>1. CASE tool = "switch" \/ n = 0
    BY <1>5, <1>7, <2>1 DEF Range
  <2>2. CASE tool = "toggle" /\ n # 0
    <3>1. t = [s EXCEPT ![n].enabled = ~row.enabled]
      BY <1>5, <2>2
    <3>2. j \in DOMAIN t /\ t[j] = s[j]
      BY <1>7, <1>8, <3>1
    <3> QED
      BY <3>2 DEF Range
  <2>3. CASE tool = "remove" /\ n # 0
    <3>1. t = RemoveAt(s, n)
      BY <1>5, <2>3
    <3>2. Range(RemoveAt(s, n)) = {s[k] : k \in DOMAIN s \ {n}}
      BY <1>4, <1>3, <2>3, RemovedElements
    <3> QED
      BY <1>7, <1>8, <3>1, <3>2
  <2> QED
    BY <2>1, <2>2, <2>3
<1> QED
  BY <1>5, <1>7, <1>9 DEF AccountsOf, t

-----------------------------------------------------------------------------
(* The menu                                                                *)

LEMMA MenuIndexShows ==
    ASSUME NEW s \in Seq(Honest), NEW row, NEW m, MenuIndex(s, row, m) # 0
    PROVE  MenuIndex(s, row, m) \in DOMAIN s /\ Shows(row, s[MenuIndex(s, row, m)])
<1> DEFINE other == CHOOSE o \in AuthModes : o # m
           places == <<row.at[m], row.at[other]>>
           P == {j \in 1..Len(places) : places[j] \in DOMAIN s /\ Shows(row, s[places[j]])}
           place == IF P # {} THEN Min(P) ELSE 0
           I == {j \in 1..Len(s) : row.key # NoKey /\ s[j].key = row.key}
           keyed == IF I # {} THEN Min(I) ELSE 0
           J == {j \in 1..Len(s) : Shows(row, s[j])}
           like == IF J # {} THEN Min(J) ELSE 0
<1>1. MenuIndex(s, row, m) = IF place # 0 THEN places[place] ELSE IF keyed # 0 THEN keyed ELSE like
  <2>1. SelectInSeq(places, LAMBDA n : n \in DOMAIN s /\ Shows(row, s[n])) = place
    BY DEF SelectInSeq
  <2>2. SelectInSeq(s, LAMBDA a : row.key # NoKey /\ a.key = row.key) = keyed
    BY DEF SelectInSeq
  <2>3. SelectInSeq(s, LAMBDA a : Shows(row, a)) = like
    BY DEF SelectInSeq
  <2> HIDE DEF place, keyed, like
  <2> QED
    BY <2>1, <2>2, <2>3 DEF MenuIndex
<1>2. place # 0 => places[place] \in DOMAIN s /\ Shows(row, s[places[place]])
  <2>1. Len(places) = 2 /\ P \in SUBSET (1..Len(places))
    OBVIOUS
  <2>2. \A j \in P : places[j] \in DOMAIN s /\ Shows(row, s[places[j]])
    OBVIOUS
  <2> HIDE DEF P, places
  <2>3. Len(places) \in Nat
    BY <2>1
  <2>4. place # 0 => place \in P
    BY <2>1, <2>3, FirstFits
  <2> QED
    BY <2>2, <2>4
<1>3. DOMAIN s = 1..Len(s) /\ Len(s) \in Nat /\ I \in SUBSET (1..Len(s)) /\ J \in SUBSET (1..Len(s))
  OBVIOUS
<1>4. (\A j \in I : Shows(row, s[j])) /\ (\A j \in J : Shows(row, s[j]))
  BY DEF Shows
<1> HIDE DEF I, J, place, places
<1>5. keyed # 0 => keyed \in DOMAIN s /\ Shows(row, s[keyed])
  BY <1>3, <1>4, FirstFits
<1>6. like # 0 => like \in DOMAIN s /\ Shows(row, s[like])
  BY <1>3, <1>4, FirstFits
<1> HIDE DEF keyed, like
<1> QED
  BY <1>1, <1>2, <1>5, <1>6

\* What the menu makes of a domain.
LEMMA MenuChangeEffect ==
    ASSUME NEW choice \in {"toggle", "delete"}, NEW d \in HonestDomain, NEW n \in DOMAIN d.accounts
    PROVE  /\ MenuChange(choice, d, n) \in HonestDomain
           /\ MenuChange(choice, d, n).accounts =
                IF choice = "toggle" THEN [d.accounts EXCEPT ![n].enabled = ~d.accounts[n].enabled]
                ELSE RemoveAt(d.accounts, n)
<1> DEFINE e == ~d.accounts[n].enabled
<1>1. e \in BOOLEAN /\ d.accounts \in Seq(Honest)
  BY DEF HonestDomain
<1>2. CASE choice = "toggle"
  <2>1. MenuChange(choice, d, n) = [d EXCEPT !.accounts[n].enabled = e]
    BY <1>2 DEF MenuChange
  <2> HIDE DEF e
  <2>2. MenuChange(choice, d, n) \in HonestDomain
    <3> SUFFICES [d EXCEPT !.accounts[n].enabled = e] \in HonestDomain
      BY <2>1
    <3> QED
      BY <1>1, RowSetFits, Zenon
  <2>3. [d EXCEPT !.accounts[n].enabled = e].accounts = [d.accounts EXCEPT ![n].enabled = e]
    BY DEF HonestDomain
  <2> QED
    BY <1>2, <2>1, <2>2, <2>3 DEF e
<1>3. CASE choice # "toggle"
  <2>1. MenuChange(choice, d, n) = [d EXCEPT !.accounts = RemoveAt(d.accounts, n)]
    BY <1>3 DEF MenuChange
  <2>2. MenuChange(choice, d, n) \in HonestDomain
    BY <1>1, <2>1, RowSetFits
  <2>3. [d EXCEPT !.accounts = RemoveAt(d.accounts, n)].accounts = RemoveAt(d.accounts, n)
    BY DEF HonestDomain
  <2> QED
    BY <1>3, <2>1, <2>2, <2>3
<1> QED
  BY <1>2, <1>3

LEMMA MenuHits ==
    ASSUME AuthInv, NEW choice \in {"toggle", "delete"}, NEW row, NEW modes, WithMenu(choice, row, modes),
           NEW m \in AuthModes, Len(AccountsOf(stored', m)) < Len(AccountsOf(stored, m)),
           NEW a \in Range(AccountsOf(stored, m)), a \notin Range(AccountsOf(stored', m))
    PROVE  Shows(row, a)
<1> DEFINE place(x) == IF stored[x] = NoDomain THEN 0 ELSE MenuIndex(stored[x].accounts, row, x)
           new == [x \in AuthModes |-> IF x \in modes /\ place(x) # 0
                                       THEN Reconcile(MenuChange(choice, stored[x], place(x)))
                                       ELSE stored[x]]
           n == place(m)
           d == stored[m]
           s == d.accounts
<1>1. Save(new, Write("menu", row))
  BY DEF WithMenu
<1>2. stored'[m] = IF new[m] = NoDomain THEN NoDomain ELSE Heal(new[m])
  BY <1>1, SavedAs
<1>3. d # NoDomain /\ d \in HonestDomain /\ s \in Seq(Honest) /\ AccountsOf(stored, m) = s
  <2>1. d # NoDomain
    BY DEF AccountsOf, Range
  <2> QED
    BY <2>1, StoredNormal DEF AccountsOf
<1>4. \A i \in DOMAIN s : Normal(s[i]) = s[i]
  BY <1>3, StoredNormal
<1>5. stored'[m] # d
  BY DEF AccountsOf
<1>6. Heal(d) = d
  BY <1>3 DEF AuthInv, Normalise
<1>7. m \in modes /\ n # 0 /\ new[m] = Reconcile(MenuChange(choice, d, n))
  BY <1>2, <1>3, <1>5, <1>6
<1>8. n \in DOMAIN s /\ Shows(row, s[n])
  BY <1>3, <1>7, MenuIndexShows
<1> HIDE DEF place, new
<1> DEFINE c == MenuChange(choice, d, n)
<1>9. /\ c \in HonestDomain
      /\ c.accounts = IF choice = "toggle" THEN [s EXCEPT ![n].enabled = ~@] ELSE RemoveAt(s, n)
  <2> HIDE DEF d, n
  <2> QED
    BY <1>3, <1>8, MenuChangeEffect
<1> HIDE DEF c
<1>10. new[m] \in HonestDomain /\ new[m].accounts = c.accounts
  BY <1>7, <1>9, ReconcileFits DEF c
<1>11. stored'[m] = Heal(new[m]) /\ stored'[m] \in HonestDomain
  BY <1>2, <1>10, NoneIsNoDomain, HealFits
<1>12. AccountsOf(stored', m) = [i \in DOMAIN c.accounts |-> Normal(c.accounts[i])]
  <2>1. AccountsOf(stored', m) = stored'[m].accounts
    BY <1>11, NoneIsNoDomain DEF AccountsOf
  <2> QED
    BY <1>10, <1>11, <2>1, HealEffect
<1>13. choice = "delete"
  <2> SUFFICES ASSUME choice = "toggle" PROVE FALSE
    OBVIOUS
  <2>1. DOMAIN AccountsOf(stored', m) = DOMAIN s
    BY <1>3, <1>9, <1>12
  <2>2. stored'[m].accounts \in Seq(Honest) /\ AccountsOf(stored', m) = stored'[m].accounts
    BY <1>11, NoneIsNoDomain DEF AccountsOf, HonestDomain
  <2>3. Len(AccountsOf(stored', m)) = Len(s)
    BY <1>3, <2>1, <2>2
  <2> QED
    BY <1>3, <2>3
<1>14. c.accounts = RemoveAt(s, n) /\ Range(RemoveAt(s, n)) = {s[i] : i \in DOMAIN s \ {n}}
  BY <1>3, <1>8, <1>9, <1>13, RemovedElements
<1>15. ASSUME NEW i \in DOMAIN s, i # n PROVE s[i] \in Range(AccountsOf(stored', m))
  <2>1. PICK j \in DOMAIN c.accounts : c.accounts[j] = s[i]
    BY <1>14, <1>15 DEF Range
  <2> QED
    BY <1>4, <1>12, <2>1 DEF Range
<1> QED
  BY <1>3, <1>8, <1>15 DEF Range

-----------------------------------------------------------------------------
(* The parts together                                                      *)

RecordsInv == AuthInv /\ ScopeInv /\ ModelInv

LEMMA PartsStep ==
    ASSUME [Next]_vars PROVE [AuthNext]_authVars /\ [ScopeNext]_scopeVars /\ [ModelNext]_modelVars
BY DEF Next, vars, Only

LEMMA RecordsStart == Init => RecordsInv /\ FollowInv
BY AuthStarts, ScopeStarts, ModelStarts, FollowStarts DEF Init, RecordsInv

LEMMA RecordsStep == RecordsInv /\ [Next]_vars => RecordsInv'
BY PartsStep, AuthStep, AuthStutters, ScopeStep, ScopeStutters, ModelStep, ModelStutters DEF RecordsInv

LEMMA RecordsInvariant == Spec => []RecordsInv
BY RecordsStart, RecordsStep, PTL DEF Spec

\* Every account has its type, and its identity and key are those of the owner of
\* its tokens, in the store and in the list the tools number, whatever was logged
\* in, imported, refreshed, removed or chosen (upsertAccount, upsertDomainAccount,
\* mergeDomainAccounts).
THEOREM OwnersStayNamed == Spec => [](AuthTypeOK /\ OwnersAreNamed)
<1>1. RecordsInv => AuthTypeOK /\ OwnersAreNamed
  BY AuthTypeFollows, OwnersFollow DEF RecordsInv
<1> QED
  BY <1>1, RecordsInvariant, PTL

\* What a writer of the store leaves is normal: reading it changes nothing
\* (normalizeOpenAIOAuthState).
THEOREM StoredStaysNormal == Spec => []StoredIsNormal
<1>1. RecordsInv => StoredIsNormal
  BY NormalFollows DEF RecordsInv
<1> QED
  BY <1>1, RecordsInvariant, PTL

\* No import and no login loses an account or its tokens, and an import again adds
\* nothing (importLegacyInstallData, persistOAuthTokensForMode).
THEOREM AccountsStayKept == Spec => AccountsAreKept
<1>1. RecordsInv /\ RecordsInv' /\ [Next]_vars =>
        [Wrote("import") => \A m \in Domains(stored') : KeysOwned(m) /\ OwnersDiffer(m) =>
           Shared(stored'[m]) \/ Normalise(Imported(stored'))[m] = stored'[m]]_authVars
  BY PartsStep, WrittenBy, ImportAddsNothing DEF RecordsInv
<1>2. RecordsInv /\ [Next]_vars =>
        [Wrote("import") => \A m \in AuthModes : KeysOwned(m) =>
           \A a \in Range(AccountsOf(stored, m)) : \E b \in Range(AccountsOf(stored', m)) :
             b.expires >= a.expires /\ Owner[b.refresh] = Owner[a.refresh]]_authVars
  BY PartsStep, WrittenBy, ImportKeepsMode DEF RecordsInv
<1>3. RecordsInv /\ [Next]_vars =>
        [Wrote("login") =>
           LET m == last'.what[1]
               in == last'.what[2]
           IN in.id # NoId => \E a \in Range(AccountsOf(stored', m)) :
                a.id = in.id /\ a.refresh = in.refresh /\ a.enabled /\ stored'[m].active = a.key]_authVars
  <2> SUFFICES ASSUME RecordsInv, AuthNext, Wrote("login"), last'.what[2].id # NoId
               PROVE  \E a \in Range(AccountsOf(stored', last'.what[1])) :
                        /\ a.id = last'.what[2].id /\ a.refresh = last'.what[2].refresh
                        /\ a.enabled /\ stored'[last'.what[1]].active = a.key
    BY PartsStep
  <2>1. PICK m \in AuthModes, in \in Logins : Login(m, in) /\ last'.what = <<m, in>>
    BY WrittenBy
  <2> QED
    BY <2>1, LoginSticks DEF RecordsInv
<1>4. Spec => ImportAddsOnce
  BY <1>1, RecordsInvariant, PTL DEF Spec, ImportAddsOnce
<1>5. Spec => ImportKeepsTokens
  BY <1>2, RecordsInvariant, PTL DEF Spec, ImportKeepsTokens
<1>6. Spec => LoginWins
  BY <1>3, RecordsInvariant, PTL DEF Spec, LoginWins
<1> QED
  BY <1>4, <1>5, <1>6 DEF AccountsAreKept

\* What the user does to a row of the tools or of the menu is done to that account,
\* in every mode, and to no other (accounts-tools.ts, findDomainAccountIndex).
THEOREM WritesHitRows == Spec => WritesHitTheirRow
<1>1. ASSUME RecordsInv, AuthNext, NEW tool \in {"switch", "toggle", "remove"}, Wrote(tool)
      PROVE  last'.what \in DOMAIN Merged(stored) /\ WithTool(tool, last'.what)
             /\ (tool = "switch" => Merged(stored)[last'.what].enabled)
  BY <1>1, WrittenBy
<1>2. RecordsInv /\ [Next]_vars =>
        [Wrote("toggle") /\ KeysTell =>
           LET row == Merged(stored)[last'.what]
           IN \A a \in Records(stored') : a.key = row.key => a.enabled = ~row.enabled]_authVars
  BY <1>1, PartsStep, ToggleHits DEF RecordsInv
<1>3. RecordsInv /\ [Next]_vars =>
        [Wrote("remove") /\ KeysTell /\ OneKeyEach =>
           LET row == Merged(stored)[last'.what]
           IN \A a \in Records(stored') : a.key # row.key /\ (row.id # NoId => a.id # row.id)]_authVars
  BY <1>1, PartsStep, RemoveHits DEF RecordsInv
<1>4. RecordsInv /\ [Next]_vars =>
        [Wrote("switch") /\ KeysTell =>
           LET key == Merged(stored)[last'.what].key
               where == {m \in Domains(stored') : Usable(stored'[m].accounts, key)}
           IN where # {} /\ \A m \in where : stored'[m].active = key]_authVars
  BY <1>1, PartsStep, SwitchHits DEF RecordsInv
<1>5. RecordsInv /\ [Next]_vars =>
        [\A tool \in {"switch", "toggle", "remove"} : Wrote(tool) /\ KeysTell =>
           LET row == Merged(stored)[last'.what]
               Other(a) == RowKey(a) # row.key /\ a.refresh # row.refresh /\ (row.id # NoId => a.id # row.id)
           IN \A m \in AuthModes : \A a \in Range(AccountsOf(stored, m)) : Other(a) =>
                [a EXCEPT !.key = RowKey(a)] \in Range(AccountsOf(stored', m))]_authVars
  BY <1>1, PartsStep, ToolSpares DEF RecordsInv
<1>6. RecordsInv /\ [Next]_vars =>
        [Wrote("menu") => \A m \in AuthModes :
           Len(AccountsOf(stored', m)) < Len(AccountsOf(stored, m)) =>
             \A a \in Range(AccountsOf(stored, m)) :
               a \notin Range(AccountsOf(stored', m)) => Shows(last'.what, a)]_authVars
  <2> SUFFICES ASSUME RecordsInv, AuthNext, Wrote("menu"), NEW m \in AuthModes,
                      Len(AccountsOf(stored', m)) < Len(AccountsOf(stored, m)),
                      NEW a \in Range(AccountsOf(stored, m)), a \notin Range(AccountsOf(stored', m))
               PROVE  Shows(last'.what, a)
    BY PartsStep
  <2>1. PICK choice \in {"toggle", "delete"} : \E row, modes : WithMenu(choice, row, modes) /\ last'.what = row
    BY WrittenBy
  <2> QED
    BY <2>1, MenuHits DEF RecordsInv
<1>7. Spec => ToggleSticks
  BY <1>2, RecordsInvariant, PTL DEF Spec, ToggleSticks
<1>8. Spec => RemoveRemoves
  BY <1>3, RecordsInvariant, PTL DEF Spec, RemoveRemoves
<1>9. Spec => SwitchSticks
  BY <1>4, RecordsInvariant, PTL DEF Spec, SwitchSticks
<1>10. Spec => ToolsSpareOthers
  BY <1>5, RecordsInvariant, PTL DEF Spec, ToolsSpareOthers
<1>11. Spec => MenuHitsShown
  BY <1>6, RecordsInvariant, PTL DEF Spec, MenuHitsShown
<1> QED
  BY <1>7, <1>8, <1>9, <1>10, <1>11 DEF WritesHitTheirRow

\* A request keeps what the host set, has no default of another account's catalog,
\* delegates only where the asked account's catalog says so, asks for the encrypted
\* reasoning with a summary, and has a summary a server takes
\* (applySelectedCatalogScopeToPayload, transformOutboundRequestPayload).
THEOREM RequestsAreSound == Spec => [](ScopeTypeOK /\ RequestSound)
<1>1. RecordsInv => ScopeTypeOK /\ RequestSound
  BY ScopeTypeFollows, HostValuesKept, NoForeignDefaultSent, DelegatesEligible, EncryptedFollowsSent,
     ValidSummariesSent DEF RecordsInv, RequestSound
<1> QED
  BY <1>1, RecordsInvariant, PTL

\* Of two requests under one message none takes the other's defaults while its own
\* wait (the queue of chat.params).
THEOREM OwnNotesAreTaken == Spec => TakesOwn
<1> DEFINE OwnFirst == \A r \in Requests :
             LET waiting == {pending[KeyOf[r]][i].of : i \in DOMAIN pending[KeyOf[r]]}
             IN request[r].pc = "params" /\ request'[r].pc = "headers" /\ r \in waiting
                => request'[r].meta.of \in {r, Absent}
<1>1. RecordsInv /\ [Next]_vars => [OwnFirst]_scopeVars
  BY PartsStep, OwnIsTaken DEF RecordsInv, OwnTaken
<1>2. Spec => [][OwnFirst]_scopeVars
  BY <1>1, RecordsInvariant, PTL DEF Spec
<1> QED
  BY <1>2, PTL DEF TakesOwn

\* With Ultra off no model offers it and none has it as its default, in the map the
\* host is given and in the configuration (applyCodexCatalogToProviderModels).
THEOREM UltraStaysOff == Spec => []NoUltraWhenOff
<1>1. RecordsInv => NoUltraWhenOff
  BY UltraOffFollows DEF RecordsInv
<1> QED
  BY <1>1, RecordsInvariant, PTL

\* What is offered of the models of the last catalog is what that catalog makes of an
\* empty map, after any sequence of catalogs, if a custom model that replaces one of a
\* catalog is a copy of one there, and the slug of an alias for a long context is no
\* other model's (applyCodexCatalogToProviderModels).
THEOREM ModelsAreCurrent == NamesApart => (Spec => []MadeOfCurrentCatalog)
<1> SUFFICES ASSUME NamesApart PROVE Spec => []MadeOfCurrentCatalog
  OBVIOUS
<1>1. RecordsInv /\ FollowInv /\ [Next]_vars => FollowInv'
  BY PartsStep, FollowStep, FollowStutters DEF RecordsInv
<1>2. RecordsInv /\ FollowInv => MadeOfCurrentCatalog
  BY CurrentFollows DEF RecordsInv
<1> QED
  BY <1>1, <1>2, RecordsStart, RecordsInvariant, PTL DEF Spec

\* The accounts, the requests and the models together.
THEOREM RecordsAreSound == NamesApart => (Spec => []RecordsSound)
<1> SUFFICES ASSUME NamesApart PROVE Spec => []RecordsSound
  OBVIOUS
<1>1. Spec => []MadeOfCurrentCatalog
  BY ModelsAreCurrent
<1>2. (AuthTypeOK /\ OwnersAreNamed) /\ (ScopeTypeOK /\ RequestSound) /\ NoUltraWhenOff
      /\ MadeOfCurrentCatalog => RecordsSound
  BY DEF RecordsSound
<1> QED
  BY <1>1, <1>2, OwnersStayNamed, RequestsAreSound, UltraStaysOff, PTL
=============================================================================
