-------------------------- MODULE ConfirmationStore --------------------------
(***************************************************************************)
(* The SQLite table of confirmation challenges and the processes that use  *)
(* it: servers, which create challenges and consume granted tokens, and    *)
(* `toolwright confirm`, by which operators grant, deny and list them.     *)
(*                                                                         *)
(* The store's lock is one of threads of one process; between processes    *)
(* only single SQL statements are atomic (the connection autocommits).  A  *)
(* consumption reads the row with one statement and marks it used with     *)
(* another, and every method reads the clock before it waits for the lock  *)
(* and the database, so what it compares with is a time in the past.       *)
(*                                                                         *)
(* A binding stands for all a token is bound to: tool, digest of the       *)
(* request, toolset, digests of the artifacts and of the lockfile.  Tokens *)
(* carry their binding and expiry in their signed text, so these never     *)
(* change; legacy tokens without them are left out, no code issues them.   *)
(***************************************************************************)
EXTENDS Integers

CONSTANTS
  Tokens,    \* challenges that may be created
  Bindings,  \* what calls and tokens are bound to
  Bound,     \* Bound[t]: the binding t carries
  Clients,   \* calls of the store in progress, of any process
  TTL,       \* confirmation_ttl_seconds, in ticks of the clock
  MaxTime    \* the clock stops there

ASSUME StoreAssumption ==
  /\ Bound \in [Tokens -> Bindings]
  /\ TTL \in Nat \ {0}
  /\ MaxTime \in Nat

Status == {"none", "pending", "granted", "denied", "used", "expired"}

\* A row of the table, and the expiry in the text of its token.  That one is
\* rounded down to a whole second: the token may run out before the row, and
\* never after it.
Row ==
  {r \in [status : Status, expires : Nat, tokenExpires : Nat] :
     r.tokenExpires <= r.expires}

NoRow == [status |-> "none", expires |-> 0, tokenExpires |-> 0]

\* A call in progress: what it does next, for which token and with which
\* binding, and the time it read when it began.
Busy ==
  [op : {"consume", "use", "grant"}, token : Tokens, binding : Bindings, at : Nat]

Idle == [op |-> "idle"]

VARIABLES
  now,      \* the clock
  row,      \* row[t]
  client,   \* client[c]
  granted,  \* history: tokens an operator was told are granted
  denied,   \* history: tokens an operator was told are denied
  uses      \* history: successful consumptions of each token

vars == <<now, row, client, granted, denied, uses>>

TypeOK ==
  /\ now \in 0..MaxTime
  /\ row \in [Tokens -> Row]
  /\ client \in [Clients -> Busy \cup {Idle}]
  /\ granted \in SUBSET Tokens
  /\ denied \in SUBSET Tokens
  /\ uses \in [Tokens -> Nat]

Init ==
  /\ now = 0
  /\ row = [t \in Tokens |-> NoRow]
  /\ client = [c \in Clients |-> Idle]
  /\ granted = {}
  /\ denied = {}
  /\ uses = [t \in Tokens |-> 0]

SetStatus(t, status) == row' = [row EXCEPT ![t].status = status]

----------------------------------------------------------------------------
(* Servers.                                                                *)

\* A mistake: the expiry in the token is rounded up.
CreateChallengeRoundingUp(t) ==
  /\ row[t].status = "none"
  /\ row' = [row EXCEPT ![t] = [status |-> "pending", expires |-> now + TTL,
                                tokenExpires |-> now + TTL + 1]]
  /\ UNCHANGED <<now, client, granted, denied, uses>>

\* create_challenge: one INSERT, then the agent has the token.
CreateChallenge(t) ==
  /\ row[t].status = "none"
  /\ \E rounded \in {now + TTL - 1, now + TTL} :
       row' = [row EXCEPT ![t] = [status |-> "pending", expires |-> now + TTL,
                                  tokenExpires |-> rounded]]
  /\ UNCHANGED <<now, client, granted, denied, uses>>

\* consume_if_granted begins: it reads the clock.  The call that retries with
\* the token may be another one than the token was issued for.
BeginConsume(c, t, b) ==
  /\ client[c] = Idle /\ row[t].status # "none"
  /\ client' = [client EXCEPT ![c] =
                  [op |-> "consume", token |-> t, binding |-> b, at |-> now]]
  /\ UNCHANGED <<now, row, granted, denied, uses>>

\* A mistake: the request is not compared with the one the token is for.
ConsumableByAnyone(o) ==
  /\ o.at < row[o.token].tokenExpires
  /\ row[o.token].status = "granted"
  /\ o.at < row[o.token].expires

\* The checks before the UPDATE: expiry and binding of the token's text, then
\* status and expiry of the row.
Consumable(o) ==
  /\ o.at < row[o.token].tokenExpires
  /\ o.binding = Bound[o.token]
  /\ row[o.token].status = "granted"
  /\ o.at < row[o.token].expires

\* The SELECT finds a row that passes.
Select(c) ==
  /\ client[c].op = "consume" /\ Consumable(client[c])
  /\ client' = [client EXCEPT ![c].op = "use"]
  /\ UNCHANGED <<now, row, granted, denied, uses>>

\* It does not, and the call is refused.  The code also marks a row expired
\* that ran out, but never gets there: the token's text runs out first (Row).
Refuse(c) ==
  /\ client[c].op = "consume" /\ ~Consumable(client[c])
  /\ client' = [client EXCEPT ![c] = Idle]
  /\ UNCHANGED <<now, row, granted, denied, uses>>

\* A mistake: UPDATE ... WHERE token_id = ?, whatever the status is by now.
UseAnyStatus(c) ==
  LET t == client[c].token IN
  /\ client[c].op = "use"
  /\ SetStatus(t, "used")
  /\ uses' = [uses EXCEPT ![t] = @ + 1]
  /\ client' = [client EXCEPT ![c] = Idle]
  /\ UNCHANGED <<now, granted, denied>>

\* UPDATE ... WHERE status = 'granted': its row count tells whether this call
\* is the one that consumed the token.
Use(c) ==
  LET t == client[c].token IN
  /\ client[c].op = "use"
  /\ IF row[t].status = "granted"
       THEN SetStatus(t, "used") /\ uses' = [uses EXCEPT ![t] = @ + 1]
       ELSE UNCHANGED <<row, uses>>
  /\ client' = [client EXCEPT ![c] = Idle]
  /\ UNCHANGED <<now, granted, denied>>

----------------------------------------------------------------------------
(* Operators, in processes of their own or in the console of a server.     *)

\* The binding is of no interest to grant.
BeginGrant(c, t) ==
  /\ client[c] = Idle /\ row[t].status # "none"
  /\ client' = [client EXCEPT ![c] =
                  [op |-> "grant", token |-> t, binding |-> Bound[t], at |-> now]]
  /\ UNCHANGED <<now, row, granted, denied, uses>>

\* A mistake: grant does not look at the status of the row.
GrantAnyStatus(c) ==
  LET o == client[c] IN
  /\ o.op = "grant"
  /\ IF o.at < row[o.token].expires
       THEN SetStatus(o.token, "granted") /\ granted' = granted \cup {o.token}
       ELSE UNCHANGED <<row, granted>>
  /\ client' = [client EXCEPT ![c] = Idle]
  /\ UNCHANGED <<now, denied, uses>>

Grant(c) ==
  LET o == client[c] IN
  /\ o.op = "grant"
  /\ IF row[o.token].status = "pending" /\ o.at < row[o.token].expires
       THEN SetStatus(o.token, "granted") /\ granted' = granted \cup {o.token}
       ELSE UNCHANGED <<row, granted>>
  /\ client' = [client EXCEPT ![c] = Idle]
  /\ UNCHANGED <<now, denied, uses>>

\* deny: one UPDATE without a look at the clock.  If it finds nothing to deny
\* it says so and changes nothing.
Deny(t) ==
  /\ row[t].status \in {"pending", "granted"}
  /\ SetStatus(t, "denied")
  /\ denied' = denied \cup {t}
  /\ UNCHANGED <<now, client, granted, uses>>

\* list_pending marks every row that ran out by the time it read, which may be
\* long ago when its UPDATE gets through.
ListPending ==
  /\ \E read \in 0..now :
       row' = [t \in Tokens |->
                 IF /\ row[t].status \in {"pending", "granted"}
                    /\ row[t].expires <= read
                   THEN [row[t] EXCEPT !.status = "expired"]
                   ELSE row[t]]
  /\ UNCHANGED <<now, client, granted, denied, uses>>

----------------------------------------------------------------------------
\* The process of a call crashes, or the database stays locked and it raises.
Abandon(c) ==
  /\ client[c] # Idle
  /\ client' = [client EXCEPT ![c] = Idle]
  /\ UNCHANGED <<now, row, granted, denied, uses>>

Tick ==
  /\ now < MaxTime
  /\ now' = now + 1
  /\ UNCHANGED <<row, client, granted, denied, uses>>

Next ==
  \/ \E t \in Tokens : CreateChallenge(t) \/ Deny(t)
  \/ \E c \in Clients, t \in Tokens :
       BeginGrant(c, t) \/ \E b \in Bindings : BeginConsume(c, t, b)
  \/ \E c \in Clients : \/ Select(c) \/ Refuse(c) \/ Use(c)
                        \/ Grant(c) \/ Abandon(c)
  \/ ListPending
  \/ Tick

Spec == Init /\ [][Next]_vars

----------------------------------------------------------------------------
\* docs/glossary.md:69, "a single-use token": however many calls retry with it
\* at once, in however many processes, one of them consumes it.
SingleUse == \A t \in Tokens : uses[t] <= 1

\* A token whose denial an operator was told of is denied for good: a grant or
\* a consumption under way when it was denied does not get through.
DenialsHold == \A t \in denied : row[t].status = "denied"

\* A consumption is by a call that began before the token ran out and is the
\* one the token was issued for, of a token an operator granted, whatever
\* happened to the row while the call waited for the database.
UsesWhatWasGranted ==
  [][\A t \in Tokens :
       uses'[t] # uses[t] =>
         /\ t \in granted \ denied
         /\ \E c \in Clients : /\ client[c].op = "use" /\ client[c].token = t
                               /\ client[c].binding = Bound[t]
                               /\ client[c].at < row[t].tokenExpires]_vars

\* The table implements the token that is approved once and spent once.
PhaseOf(status) ==
  CASE status \in {"none", "pending"}   -> "waiting"
    [] status = "granted"               -> "approved"
    [] status = "used"                  -> "spent"
    [] status \in {"denied", "expired"} -> "void"

AT == INSTANCE ApprovalToken
        WITH phase <- [t \in Tokens |-> PhaseOf(row[t].status)]
ImplementsApprovalToken == AT!Spec
=============================================================================
