------------------------------- MODULE Pipeline -------------------------------
(***************************************************************************)
(* GovernanceEngine.execute: lockfile approval, policy, confirmation,      *)
(* behavioural rules, circuit breaker, dry run, execution.                 *)
(*                                                                         *)
(* Everything up to the request to the upstream runs without an await: one *)
(* step.  Calls overlap between that request and its answer.  Operators    *)
(* grant and deny tokens meanwhile, the lockfile is reloaded, the console  *)
(* and the command line change the rules, and breakers trip and recover.    *)
(*                                                                         *)
(* The store of tokens is the one ConfirmationStore models inside and the  *)
(* breakers are those of CircuitBreaker: here a token is granted, denied   *)
(* or lapses, and the breaker of some tools refuses whenever it likes.     *)
(* Names of unknown tools and arguments that do not fit the schema are     *)
(* refused first and change nothing.                                       *)
(***************************************************************************)
EXTENDS Policy, SessionRules

CONSTANTS
  Callers,      \* calls that may be in flight at once
  Tokens, Args,
  RuleFiles,    \* sets of active rules that operators write
  Torn,         \* a rules file that is being written: write_text empties it
  Lockfiles,    \* what the lockfiles to come approve
  Trips,        \* tools whose breaker may refuse
  HistoryCap,   \* max_history
  MaxTime, MaxReloads, MaxStarts  \* bounds of the model

ASSUME PipelineAssumption ==
  /\ Torn \notin RuleFiles /\ Lockfiles \subseteq SUBSET Tools /\ Trips \subseteq Tools
  /\ \A rule \in UNION RuleFiles :
       /\ rule.kind = "rate" => rule.limit \in Int
       /\ rule.kind = "sequence" =>
            rule.order \in Seq({rule.order[i] : i \in DOMAIN rule.order})
  /\ IsFiniteSet(Callers) /\ HistoryCap \in Nat \ {0}
  /\ MaxTime \in Nat /\ MaxReloads \in Nat /\ MaxStarts \in Nat

VARIABLES
  now,       \* time.time() and time.monotonic()
  dry,       \* dry_run, set when the server starts
  lock,      \* what the lockfile in memory approves, and its digest
  budgets,   \* the trackers of the policy engine
  tokens,    \* the confirmation store
  rules,     \* the rules in memory
  file,      \* the rules file
  stale,     \* its mtime is not the one the engine remembers
  history,   \* the session history
  calls,     \* calls[c]: the call that waits for the upstream
  starts,    \* history: the requests sent to the upstream
  done,      \* history: the calls that succeeded, none forgotten
  ruled,     \* history: no request was checked against a torn rules file
  apart      \* history: memory and file differ and the mtime does not tell

vars == <<now, dry, lock, budgets, tokens, rules, file, stale, history,
          calls, starts, done, ruled, apart>>

NoToken == "none"
Unused == [status |-> "unused"]
Token == [status : {"pending", "granted", "denied", "consumed"}, tool : Tools,
          arg : Args, version : Nat, granted : BOOLEAN, used : Nat]

Idle == [tool |-> "idle"]
Request == [tool : Tools, arg : Args]
Call == [tool : Tools, arg : Args, time : Nat]

Start == [tool : Tools, arg : Args, time : Nat, token : Tokens \cup {NoToken}]

TypeOK ==
  /\ now \in Nat /\ dry \in BOOLEAN
  /\ lock \in [version : Nat, approves : SUBSET Tools]
  /\ budgets \in Budgets
  /\ \A i \in BudgetRules : /\ budgets[i].start <= now
                            /\ budgets[i].count <= PolicyRules[i].limit
  /\ tokens \in [Tokens -> Token \cup {Unused}]
  /\ rules \in RuleFiles \cup {{}} /\ file \in RuleFiles \cup {Torn}
  /\ stale \in BOOLEAN /\ apart \in BOOLEAN /\ (~stale /\ ~apart => rules = file)
  /\ history \in Seq(Call) /\ Len(history) <= HistoryCap
  /\ calls \in [Callers -> Request \cup {Idle}]
  /\ starts \in Seq(Start) /\ done \in Seq(Request)
  /\ ruled \in BOOLEAN

Init ==
  /\ now = 0 /\ dry \in BOOLEAN
  /\ lock = [version |-> 0, approves |-> Tools]
  /\ budgets = [i \in BudgetRules |-> [start |-> 0, count |-> 0]]
  /\ tokens = [k \in Tokens |-> Unused]
  /\ file \in RuleFiles /\ rules = file /\ stale = FALSE
  /\ history = <<>>
  /\ calls = [c \in Callers |-> Idle]
  /\ starts = <<>> /\ done = <<>>
  /\ ruled = TRUE /\ apart = FALSE

----------------------------------------------------------------------------
(* The decision engine.                                                    *)

\* A mistake: the token outlives the lockfile it was issued under.
ConsumableLater(k, t, arg) ==
  tokens[k].status = "granted" /\ tokens[k].tool = t /\ tokens[k].arg = arg

\* A mistake: a token that nobody has granted yet will do.
ConsumableUnasked(k, t, arg) ==
  /\ tokens[k].status \in {"pending", "granted"}
  /\ tokens[k].tool = t /\ tokens[k].arg = arg /\ tokens[k].version = lock.version

\* consume_if_granted: for the very request and under the same lockfile.
Consumable(k, t, arg) ==
  /\ tokens[k].status = "granted"
  /\ tokens[k].tool = t /\ tokens[k].arg = arg
  /\ tokens[k].version = lock.version

NeedsToken(t) == StepUp(t, budgets, now)

\* What may come with a call as its token; one that is not needed is not looked
\* at.
Shown(t) == {NoToken} \cup (IF NeedsToken(t) THEN Tokens ELSE {})

PolicyAllows(t) == Allowed(t, budgets, now)

\* The decision is ALLOW, with the token that came with the call if it needs
\* one.
Passes(t, arg, k) ==
  /\ t \in lock.approves /\ PolicyAllows(t)
  /\ NeedsToken(t) => k # NoToken /\ Consumable(k, t, arg)

\* A missing approval or digest, the policy, or a token that does not fit.
Deny(t, arg, k) ==
  /\ ~Passes(t, arg, k)
  /\ ~(t \in lock.approves /\ PolicyAllows(t) /\ k = NoToken)
  /\ budgets' = IF t \in lock.approves THEN Evaluated(t, budgets, now) ELSE budgets
  /\ UNCHANGED <<now, dry, lock, tokens, rules, file, stale, history,
                 calls, starts, done, ruled, apart>>

\* create_challenge.
Challenge(t, arg, k) ==
  /\ t \in lock.approves /\ PolicyAllows(t) /\ NeedsToken(t)
  /\ tokens[k] = Unused
  /\ tokens' = [tokens EXCEPT ![k] =
       [status |-> "pending", tool |-> t, arg |-> arg, version |-> lock.version,
        granted |-> FALSE, used |-> lock.version]]
  /\ budgets' = Evaluated(t, budgets, now)
  /\ UNCHANGED <<now, dry, lock, rules, file, stale, history, calls,
                 starts, done, ruled, apart>>

\* The token is consumed and the budget is spent before anything else is asked.
Spend(t, k) ==
  /\ tokens' = IF NeedsToken(t)
                 THEN [tokens EXCEPT ![k].status = "consumed", ![k].used = lock.version]
                 ELSE tokens
  /\ budgets' = Consumed(t, Evaluated(t, budgets, now), now)

----------------------------------------------------------------------------
(* Rules, breaker, execution.                                              *)

\* A mistake: the rules are read when the server starts and not again.
RulesFirst == rules

\* _check_hot_reload; a file that does not parse loads as no rules, and is
\* read again by the next call.
RulesNow == IF ~stale THEN rules ELSE IF file = Torn THEN {} ELSE file

\* A mistake: the mtime is remembered although nothing could be read.
HotReloadOnce ==
  /\ rules' = RulesNow
  /\ stale' = FALSE
  /\ UNCHANGED <<file, apart>>

\* The engine takes the mtime that is there when it has read or written the
\* contents; the command line may have begun or ended a write in between.
RememberMtime ==
  /\ file' \in RuleFiles \cup {Torn}
  /\ stale' = FALSE
  /\ apart' = (file' # rules')

HotReload ==
  /\ rules' = RulesNow
  /\ IF stale /\ file # Torn THEN RememberMtime
                             ELSE UNCHANGED <<file, stale, apart>>

RulesPass(t, arg) == RulesAllow(RulesNow, t, arg, history, now)

\* ALLOW is not yet an execution: a rule, the breaker or the dry run ends it.
Stop(t, arg, k) ==
  /\ Passes(t, arg, k)
  /\ ~RulesPass(t, arg) \/ t \in Trips \/ dry
  /\ Spend(t, k) /\ HotReload
  /\ UNCHANGED <<now, dry, lock, history, calls, starts, done, ruled>>

Execute(c, t, arg, k) ==
  /\ calls[c] = Idle /\ Len(starts) < MaxStarts
  /\ Passes(t, arg, k) /\ RulesPass(t, arg) /\ ~dry
  /\ Spend(t, k) /\ HotReload
  /\ calls' = [calls EXCEPT ![c] = [tool |-> t, arg |-> arg]]
  /\ starts' = Append(starts, [tool |-> t, arg |-> arg, time |-> now,
                               token |-> IF NeedsToken(t) THEN k ELSE NoToken])
  /\ ruled' = (ruled /\ ~(stale /\ file = Torn))
  /\ UNCHANGED <<now, dry, lock, history, done>>

\* Any answer counts, whatever its status.
Respond(c) ==
  /\ calls[c] # Idle
  /\ history' = Recorded(history, [tool |-> calls[c].tool, arg |-> calls[c].arg,
                                   time |-> now], HistoryCap)
  /\ done' = Append(done, calls[c])
  /\ calls' = [calls EXCEPT ![c] = Idle]
  /\ UNCHANGED <<now, dry, lock, budgets, tokens, rules, file, stale, starts, ruled, apart>>

\* An exception or a cancellation: the rules do not hear of the call.
Fail(c) ==
  /\ calls[c] # Idle
  /\ calls' = [calls EXCEPT ![c] = Idle]
  /\ UNCHANGED <<now, dry, lock, budgets, tokens, rules, file, stale, history,
                 starts, done, ruled, apart>>

----------------------------------------------------------------------------
(* What happens around it.                                                 *)

\* grant, deny and the expiry of a token, from the console or elsewhere.
Settle(k, from, to) ==
  /\ tokens[k].status \in from
  /\ tokens' = [tokens EXCEPT ![k].status = to, ![k].granted = @ \/ to = "granted"]
  /\ UNCHANGED <<now, dry, lock, budgets, rules, file, stale, history,
                 calls, starts, done, ruled, apart>>

Grant(k) == Settle(k, {"pending"}, "granted")
Refuse(k) == Settle(k, {"pending", "granted"}, "denied")

\* maybe_reload_lockfile, between two calls.
ReloadLockfile ==
  /\ lock.version < MaxReloads
  /\ \E approves \in Lockfiles :
       lock' = [version |-> lock.version + 1, approves |-> approves]
  /\ UNCHANGED <<now, dry, budgets, tokens, rules, file, stale, history,
                 calls, starts, done, ruled, apart>>

\* The command line writes the rules file, in place.
BeginWrite ==
  /\ file # Torn
  /\ file' = Torn /\ stale' = TRUE /\ apart' = FALSE
  /\ UNCHANGED <<now, dry, lock, budgets, tokens, rules, history, calls,
                 starts, done, ruled>>

EndWrite(new) ==
  /\ file = Torn
  /\ file' = new /\ stale' = TRUE /\ apart' = FALSE
  /\ UNCHANGED <<now, dry, lock, budgets, tokens, rules, history, calls,
                 starts, done, ruled>>

\* The rules are saved, or cannot be: then memory keeps the change, and the file
\* is as it was, or the write failed when it had emptied it.
SaveRules(new) ==
  \/ RememberMtime
  \/ /\ apart' = (~stale /\ file # new)
     /\ UNCHANGED <<file, stale>>
  \/ /\ file' = Torn /\ stale' = TRUE /\ apart' = FALSE

\* The console changes the rules in memory and writes all of them, without a look
\* at the file.
ConsoleRules(new) ==
  /\ rules' = new /\ SaveRules(new)
  /\ UNCHANGED <<now, dry, lock, budgets, tokens, history, calls, starts,
                 done, ruled>>

Tick ==
  /\ now < MaxTime
  /\ now' = now + 1
  /\ UNCHANGED <<dry, lock, budgets, tokens, rules, file, stale, history,
                 calls, starts, done, ruled, apart>>

Next ==
  \/ \E t \in Tools, arg \in Args :
       \/ \E k \in Shown(t) :
            \/ Deny(t, arg, k) \/ Stop(t, arg, k)
            \/ \E c \in Callers : Execute(c, t, arg, k)
       \/ \E k \in Tokens : Challenge(t, arg, k)
  \/ \E c \in Callers : Respond(c) \/ Fail(c)
  \/ \E k \in Tokens : Grant(k) \/ Refuse(k)
  \/ ReloadLockfile
  \/ BeginWrite
  \/ \E new \in RuleFiles : EndWrite(new) \/ ConsoleRules(new)
  \/ Tick

Spec == Init /\ [][Next]_vars

----------------------------------------------------------------------------
\* A request that needs a confirmation is sent once per token, for which an
\* operator confirmed this very request under the lockfile that was in force
\* when it was sent, however calls, reloads and grants interleave.
StartsAreConfirmed ==
  \A i \in DOMAIN starts :
    LET s == starts[i] IN
    s.tool \in (StateChanging \ {t \in Tools : Waived(t)}) \cup Always \/ s.token # NoToken =>
      /\ s.token \in Tokens
      /\ tokens[s.token].status = "consumed" /\ tokens[s.token].granted
      /\ tokens[s.token].tool = s.tool /\ tokens[s.token].arg = s.arg
      /\ tokens[s.token].version = tokens[s.token].used
      /\ \A j \in DOMAIN starts : starts[j].token = s.token => i = j

\* Budget rules that no allow rule precedes.
Binding ==
  {i \in BudgetRules :
     \A j \in 1..i : PolicyRules[j].type = "allow" =>
                       PolicyRules[j].tools \cap PolicyRules[i].tools = {}}

Sent(i, from, to) ==
  {n \in DOMAIN starts : /\ starts[n].tool \in PolicyRules[i].tools
                         /\ starts[n].time \in from..to}

\* No request of a budget's tools goes uncounted in its window.  The windows do not
\* slide, whatever docs/user-guide.md:693 says of them: they start with a look and
\* may touch, and a stretch of a window's length sees up to twice the limit, but
\* never more.
BudgetHolds ==
  \A i \in Binding :
    /\ Cardinality(Sent(i, budgets[i].start, now)) <= budgets[i].count
    /\ \A from \in 0..now :
         Cardinality(Sent(i, from, from + Window - 1)) <= 2 * PolicyRules[i].limit

\* Whatever was forgotten of the session and whoever changed the rules, a request
\* is sent only if the rules in the file hold for all that has been done; if a
\* save failed or the file was written between the reading of its contents and
\* of its mtime, those in memory; if the file is torn as it is read, none.
InOrder(order, t, all) ==
  LET steps == {i \in DOMAIN order : order[i] # t} IN
  \E f \in [steps -> DOMAIN all] :
    /\ \A i \in steps : all[f[i]].tool = order[i]
    /\ \A i, j \in steps : i < j => f[i] < f[j]

RuleHolds(rule, s) ==
  /\ rule.kind = "prerequisite" => rule.required \subseteq Called(done)
  /\ rule.kind = "sequence" => InOrder(rule.order, s.tool, done)
  /\ rule.kind = "prohibition" /\ Len(done) <= HistoryCap =>
       ~rule.always /\ rule.after \cap Called(done) = {}

RulesHold ==
  [][starts' # starts =>
       LET s == starts'[Len(starts')] IN
       \/ stale /\ file = Torn
       \/ \A rule \in IF apart THEN rules ELSE file :
            s.tool \in rule.tools => RuleHolds(rule, s)]_vars

InFlight(t) == {c \in Callers : calls[c] # Idle /\ calls[c].tool = t}

\* The limit of a session is overrun only by calls that were in flight when it
\* was reached, as long as every rules file has it and nothing is forgotten.
RateHolds ==
  ruled /\ Len(done) <= HistoryCap =>
    \A rule \in {r \in UNION RuleFiles : \A f \in RuleFiles : r \in f} :
      rule.kind = "rate" /\ rule.window = 0 /\ rule.perTool /\ rule.limit > 0 =>
        \A t \in rule.tools :
          Cardinality(CallsOf(done, t)) + Cardinality(InFlight(t))
            <= rule.limit + Cardinality(Callers) - 1

\* The tokens as this module has them, granted and denied at once and consumed
\* with the decision, keep the promise that the store keeps.
AT == INSTANCE ApprovalToken WITH
  phase <- [k \in Tokens |-> CASE tokens[k].status = "granted"  -> "approved"
                               [] tokens[k].status = "consumed" -> "spent"
                               [] tokens[k].status = "denied"   -> "void"
                               [] OTHER                         -> "waiting"]

ImplementsApprovalToken == AT!Spec
=============================================================================
