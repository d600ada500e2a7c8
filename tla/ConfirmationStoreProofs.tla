----------------------- MODULE ConfirmationStoreProofs -----------------------
(***************************************************************************)
(* The safety properties of ConfirmationStore, for any number of tokens,   *)
(* bindings and concurrent calls, and any ttl.                             *)
(*                                                                         *)
(* The status of a row alone does not show what happened to a token: the   *)
(* inductive invariant ties it to the history (RowTracks), and says of a   *)
(* call between its two statements that what it checked and cannot change  *)
(* still holds (SelectedIsValid).  What can change, the status, the second *)
(* statement checks again.                                                 *)
(***************************************************************************)
EXTENDS ConfirmationStore, TLAPS

RowTracks ==
  \A t \in Tokens :
    /\ uses[t] = IF row[t].status = "used" THEN 1 ELSE 0
    /\ row[t].status \in {"granted", "used"} => t \in granted
    /\ t \in denied <=> row[t].status = "denied"

SelectedIsValid ==
  \A c \in Clients :
    /\ client[c] # Idle => row[client[c].token].status # "none"
    /\ client[c].op = "use" =>
         /\ client[c].binding = Bound[client[c].token]
         /\ client[c].at < row[client[c].token].tokenExpires

IInv == TypeOK /\ RowTracks /\ SelectedIsValid

\* Idle is no call in progress.
LEMMA IdleIsNotBusy ==
  ASSUME NEW o \in Busy \cup {Idle}
  PROVE  /\ o.op # "idle" => o \in Busy /\ o # Idle
         /\ o # Idle => o \in Busy
BY DEF Idle, Busy

\* A change of the status of one row is well typed and leaves all else alone.
LEMMA SetStatusEffect ==
  ASSUME TypeOK, NEW t \in Tokens, NEW s \in Status, SetStatus(t, s)
  PROVE  /\ row' \in [Tokens -> Row]
         /\ row'[t].status = s
         /\ \A u \in Tokens : /\ row'[u].tokenExpires = row[u].tokenExpires
                              /\ u # t => row'[u] = row[u]
BY DEF TypeOK, SetStatus, Row

\* The initial state satisfies the invariant.
LEMMA InitInvariant == Init => IInv
BY StoreAssumption
   DEF Init, IInv, TypeOK, RowTracks, SelectedIsValid, Row, NoRow, Status, Idle

\* Every step keeps the invariant.
LEMMA NextInvariant == IInv /\ [Next]_vars => IInv'
<1> SUFFICES ASSUME IInv, [Next]_vars PROVE IInv'
  OBVIOUS
<1> USE DEF IInv
<1>t. TypeOK
  OBVIOUS
<1>1. ASSUME NEW t \in Tokens, CreateChallenge(t) PROVE IInv'
  <2>1. PICK rounded \in {now + TTL - 1, now + TTL} :
          row' = [row EXCEPT ![t] = [status |-> "pending", expires |-> now + TTL,
                                     tokenExpires |-> rounded]]
    BY <1>1 DEF CreateChallenge
  <2>2. rounded \in Nat /\ now + TTL \in Nat /\ rounded <= now + TTL
    BY StoreAssumption DEF TypeOK
  <2>3. row' \in [Tokens -> Row]
    BY <2>1, <2>2 DEF TypeOK, Row, Status
  <2>4. /\ row[t].status = "none" /\ row'[t].status = "pending"
        /\ \A u \in Tokens : u # t => row'[u] = row[u]
    BY <1>1, <2>1 DEF CreateChallenge, TypeOK
  <2>5. RowTracks'
    BY <1>1, <2>4 DEF CreateChallenge, RowTracks
  <2>6. SelectedIsValid'
    BY <1>1, <1>t, <2>4, IdleIsNotBusy
       DEF CreateChallenge, SelectedIsValid, TypeOK, Busy, Idle
  <2> QED
    BY <1>1, <2>3, <2>5, <2>6 DEF CreateChallenge, TypeOK
<1>2. ASSUME NEW t \in Tokens, Deny(t) PROVE IInv'
  <2>1. /\ row' \in [Tokens -> Row] /\ row'[t].status = "denied"
        /\ \A u \in Tokens : /\ row'[u].tokenExpires = row[u].tokenExpires
                             /\ u # t => row'[u] = row[u]
    BY <1>2, <1>t, SetStatusEffect DEF Deny, Status
  <2>2. RowTracks'
    BY <1>2, <2>1 DEF Deny, RowTracks, TypeOK
  <2>3. SelectedIsValid'
    BY <1>2, <2>1, IdleIsNotBusy DEF Deny, SelectedIsValid, TypeOK, Busy, Idle
  <2> QED
    BY <1>2, <2>1, <2>2, <2>3 DEF Deny, TypeOK
<1>3. ASSUME NEW c \in Clients, NEW t \in Tokens, BeginGrant(c, t) PROVE IInv'
  <2> DEFINE o == [op |-> "grant", token |-> t, binding |-> Bound[t], at |-> now]
  <2>1. o \in Busy /\ o.op # "use"
    BY StoreAssumption DEF Busy, TypeOK
  <2>2. client' \in [Clients -> Busy \cup {Idle}]
    BY <1>3, <2>1 DEF BeginGrant, TypeOK
  <2>3. SelectedIsValid'
    BY <1>3, <2>1 DEF BeginGrant, SelectedIsValid, TypeOK
  <2> QED
    BY <1>3, <2>2, <2>3 DEF BeginGrant, TypeOK, RowTracks
<1>4. ASSUME NEW c \in Clients, NEW t \in Tokens, NEW b \in Bindings,
             BeginConsume(c, t, b)
      PROVE  IInv'
  <2> DEFINE o == [op |-> "consume", token |-> t, binding |-> b, at |-> now]
  <2>1. o \in Busy /\ o.op # "use"
    BY DEF Busy, TypeOK
  <2>2. client' \in [Clients -> Busy \cup {Idle}]
    BY <1>4, <2>1 DEF BeginConsume, TypeOK
  <2>3. SelectedIsValid'
    BY <1>4, <2>1 DEF BeginConsume, SelectedIsValid, TypeOK
  <2> QED
    BY <1>4, <2>2, <2>3 DEF BeginConsume, TypeOK, RowTracks
<1>5. ASSUME NEW c \in Clients, Select(c) PROVE IInv'
  <2>1. client[c] \in Busy
    BY <1>5, IdleIsNotBusy DEF Select, TypeOK
  <2>2. [client[c] EXCEPT !.op = "use"] \in Busy
    BY <2>1 DEF Busy
  <2>3. client' \in [Clients -> Busy \cup {Idle}]
    BY <1>5, <2>2 DEF Select, TypeOK
  <2>4. client[c] # Idle
    BY <1>5 DEF Select, Idle
  <2>5. SelectedIsValid'
    BY <1>5, <2>1, <2>4 DEF Select, Consumable, SelectedIsValid, TypeOK, Busy
  <2> QED
    BY <1>5, <2>3, <2>5 DEF Select, TypeOK, RowTracks
<1>6. ASSUME NEW c \in Clients, Refuse(c) \/ Abandon(c) PROVE IInv'
  <2>1. /\ client' = [client EXCEPT ![c] = Idle]
        /\ UNCHANGED <<now, row, granted, denied, uses>>
    BY <1>6 DEF Refuse, Abandon
  <2>2. SelectedIsValid'
    BY <2>1 DEF SelectedIsValid, TypeOK, Idle
  <2> QED
    BY <2>1, <2>2 DEF TypeOK, RowTracks
<1>7. ASSUME NEW c \in Clients, Use(c) PROVE IInv'
  <2> DEFINE t == client[c].token
  <2>1. client[c] \in Busy /\ t \in Tokens
    BY <1>7, IdleIsNotBusy DEF Use, TypeOK, Busy
  <2>2. CASE row[t].status = "granted"
    <3>1. SetStatus(t, "used") /\ uses' = [uses EXCEPT ![t] = @ + 1]
      BY <1>7, <2>2 DEF Use
    <3>2. /\ row' \in [Tokens -> Row] /\ row'[t].status = "used"
          /\ \A u \in Tokens : /\ row'[u].tokenExpires = row[u].tokenExpires
                               /\ u # t => row'[u] = row[u]
      BY <1>t, <2>1, <3>1, SetStatusEffect DEF Status
    <3>3. RowTracks'
      BY <1>7, <2>1, <2>2, <3>1, <3>2 DEF Use, RowTracks, TypeOK
    <3>4. SelectedIsValid'
      BY <1>7, <3>2, IdleIsNotBusy DEF Use, SelectedIsValid, TypeOK, Busy, Idle
    <3>5. uses' \in [Tokens -> Nat]
      <4>1. uses[t] + 1 \in Nat
        BY <2>1 DEF TypeOK
      <4> QED
        BY <3>1, <4>1 DEF TypeOK
    <3> QED
      BY <1>7, <3>2, <3>3, <3>4, <3>5 DEF Use, TypeOK
  <2>3. CASE row[t].status # "granted"
    <3>1. /\ client' = [client EXCEPT ![c] = Idle]
          /\ UNCHANGED <<now, row, granted, denied, uses>>
      BY <1>7, <2>3 DEF Use
    <3>2. SelectedIsValid'
      BY <3>1 DEF SelectedIsValid, TypeOK, Idle
    <3> QED
      BY <3>1, <3>2 DEF TypeOK, RowTracks
  <2> QED
    BY <2>2, <2>3
<1>8. ASSUME NEW c \in Clients, Grant(c) PROVE IInv'
  <2> DEFINE t == client[c].token
             ok == row[t].status = "pending" /\ client[c].at < row[t].expires
  <2>1. client[c] \in Busy /\ t \in Tokens
    BY <1>8, IdleIsNotBusy DEF Grant, TypeOK, Busy
  <2>2. CASE ok
    <3>1. SetStatus(t, "granted") /\ granted' = granted \cup {t}
      BY <1>8, <2>2 DEF Grant
    <3>2. /\ row' \in [Tokens -> Row] /\ row'[t].status = "granted"
          /\ \A u \in Tokens : /\ row'[u].tokenExpires = row[u].tokenExpires
                               /\ u # t => row'[u] = row[u]
      BY <1>t, <2>1, <3>1, SetStatusEffect DEF Status
    <3>3. RowTracks'
      BY <1>8, <2>1, <2>2, <3>1, <3>2 DEF Grant, RowTracks
    <3>4. SelectedIsValid'
      BY <1>8, <3>2, IdleIsNotBusy DEF Grant, SelectedIsValid, TypeOK, Busy, Idle
    <3> QED
      BY <1>8, <2>1, <3>1, <3>2, <3>3, <3>4 DEF Grant, TypeOK
  <2>3. CASE ~ok
    <3>1. /\ client' = [client EXCEPT ![c] = Idle]
          /\ UNCHANGED <<now, row, granted, denied, uses>>
      BY <1>8, <2>3 DEF Grant
    <3>2. SelectedIsValid'
      BY <3>1 DEF SelectedIsValid, TypeOK, Idle
    <3> QED
      BY <3>1, <3>2 DEF TypeOK, RowTracks
  <2> QED
    BY <2>2, <2>3
<1>9. CASE ListPending
  <2>1. PICK read \in 0..now :
          row' = [t \in Tokens |->
                    IF /\ row[t].status \in {"pending", "granted"}
                       /\ row[t].expires <= read
                    THEN [row[t] EXCEPT !.status = "expired"]
                    ELSE row[t]]
    BY <1>9 DEF ListPending
  <2>2. \A t \in Tokens :
          /\ row'[t] \in Row
          /\ row'[t].tokenExpires = row[t].tokenExpires
          /\ \/ row'[t] = row[t]
             \/ row[t].status \in {"pending", "granted"} /\ row'[t].status = "expired"
    BY <2>1 DEF TypeOK, Row, Status
  <2>3. row' \in [Tokens -> Row]
    BY <2>1, <2>2
  <2>4. RowTracks'
    BY <1>9, <2>2 DEF ListPending, RowTracks
  <2>5. SelectedIsValid'
    BY <1>9, <2>2, IdleIsNotBusy DEF ListPending, SelectedIsValid, TypeOK, Busy, Idle
  <2> QED
    BY <1>9, <2>3, <2>4, <2>5 DEF ListPending, TypeOK
<1>10. CASE Tick
  <2>1. now' \in 0..MaxTime
    BY <1>10, StoreAssumption DEF Tick, TypeOK
  <2> QED
    BY <1>10, <2>1 DEF Tick, TypeOK, RowTracks, SelectedIsValid
<1>11. CASE UNCHANGED vars
  BY <1>11 DEF vars, TypeOK, RowTracks, SelectedIsValid
<1> QED
  BY <1>1, <1>2, <1>3, <1>4, <1>5, <1>6, <1>7, <1>8, <1>9, <1>10, <1>11 DEF Next

\* The inductive invariant holds in every reachable state.
THEOREM Invariance == Spec => []IInv
BY InitInvariant, NextInvariant, PTL DEF Spec

----------------------------------------------------------------------------
\* Every variable stays within its type.
THEOREM TypeCorrect == Spec => []TypeOK
<1>1. IInv => TypeOK
  BY DEF IInv
<1> QED
  BY <1>1, Invariance, PTL

\* One call at most consumes a token.
THEOREM TokensAreSingleUse == Spec => []SingleUse
<1>1. IInv => SingleUse
  <2> SUFFICES ASSUME IInv, NEW t \in Tokens PROVE uses[t] <= 1
    BY DEF SingleUse
  <2>1. uses[t] \in {0, 1}
    BY DEF IInv, RowTracks
  <2> QED
    BY <2>1
<1> QED
  BY <1>1, Invariance, PTL

\* A denial an operator was told of is final.
THEOREM DenialsAreFinal == Spec => []DenialsHold
<1>1. IInv => DenialsHold
  BY DEF IInv, RowTracks, DenialsHold, TypeOK
<1> QED
  BY <1>1, Invariance, PTL

----------------------------------------------------------------------------
\* Use is the only action that consumes.
LEMMA OnlyUseConsumes ==
  ASSUME [Next]_vars, ~\E c \in Clients : Use(c)
  PROVE  uses' = uses
BY DEF Next, vars, CreateChallenge, Deny, BeginGrant, BeginConsume, Select,
   Refuse, Grant, Abandon, ListPending, Tick

\* A consumption is of a granted token, by the call it was issued for, begun
\* before the token ran out.
THEOREM ConsumptionsAreGranted == Spec => UsesWhatWasGranted
<1> DEFINE A == \A t \in Tokens :
       uses'[t] # uses[t] =>
         /\ t \in granted \ denied
         /\ \E c \in Clients : /\ client[c].op = "use" /\ client[c].token = t
                               /\ client[c].binding = Bound[t]
                               /\ client[c].at < row[t].tokenExpires
<1>1. IInv /\ [Next]_vars => A
  <2> SUFFICES ASSUME IInv, [Next]_vars, NEW t \in Tokens, uses'[t] # uses[t]
               PROVE  /\ t \in granted \ denied
                      /\ \E c \in Clients : /\ client[c].op = "use"
                                            /\ client[c].token = t
                                            /\ client[c].binding = Bound[t]
                                            /\ client[c].at < row[t].tokenExpires
    OBVIOUS
  <2>1. PICK c \in Clients : Use(c)
    BY OnlyUseConsumes
  <2>2. uses \in [Tokens -> Nat]
    BY DEF IInv, TypeOK
  <2>3. client[c].token = t /\ row[t].status = "granted"
    BY <2>1, <2>2 DEF Use
  <2>4. t \in granted \ denied
    BY <2>3 DEF IInv, RowTracks
  <2> QED
    BY <2>1, <2>3, <2>4 DEF Use, IInv, SelectedIsValid
<1>2. Spec => [][A]_vars
  BY <1>1, Invariance, PTL DEF Spec
<1> QED
  BY <1>2 DEF UsesWhatWasGranted

----------------------------------------------------------------------------
\* The phase of every token, as the abstract specification sees it.
Phases == [t \in Tokens |-> PhaseOf(row[t].status)]

\* A change of one status changes one phase.
LEMMA OnePhase ==
  ASSUME TypeOK, NEW t \in Tokens, NEW s \in Status, SetStatus(t, s)
  PROVE  Phases' = [Phases EXCEPT ![t] = PhaseOf(s)]
<1>1. \A u \in Tokens : row'[u].status = IF u = t THEN s ELSE row[u].status
  BY SetStatusEffect
<1>2. \A u \in Tokens :
        PhaseOf(row'[u].status) = IF u = t THEN PhaseOf(s) ELSE PhaseOf(row[u].status)
  BY <1>1
<1> QED
  BY <1>2 DEF Phases

\* Every step is a step of the abstract token, or changes no phase.
LEMMA StepRefinement ==
  ASSUME IInv, [Next]_vars
  PROVE  AT!Next \/ Phases' = Phases
<1>t. TypeOK
  BY DEF IInv
<1>1. ASSUME NEW t \in Tokens, CreateChallenge(t) PROVE Phases' = Phases
  <2>1. /\ row[t].status = "none" /\ row'[t].status = "pending"
        /\ \A u \in Tokens : u # t => row'[u] = row[u]
    BY <1>1, <1>t DEF CreateChallenge, TypeOK
  <2>2. \A u \in Tokens : PhaseOf(row'[u].status) = PhaseOf(row[u].status)
    BY <2>1 DEF PhaseOf
  <2> QED
    BY <2>2 DEF Phases
<1>2. ASSUME NEW t \in Tokens, Deny(t) PROVE AT!Next
  <2>1. Phases' = [Phases EXCEPT ![t] = "void"]
    BY <1>2, <1>t, OnePhase DEF Deny, Status, PhaseOf
  <2>2. Phases[t] \in {"waiting", "approved"}
    BY <1>2 DEF Deny, Phases, PhaseOf
  <2>3. AT!Void({t})
    BY <2>1, <2>2 DEF AT!Void, Phases
  <2> QED
    BY <2>3 DEF AT!Next
<1>3. ASSUME NEW c \in Clients, Use(c), row' # row PROVE AT!Next
  <2> DEFINE t == client[c].token
  <2>1. t \in Tokens
    BY <1>3, <1>t, IdleIsNotBusy DEF Use, TypeOK, Busy
  <2>2. row[t].status = "granted" /\ SetStatus(t, "used")
    BY <1>3 DEF Use
  <2>3. Phases' = [Phases EXCEPT ![t] = "spent"]
    BY <2>1, <2>2, <1>t, OnePhase DEF Status, PhaseOf
  <2>4. Phases[t] = "approved"
    BY <2>1, <2>2 DEF Phases, PhaseOf
  <2>5. AT!Spend(t)
    BY <2>3, <2>4 DEF AT!Spend, Phases
  <2> QED
    BY <2>1, <2>5 DEF AT!Next
<1>4. ASSUME NEW c \in Clients, Grant(c), row' # row PROVE AT!Next
  <2> DEFINE t == client[c].token
  <2>1. t \in Tokens
    BY <1>4, <1>t, IdleIsNotBusy DEF Grant, TypeOK, Busy
  <2>2. row[t].status = "pending" /\ SetStatus(t, "granted")
    BY <1>4 DEF Grant
  <2>3. Phases' = [Phases EXCEPT ![t] = "approved"]
    BY <2>1, <2>2, <1>t, OnePhase DEF Status, PhaseOf
  <2>4. Phases[t] = "waiting"
    BY <2>1, <2>2 DEF Phases, PhaseOf
  <2>5. AT!Approve(t)
    BY <2>3, <2>4 DEF AT!Approve, Phases
  <2> QED
    BY <2>1, <2>5 DEF AT!Next
<1>5. CASE ListPending
  <2> DEFINE Ran == {t \in Tokens : row'[t] # row[t]}
  <2>1. \A t \in Ran : /\ row[t].status \in {"pending", "granted"}
                      /\ row'[t].status = "expired"
    BY <1>5, <1>t DEF ListPending, TypeOK, Row
  <2>2. \A t \in Ran : /\ PhaseOf(row[t].status) \in {"waiting", "approved"}
                      /\ PhaseOf(row'[t].status) = "void"
    BY <2>1 DEF PhaseOf
  <2>3. \A t \in Tokens \ Ran : row'[t] = row[t]
    OBVIOUS
  <2>4. \A t \in Ran : Phases[t] \in {"waiting", "approved"}
    BY <2>2 DEF Phases
  <2>5. Phases' = [t \in Tokens |-> IF t \in Ran THEN "void" ELSE Phases[t]]
    BY <2>2, <2>3 DEF Phases
  <2>6. AT!Void(Ran)
    BY <2>4, <2>5 DEF AT!Void, Phases
  <2> QED
    BY <2>6 DEF AT!Next
<1>6. ASSUME row' = row PROVE Phases' = Phases
  BY <1>6 DEF Phases
<1> QED
  BY <1>1, <1>2, <1>3, <1>4, <1>5, <1>6
     DEF Next, vars, BeginGrant, BeginConsume, Select, Refuse, Abandon, Tick

\* The table implements the token that is approved once and spent once.
THEOREM Implementation == Spec => ImplementsApprovalToken
<1>1. Init => AT!Init
  BY DEF Init, AT!Init, NoRow, PhaseOf
<1>2. IInv /\ [Next]_vars => AT!Next \/ Phases' = Phases
  BY StepRefinement
<1>3. IInv /\ [Next]_vars =>
        [AT!Next]_[t \in Tokens |-> PhaseOf(row[t].status)]
  BY <1>2 DEF Phases
<1> QED
  BY <1>1, <1>3, Invariance, PTL DEF Spec, ImplementsApprovalToken, AT!Spec
=============================================================================
