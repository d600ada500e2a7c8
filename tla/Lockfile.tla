------------------------------- MODULE Lockfile -------------------------------
(***************************************************************************)
(* What the operations of LockfileManager do to the entry of one tool, and *)
(* what the gate and the servers conclude from it.                         *)
(*                                                                         *)
(* The content of a tool stands for all that identifies what it does: its  *)
(* signature_id, method, path and host, which the compiler derives from    *)
(* one another.  Entries are found by signature, tool_id or name; here a   *)
(* tool keeps its name.  An operator's name and the time of an approval    *)
(* count as there or not there.                                            *)
(*                                                                         *)
(* A scope is what --toolset names: {} without the option, {s} with it.    *)
(***************************************************************************)
EXTENDS Naturals

CONSTANTS
  Contents,   \* what a tool may do
  Toolsets

\* A tool in the manifest and the toolsets artifact.
Action == [content : Contents, risk : Nat, toolsets : SUBSET Toolsets]

Status == {"pending", "approved", "rejected"}

\* What a signature binds.
Bound == [content : Contents, risk : Nat, toolsets : SUBSET Toolsets,
          approved : SUBSET Toolsets, status : Status]

\* Its entry in the lockfile: attested stands for approved_by and approved_at,
\* the seal is the set of what the signature binds, at most one.
Entry ==
  [content : Contents, risk : Nat, toolsets : SUBSET Toolsets,
   approved : SUBSET Toolsets, status : Status,
   attested : BOOLEAN, seal : SUBSET Bound]

NoEntry == [status |-> "missing"]

----------------------------------------------------------------------------
(* sync_from_manifest.                                                     *)

NewEntry(a) ==
  [content |-> a.content, risk |-> a.risk, toolsets |-> a.toolsets,
   approved |-> {}, status |-> "pending", attested |-> FALSE, seal |-> {}]

\* A change that somebody has to approve.
Reopened(e) == [e EXCEPT !.status = "pending", !.attested = FALSE]

\* A mistake: the operator's name and time stay on the changed entry.
RecontentedAttested(e, a) ==
  IF a.content = e.content THEN e
  ELSE [e EXCEPT !.status = "pending", !.content = a.content]

\* Another signature.  The toolsets approved before stay approved.
Recontented(e, a) ==
  IF a.content = e.content THEN e ELSE [Reopened(e) EXCEPT !.content = a.content]

\* A higher risk revokes them; a lower one is taken over as it is.
Rerisked(e, a) ==
  [(IF a.risk > e.risk THEN [Reopened(e) EXCEPT !.approved = {}] ELSE e)
     EXCEPT !.risk = a.risk]

\* A mistake: approvals of toolsets the tool has left are kept.
RegroupedKeeping(e, a) ==
  LET kept == [e EXCEPT !.toolsets = a.toolsets]
  IN  IF ~(a.toolsets \subseteq kept.approved) THEN Reopened(kept) ELSE kept

\* Other toolsets: approvals hold for those that stay, new ones need one.
Regrouped(e, a) ==
  LET kept == [e EXCEPT !.approved = @ \cap a.toolsets, !.toolsets = a.toolsets]
  IN  IF a.toolsets # e.toolsets /\ ~(a.toolsets \subseteq kept.approved)
        THEN Reopened(kept) ELSE kept

SyncEntry(e, a) ==
  IF e = NoEntry THEN NewEntry(a)
                 ELSE Regrouped(Rerisked(Recontented(e, a), a), a)

----------------------------------------------------------------------------
(* Decisions of operators.                                                 *)

\* _signature_payload, but for the operator's name and the time.
Payload(e) ==
  [content |-> e.content, risk |-> e.risk, toolsets |-> e.toolsets,
   approved |-> e.approved, status |-> e.status]

Signed(e) == [e EXCEPT !.attested = TRUE, !.seal = {Payload(e)}]

\* A mistake: one toolset approved is taken for all of them.
ApproveAtOnce(e, scope) ==
  Signed([e EXCEPT !.approved = IF scope = {} THEN e.toolsets ELSE @ \cup scope,
                   !.status = "approved"])

\* approve, for a tool that is a member of the toolset.
Approve(e, scope) ==
  LET approved == IF scope = {} THEN e.toolsets ELSE e.approved \cup scope
      status == IF e.toolsets \subseteq approved THEN "approved"
                ELSE IF e.status = "rejected" THEN "pending" ELSE e.status
  IN  Signed([e EXCEPT !.approved = approved, !.status = status])

CanApprove(e, scope) == e # NoEntry /\ scope \subseteq e.toolsets

Reject(e) ==
  [e EXCEPT !.status = "rejected", !.approved = {}, !.attested = FALSE,
            !.seal = {}]

\* gate resign: whoever approved is taken to approve what is there now.
Resign(e, scope) ==
  IF scope \subseteq e.toolsets /\ e.attested /\ e.seal # {}
    THEN Signed(e) ELSE e

----------------------------------------------------------------------------
(* Conclusions.                                                            *)

Verified(e) == e.attested /\ Payload(e) \in e.seal

\* get_pending of a scope.
Pending(e, scope) ==
  /\ e # NoEntry
  /\ IF scope = {} THEN e.status = "pending"
                   ELSE scope \subseteq e.toolsets \ e.approved

\* check_approvals: nothing in the scope is rejected or pending.
ApprovalsPass(e, scope) ==
  e # NoEntry /\ scope \subseteq e.toolsets =>
    e.status # "rejected" /\ ~Pending(e, scope)

\* verify_signatures looks at approved tools only.
SignaturesPass(e) == e.status = "approved" => Verified(e)

\* check_ci, without the files of the snapshot.
GatePasses(e, scope) == ApprovalsPass(e, scope) /\ SignaturesPass(e)

\* _check_lockfile_approval, with signed approvals required.
ApprovedFor(e, scope) ==
  /\ e # NoEntry
  /\ IF scope = {} THEN e.status = "approved"
     ELSE /\ e.toolsets # {} => scope \subseteq e.toolsets
          /\ e.approved # {} => scope \subseteq e.approved
          /\ e.approved = {} => e.status = "approved"
  /\ Verified(e)

\* _is_action_exposed: whether a server that starts lists the tool at all.
Exposed(e, scope) ==
  /\ e # NoEntry
  /\ IF scope = {} THEN e.status = "approved"
     ELSE /\ e.status # "rejected"
          /\ e.toolsets # {} => scope \subseteq e.toolsets
          /\ IF e.approved # {} THEN scope \subseteq e.approved
                                ELSE e.status = "approved"
=============================================================================
