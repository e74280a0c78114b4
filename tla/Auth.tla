-------------------------------- MODULE Auth --------------------------------
(***************************************************************************)
(* API keys and invitations: the middleware every request passes           *)
(* (app/auth.py), the handlers that make and take away access              *)
(* (app/api/auth.py) and the command that makes an administrator           *)
(* (app/main.py), against the two tables api_keys and invite_tokens.       *)
(*                                                                         *)
(* A key stands for its secret, its hash and its row, an invitation        *)
(* likewise (secrets are 128 bits or more).  An action is the code between *)
(* two awaits; a select sees committed rows, and the row register selects  *)
(* for update is locked until its transaction ends.  last_used_at, which   *)
(* the middleware stamps in the background, is shown and never read.       *)
(***************************************************************************)
EXTENDS FiniteSets

CONSTANTS
  Keys,      \* API keys that may come to exist
  Invites,   \* invitations that may come to exist
  Requests,  \* requests under way at the same time
  Legacy,    \* the token settings.api_key
  None       \* no token, or one that is nobody's; no row

ASSUME TokensAssumption ==
  Legacy \notin Keys /\ None \notin Keys \cup Invites \cup Requests /\ Legacy # None

VARIABLES
  legacy,    \* settings.api_key is set
  keys,      \* api_keys
  invites,   \* invite_tokens
  lock,      \* the request whose transaction holds the invitation's row
  reqs,      \* each request: what it asks, where it is, what it was found to be
  overlap    \* history: two revocations were under way at the same time

vars == <<legacy, keys, invites, lock, reqs, overlap>>

\* "read" is any protected endpoint without a privilege of its own; reading the
\* list of keys changes nothing and is left out.
AdminOps == {"invite", "revoke"}
Ops      == {"read", "register"} \cup AdminOps

NoKey    == [status |-> "none", admin |-> FALSE, invite |-> None]
NoInvite == [status |-> "none", expired |-> FALSE, by |-> None]
Idle     == [op |-> "read", token |-> None, target |-> None, pc |-> "idle",
             admin |-> FALSE, key |-> None, entitled |-> FALSE]

InFlight(r) == reqs[r].pc \notin {"idle", "served"}

KeyRows == {k \in Keys : keys[k].status # "none"}
Active  == {k \in Keys : keys[k].status = "active"}
Admins  == {k \in KeyRows : keys[k].admin}

\* A fresh secret; which one makes no difference.
Fresh   == CHOOSE k \in Keys : k \notin KeyRows

Init ==
  /\ legacy \in BOOLEAN
  /\ keys = [k \in Keys |-> NoKey]
  /\ invites = [i \in Invites |-> NoInvite]
  /\ lock = [i \in Invites |-> None]
  /\ reqs = [r \in Requests |-> Idle]
  /\ overlap = FALSE

At(r, pc) == reqs' = [reqs EXCEPT ![r].pc = pc]

\* A request that has been answered is over, and leaves its answer.
Refuse(r) == reqs' = [reqs EXCEPT ![r] = Idle]
Serve(r)  == reqs' = [reqs EXCEPT ![r] = [Idle EXCEPT !.pc = "served",
                                                      !.entitled = reqs[r].entitled]]

-----------------------------------------------------------------------------
(* The middleware.                                                           *)

\* What the caller may have when the request arrives: recorded for the
\* properties, looked at by nothing.
Entitled(op, token, target) ==
  CASE op = "register"  -> invites[target].status = "open" /\ ~invites[target].expired
    [] op = "read"      -> \/ legacy /\ token = Legacy
                           \/ token \in Active
                           \/ ~legacy /\ KeyRows = {}
    [] op \in AdminOps  -> \/ legacy /\ token = Legacy
                           \/ token \in Active /\ keys[token].admin

Targets(op) ==
  CASE op = "register" -> {i \in Invites : invites[i].status # "none"}
    [] op = "revoke"   -> KeyRows
    [] OTHER           -> {None}

Tokens == KeyRows \cup {None} \cup (IF legacy THEN {Legacy} ELSE {})

\* /api/auth/register is public; with a static key configured the table is not
\* asked whether it is empty, and that key is an administrator without a row.
\* A request without a token is refused here if that is known already.
Arrive(r) ==
  /\ ~InFlight(r)
  /\ \E op \in Ops, token \in Tokens : \E target \in Targets(op) :
       /\ legacy /\ token = None => op = "register"
       /\ reqs' = [reqs EXCEPT ![r] =
            [op |-> op, token |-> token, target |-> target,
             pc |-> IF op = "register" \/ token = Legacy THEN "handle"
                    ELSE IF legacy THEN "lookup" ELSE "any_keys",
             admin |-> op # "register" /\ token = Legacy,
             key |-> None,
             entitled |-> Entitled(op, token, target)]]
       /\ overlap' = (overlap \/ (op = "revoke" /\ \E q \in Requests :
                                    InFlight(q) /\ reqs[q].op = "revoke"))
  /\ UNCHANGED <<legacy, keys, invites, lock>>

\* Variants: revoked keys do not count as keys; an open server trusts everyone.
HasAnyKeys_ActiveOnly(r) ==
  /\ reqs[r].pc = "any_keys"
  /\ \/ Active = {}  /\ At(r, "handle")
     \/ Active # {} /\ reqs[r].token \in Keys /\ At(r, "lookup")
     \/ Active # {} /\ reqs[r].token = None   /\ Refuse(r)
  /\ UNCHANGED <<legacy, keys, invites, lock, overlap>>

HasAnyKeys_OpenIsAdmin(r) ==
  /\ reqs[r].pc = "any_keys"
  /\ \/ KeyRows = {}  /\ reqs' = [reqs EXCEPT ![r].pc = "handle", ![r].admin = TRUE]
     \/ KeyRows # {} /\ reqs[r].token \in Keys /\ At(r, "lookup")
     \/ KeyRows # {} /\ reqs[r].token = None   /\ Refuse(r)
  /\ UNCHANGED <<legacy, keys, invites, lock, overlap>>

\* Without a static key the server is open until the first key is made.
HasAnyKeys(r) ==
  /\ reqs[r].pc = "any_keys"
  /\ \/ KeyRows = {}  /\ At(r, "handle")
     \/ KeyRows # {} /\ reqs[r].token \in Keys /\ At(r, "lookup")
     \/ KeyRows # {} /\ reqs[r].token = None   /\ Refuse(r)
  /\ UNCHANGED <<legacy, keys, invites, lock, overlap>>

LookupKey(r) ==
  /\ reqs[r].pc = "lookup"
  /\ LET k == reqs[r].token IN
       IF k \in Active
       THEN reqs' = [reqs EXCEPT ![r].pc = "handle", ![r].key = k, ![r].admin = keys[k].admin]
       ELSE Refuse(r)
  /\ UNCHANGED <<legacy, keys, invites, lock, overlap>>

-----------------------------------------------------------------------------
(* The handlers.                                                             *)

\* _require_admin.
Serves(r) == reqs[r].pc = "handle" /\ (reqs[r].op \in AdminOps => reqs[r].admin)

NotAdmin(r) ==
  /\ reqs[r].pc = "handle" /\ reqs[r].op \in AdminOps /\ ~reqs[r].admin
  /\ Refuse(r)
  /\ UNCHANGED <<legacy, keys, invites, lock, overlap>>

Read(r) ==
  /\ Serves(r) /\ reqs[r].op = "read"
  /\ Serve(r)
  /\ UNCHANGED <<legacy, keys, invites, lock, overlap>>

CreateInvite(r) ==
  /\ Serves(r) /\ reqs[r].op = "invite"
  /\ \E i \in Invites :
       /\ invites[i].status = "none"
       /\ invites' = [invites EXCEPT ![i] = [status |-> "open", expired |-> FALSE,
                                             by |-> reqs[r].key]]
  /\ Serve(r)
  /\ UNCHANGED <<legacy, keys, lock, overlap>>

\* Key rows are never deleted and revoked never becomes false, so nothing can
\* come between the select and the commit.
RevokeKey_OwnToo(r) ==
  /\ Serves(r) /\ reqs[r].op = "revoke"
  /\ keys' = [keys EXCEPT ![reqs[r].target].status = "revoked"]
  /\ Serve(r)
  /\ UNCHANGED <<legacy, invites, lock, overlap>>

RevokeKey(r) ==
  /\ Serves(r) /\ reqs[r].op = "revoke"
  /\ IF reqs[r].key = reqs[r].target
     THEN Refuse(r) /\ UNCHANGED keys
     ELSE /\ keys' = [keys EXCEPT ![reqs[r].target].status = "revoked"]
          /\ Serve(r)
  /\ UNCHANGED <<legacy, invites, lock, overlap>>

\* Variant: a plain select.
RegisterSelects_NoLock(r) ==
  /\ Serves(r) /\ reqs[r].op = "register"
  /\ LET i == reqs[r].target IN
       IF invites[i].status = "used" \/ invites[i].expired THEN Refuse(r) ELSE At(r, "chosen")
  /\ UNCHANGED <<legacy, keys, invites, lock, overlap>>

\* The select waits for the row; a refusal ends the transaction at once.
RegisterSelects(r) ==
  /\ Serves(r) /\ reqs[r].op = "register"
  /\ LET i == reqs[r].target IN
       /\ lock[i] = None
       /\ IF invites[i].status = "used" \/ invites[i].expired
          THEN Refuse(r) /\ UNCHANGED lock
          ELSE At(r, "chosen") /\ lock' = [lock EXCEPT ![i] = r]
  /\ UNCHANGED <<legacy, keys, invites, overlap>>

\* used_at and the key in one commit, which frees the row.
RegisterCommits(r) ==
  /\ reqs[r].pc = "chosen" /\ KeyRows # Keys
  /\ LET i == reqs[r].target IN
       /\ invites' = [invites EXCEPT ![i].status = "used"]
       /\ lock' = [lock EXCEPT ![i] = None]
       /\ keys' = [keys EXCEPT ![Fresh] = [status |-> "active", admin |-> FALSE, invite |-> i]]
  /\ Serve(r)
  /\ UNCHANGED <<legacy, overlap>>

-----------------------------------------------------------------------------
(* The rest of the system.                                                   *)

\* Variant: a request that ends early leaves its transaction open.
Fail_KeepsRow(r) ==
  /\ InFlight(r)
  /\ Refuse(r)
  /\ UNCHANGED <<legacy, keys, invites, lock, overlap>>

\* At any await the database may be out of reach, the client gone, the process
\* killed: the request ends, 503 from the middleware, and its transaction with it.
Fail(r) ==
  /\ InFlight(r)
  /\ Refuse(r)
  /\ lock' = [i \in Invites |-> IF lock[i] = r THEN None ELSE lock[i]]
  /\ UNCHANGED <<legacy, keys, invites, overlap>>

\* create_admin_key: another process, one commit.
CreateAdminKey ==
  /\ KeyRows # Keys
  /\ keys' = [keys EXCEPT ![Fresh] = [status |-> "active", admin |-> TRUE, invite |-> None]]
  /\ UNCHANGED <<legacy, invites, lock, reqs, overlap>>

\* 24 hours pass.
Expire(i) ==
  /\ invites[i].status = "open" /\ ~invites[i].expired
  /\ invites' = [invites EXCEPT ![i].expired = TRUE]
  /\ UNCHANGED <<legacy, keys, lock, reqs, overlap>>

-----------------------------------------------------------------------------
Register(r) == RegisterSelects(r) \/ RegisterCommits(r)

\* Bound: a request that needs one more key or invitation than there are fails.
OutOfRows(r) ==
  \/ reqs[r].pc = "chosen" /\ KeyRows = Keys
  \/ Serves(r) /\ reqs[r].op = "invite" /\ \A i \in Invites : invites[i].status # "none"

Handle(r) ==
  \/ HasAnyKeys(r) \/ LookupKey(r) \/ NotAdmin(r) \/ Read(r)
  \/ CreateInvite(r) \/ RevokeKey(r) \/ Register(r) \/ (OutOfRows(r) /\ Fail(r))

Next ==
  \/ \E r \in Requests : Arrive(r) \/ Handle(r) \/ Fail(r)
  \/ CreateAdminKey
  \/ \E i \in Invites : Expire(i)

\* The event loop goes on with what is ready, and PostgreSQL queues those that
\* wait for a row.
Spec ==
  /\ Init /\ [][Next]_vars
  /\ \A r \in Requests : WF_vars(Handle(r)) /\ SF_vars(RegisterSelects(r))

-----------------------------------------------------------------------------
(* Properties.                                                               *)

\* Type invariant; an invitation's row is locked by the one registration that
\* has chosen it.
TypeOK ==
  /\ legacy \in BOOLEAN /\ overlap \in BOOLEAN
  /\ keys \in [Keys -> [status : {"none", "active", "revoked"}, admin : BOOLEAN,
                        invite : Invites \cup {None}]]
  /\ invites \in [Invites -> [status : {"none", "open", "used"}, expired : BOOLEAN,
                              by : Keys \cup {None}]]
  /\ lock \in [Invites -> Requests \cup {None}]
  /\ reqs \in [Requests ->
       [op : Ops, token : Keys \cup {None, Legacy}, target : Keys \cup Invites \cup {None},
        pc : {"idle", "any_keys", "lookup", "handle", "chosen", "served"},
        admin : BOOLEAN, key : Keys \cup {None}, entitled : BOOLEAN]]
  /\ \A i \in Invites, r \in Requests :
       lock[i] = r <=> (reqs[r].pc = "chosen" /\ reqs[r].target = i)

\* A single-use invitation makes exactly one key, however many registrations
\* present it at the same time and whichever of them die half-way; until it is
\* used it makes none.
KeysOf(i) == {k \in KeyRows : keys[k].invite = i}
OneKeyPerInvite ==
  \A i \in Invites : Cardinality(KeysOf(i)) = (IF invites[i].status = "used" THEN 1 ELSE 0)

\* A request is served only to a caller who was entitled to it when the request
\* arrived: revoking every key does not open the server again, a revocation
\* binds every later request, and an invitation that had expired or been used
\* opens nothing.
ServedMeansEntitled ==
  \A r \in Requests : reqs[r].pc = "served" => reqs[r].entitled

\* Access comes from administrators: every key was made at the command line or
\* from an invitation that an administrator made, with the static key if it
\* names nobody.  While the server is open nobody can make one.
KeysTraceToAdmins ==
  \A k \in KeyRows \ Admins :
    /\ keys[k].invite \in Invites
    /\ LET by == invites[keys[k].invite].by IN by \in Admins \/ (by = None /\ legacy)

\* "Prevent self-revocation": as long as no two revocations were under way at
\* the same time, a server that ever had an administrator has one.
AdminRemains == Admins # {} /\ ~legacy /\ ~overlap => Admins \cap Active # {}

\* Every request is answered, those that wait for an invitation's row included.
RequestsAnswered == \A r \in Requests : InFlight(r) ~> ~InFlight(r)

=============================================================================
