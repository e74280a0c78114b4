----------------------------- MODULE AuthProofs -----------------------------
(***************************************************************************)
(* Theorems about Auth for every set of keys, invitations and requests.    *)
(***************************************************************************)
EXTENDS Auth, FiniteSetTheorems, TLAPS

Key     == [status : {"none", "active", "revoked"}, admin : BOOLEAN, invite : Invites \cup {None}]
Invite  == [status : {"none", "open", "used"}, expired : BOOLEAN, by : Keys \cup {None}]
Request == [op : Ops, token : Keys \cup {None, Legacy}, target : Keys \cup Invites \cup {None},
            pc : {"idle", "any_keys", "lookup", "handle", "chosen", "served"},
            admin : BOOLEAN, key : Keys \cup {None}, entitled : BOOLEAN]

Spent(i) == invites[i].status = "used" \/ invites[i].expired

\* What a request that has come this far may still turn out to be entitled to.
\* Before the lookup: if its token is found active now, it was active when the
\* request arrived; if the table is empty now, it was empty then.  In the
\* handler: a read is entitled, an administrator's request is, and a
\* registration is unless its invitation has been spent.
ReqInv(r) ==
  /\ reqs[r].op = "register" => reqs[r].target \in Invites /\ invites[reqs[r].target].status # "none"
  /\ reqs[r].op = "revoke" => reqs[r].target \in KeyRows
  /\ reqs[r].pc = "any_keys" =>
       /\ ~legacy /\ ~reqs[r].admin
       /\ reqs[r].op = "read" /\ KeyRows = {} => reqs[r].entitled
  /\ reqs[r].pc \in {"any_keys", "lookup"} =>
       /\ reqs[r].op # "register"
       /\ reqs[r].token \in KeyRows \cup {None}
       /\ reqs[r].token \in Active =>
            /\ reqs[r].op = "read" => reqs[r].entitled
            /\ reqs[r].op \in AdminOps /\ keys[reqs[r].token].admin => reqs[r].entitled
  /\ reqs[r].pc = "handle" =>
       /\ reqs[r].op = "read" => reqs[r].entitled
       /\ reqs[r].op \in AdminOps /\ reqs[r].admin => reqs[r].entitled
       /\ reqs[r].op = "register" => reqs[r].entitled \/ Spent(reqs[r].target)
  /\ reqs[r].pc = "chosen" =>
       /\ reqs[r].op = "register" /\ reqs[r].entitled
       /\ invites[reqs[r].target].status # "used"
  /\ reqs[r].pc = "served" => reqs[r].entitled

\* A used invitation has one key, another has none.
UsedOnce(i) ==
  /\ invites[i].status = "used" => \E k \in Keys : KeysOf(i) = {k}
  /\ invites[i].status # "used" => KeysOf(i) = {}

IndInv == TypeOK /\ (\A i \in Invites : UsedOnce(i)) /\ (\A r \in Requests : ReqInv(r))

\* What no action takes back: keys and invitations stay, so does an
\* administrator's right, a revocation, a use and an expiry.
Grows ==
  /\ legacy' = legacy
  /\ \A k \in KeyRows : /\ k \in KeyRows' /\ keys'[k].admin = keys[k].admin
                        /\ k \in Active' => k \in Active
  /\ \A i \in Invites : invites[i].status # "none" =>
       /\ invites'[i].status # "none"
       /\ Spent(i) => Spent(i)'

\* A request that does not move keeps what was known of it, unless it has
\* chosen an invitation that is used meanwhile.
LEMMA Untouched ==
  ASSUME IndInv, Grows, NEW q \in Requests, reqs'[q] = reqs[q],
         reqs[q].pc = "chosen" => invites'[reqs[q].target].status # "used"
  PROVE  ReqInv(q)'
<1>1. ReqInv(q)
  BY DEF IndInv
<1>2. KeyRows' = {} => KeyRows = {}
  BY DEF Grows
<1>3. KeyRows \subseteq KeyRows'
  BY DEF Grows
<1>4. reqs[q].token \in KeyRows /\ reqs[q].token \in Active' =>
        reqs[q].token \in Active /\ keys'[reqs[q].token].admin = keys[reqs[q].token].admin
  BY DEF Grows
<1>5. reqs[q].token \in Active' => reqs[q].token \in Keys
  BY DEF Active
<1>6. None \notin Keys
  BY TokensAssumption
<1>7. reqs[q].op = "register" =>
        /\ invites'[reqs[q].target].status # "none"
        /\ Spent(reqs[q].target) => Spent(reqs[q].target)'
  BY <1>1 DEF ReqInv, Grows
<1>8. legacy' = legacy
  BY DEF Grows
<1> QED
  BY <1>1, <1>2, <1>3, <1>4, <1>5, <1>6, <1>7, <1>8 DEF ReqInv, Spent

\* An action that moves one request and touches neither table.
LEMMA OnlyRequest ==
  ASSUME IndInv, NEW r \in Requests, UNCHANGED <<legacy, keys, invites>>, TypeOK',
         \A q \in Requests : q # r => reqs'[q] = reqs[q], ReqInv(r)'
  PROVE  IndInv'
<1>1. Grows
  BY DEF Grows, KeyRows, Active, Spent
<1>2. ASSUME NEW q \in Requests, q # r PROVE ReqInv(q)'
  <2>1. reqs[q].pc = "chosen" => invites'[reqs[q].target].status # "used"
    BY DEF IndInv, ReqInv
  <2> QED
    BY <1>1, <1>2, <2>1, Untouched
<1>3. ASSUME NEW i \in Invites PROVE UsedOnce(i)'
  BY DEF IndInv, UsedOnce, KeysOf, KeyRows
<1> QED
  BY <1>2, <1>3 DEF IndInv

\* TypeOK with the record sets named.
LEMMA Types ==
  TypeOK <=> /\ legacy \in BOOLEAN /\ overlap \in BOOLEAN
             /\ keys \in [Keys -> Key] /\ invites \in [Invites -> Invite]
             /\ lock \in [Invites -> Requests \cup {None}]
             /\ reqs \in [Requests -> Request]
             /\ \A i \in Invites, r \in Requests :
                  lock[i] = r <=> (reqs[r].pc = "chosen" /\ reqs[r].target = i)
  BY DEF TypeOK, Key, Invite, Request

\* Nobody has asked for anything yet.
LEMMA InitInv == Init => IndInv
<1> SUFFICES ASSUME Init PROVE IndInv
  OBVIOUS
<1>1. TypeOK
  BY TokensAssumption DEF Init, TypeOK, NoKey, NoInvite, Idle, Ops, AdminOps
<1>2. \A i \in Invites : UsedOnce(i)
  BY DEF Init, UsedOnce, KeysOf, KeyRows, NoKey, NoInvite
<1>3. \A r \in Requests : ReqInv(r)
  BY DEF Init, ReqInv, Idle, AdminOps
<1> QED
  BY <1>1, <1>2, <1>3 DEF IndInv

\* A request without a lock that moves to another point without one.
LEMMA MovesTyped ==
  ASSUME IndInv, NEW r \in Requests, reqs[r].pc # "chosen",
         UNCHANGED <<legacy, keys, invites, lock>>, overlap' \in BOOLEAN,
         NEW v \in Request, v.pc # "chosen", reqs' = [reqs EXCEPT ![r] = v]
  PROVE  TypeOK'
<1>1. reqs' \in [Requests -> Request] /\ reqs'[r] = v /\ \A q \in Requests \ {r} : reqs'[q] = reqs[q]
  BY Types DEF IndInv
<1>2. \A i \in Invites, q \in Requests :
        lock'[i] = q <=> (reqs'[q].pc = "chosen" /\ reqs'[q].target = i)
  BY <1>1, Types DEF IndInv
<1> QED
  BY <1>1, <1>2, Types DEF IndInv, TypeOK, Key, Invite, Request

\* A request that is over, refused or served.
LEMMA IdleTyped ==
  /\ Idle \in Request /\ Idle.op = "read" /\ Idle.pc = "idle"
  /\ \A e \in BOOLEAN :
       LET s == [[Idle EXCEPT !.pc = "served"] EXCEPT !.entitled = e] IN
         s \in Request /\ s.op = "read" /\ s.pc = "served" /\ s.entitled = e
  BY DEF Idle, Request, Ops

\* A request that is refused leaves nothing behind it.
LEMMA Refused ==
  ASSUME IndInv, NEW r \in Requests, reqs[r].pc # "chosen", Refuse(r),
         UNCHANGED <<legacy, keys, invites, lock, overlap>>
  PROVE  IndInv'
<1>1. TypeOK'
  BY IdleTyped, MovesTyped DEF Refuse, IndInv, TypeOK
<1>2. reqs'[r] = Idle /\ \A q \in Requests : q # r => reqs'[q] = reqs[q]
  BY Types DEF Refuse, IndInv
<1>3. ReqInv(r)'
  BY <1>2 DEF ReqInv, Idle
<1> QED
  BY <1>1, <1>2, <1>3, OnlyRequest

\* A request that is served had to be entitled, whatever is written to the
\* tables meanwhile.
LEMMA Served ==
  ASSUME IndInv, NEW r \in Requests, Serve(r), reqs[r].entitled
  PROVE  /\ reqs' \in [Requests -> Request] /\ reqs'[r].pc = "served" /\ ReqInv(r)'
         /\ \A q \in Requests : q # r => reqs'[q] = reqs[q]
<1> DEFINE v == [[Idle EXCEPT !.pc = "served"] EXCEPT !.entitled = reqs[r].entitled]
<1>1. reqs \in [Requests -> Request] /\ reqs[r].entitled \in BOOLEAN
  BY Types DEF IndInv, Request
<1>2. v \in Request /\ v.op = "read" /\ v.pc = "served" /\ v.entitled
  BY <1>1, IdleTyped DEF Idle, Request
<1>3. reqs' = [reqs EXCEPT ![r] = v]
  BY DEF Serve, Idle
<1> HIDE DEF v
<1>4. reqs'[r] = v /\ \A q \in Requests : q # r => reqs'[q] = reqs[q]
  BY <1>1, <1>3
<1> QED
  BY <1>1, <1>2, <1>3, <1>4 DEF ReqInv

\* A request that takes its next step without touching a table.
LEMMA Moves ==
  ASSUME IndInv, NEW r \in Requests, NEW v \in Request, v.pc # "chosen", reqs[r].pc # "chosen",
         reqs' = [reqs EXCEPT ![r] = v], UNCHANGED <<legacy, keys, invites, lock>>,
         overlap' \in BOOLEAN, ReqInv(r)'
  PROVE  IndInv'
<1>1. TypeOK'
  BY MovesTyped
<1>2. \A q \in Requests : q # r => reqs'[q] = reqs[q]
  BY Types DEF IndInv
<1> QED
  BY <1>1, <1>2, OnlyRequest

\* The same, where only the point changes.
LEMMA AtMoves ==
  ASSUME IndInv, NEW r \in Requests, reqs[r].pc # "chosen",
         NEW pc \in {"lookup", "handle"}, At(r, pc),
         UNCHANGED <<legacy, keys, invites, lock, overlap>>, ReqInv(r)'
  PROVE  IndInv'
<1>1. reqs[r] \in Request /\ overlap \in BOOLEAN
  BY Types DEF IndInv
<1>2. [reqs[r] EXCEPT !.pc = pc] \in Request /\ [reqs[r] EXCEPT !.pc = pc].pc # "chosen"
  BY <1>1 DEF Request
<1>3. reqs' = [reqs EXCEPT ![r] = [reqs[r] EXCEPT !.pc = pc]]
  BY DEF At
<1> QED
  BY <1>1, <1>2, <1>3, Moves

\* Before its first await a request is entitled to what it was on arrival.
LEMMA ArriveInv ==
  ASSUME IndInv, NEW r \in Requests, Arrive(r)
  PROVE  IndInv'
<1>1. PICK op \in Ops, token \in Tokens : \E target \in Targets(op) :
        /\ legacy /\ token = None => op = "register"
        /\ reqs' = [reqs EXCEPT ![r] =
             [op |-> op, token |-> token, target |-> target,
              pc |-> IF op = "register" \/ token = Legacy THEN "handle"
                     ELSE IF legacy THEN "lookup" ELSE "any_keys",
              admin |-> op # "register" /\ token = Legacy,
              key |-> None,
              entitled |-> Entitled(op, token, target)]]
  BY DEF Arrive
<1>2. PICK target \in Targets(op) :
        /\ legacy /\ token = None => op = "register"
        /\ reqs' = [reqs EXCEPT ![r] =
             [op |-> op, token |-> token, target |-> target,
              pc |-> IF op = "register" \/ token = Legacy THEN "handle"
                     ELSE IF legacy THEN "lookup" ELSE "any_keys",
              admin |-> op # "register" /\ token = Legacy,
              key |-> None,
              entitled |-> Entitled(op, token, target)]]
  BY <1>1
<1> DEFINE v == [op |-> op, token |-> token, target |-> target,
                 pc |-> IF op = "register" \/ token = Legacy THEN "handle"
                        ELSE IF legacy THEN "lookup" ELSE "any_keys",
                 admin |-> op # "register" /\ token = Legacy,
                 key |-> None,
                 entitled |-> Entitled(op, token, target)]
<1>3. /\ legacy \in BOOLEAN /\ keys \in [Keys -> Key] /\ invites \in [Invites -> Invite]
      /\ reqs \in [Requests -> Request]
  BY Types DEF IndInv
<1>4. /\ token \in KeyRows \cup {None} \/ (legacy /\ token = Legacy)
      /\ KeyRows \subseteq Keys /\ Active \subseteq KeyRows
  BY DEF Tokens, KeyRows, Active
<1>5. /\ op = "register" => target \in Invites /\ invites[target].status # "none"
      /\ op = "revoke" => target \in KeyRows
      /\ op \in {"read", "invite"} => target = None
  BY DEF Targets
<1>6. Entitled(op, token, target) \in BOOLEAN
  BY <1>3, <1>4, <1>5 DEF Entitled, Ops, AdminOps, Key, Invite
<1>7. v \in Request
  BY <1>3, <1>4, <1>5, <1>6 DEF Request, Ops, AdminOps
<1>8. UNCHANGED <<legacy, keys, invites, lock>> /\ reqs[r].pc # "chosen"
  BY DEF Arrive, InFlight
<1>9. overlap' \in BOOLEAN
  <2>1. PICK o \in Ops : overlap' = (overlap \/ (o = "revoke" /\ \E q \in Requests :
                                    InFlight(q) /\ reqs[q].op = "revoke"))
    BY DEF Arrive
  <2> QED
    BY <2>1, Types DEF IndInv
<1>10. reqs'[r] = v
  BY <1>2, <1>3
<1>11. ReqInv(r)'
  <2> DEFINE pc == IF op = "register" \/ token = Legacy THEN "handle"
                   ELSE IF legacy THEN "lookup" ELSE "any_keys"
  <2>a. /\ v.op = op /\ v.token = token /\ v.target = target /\ v.pc = pc
        /\ v.admin = (op # "register" /\ token = Legacy)
        /\ v.entitled = Entitled(op, token, target)
    OBVIOUS
  <2>b. /\ KeyRows' = KeyRows /\ Active' = Active
        /\ legacy' = legacy /\ keys' = keys /\ invites' = invites
    BY <1>8 DEF KeyRows, Active
  <2>c. Legacy \notin KeyRows /\ None \notin KeyRows /\ Legacy # None
    BY <1>4, TokensAssumption
  <2> HIDE DEF v
  <2>1. CASE op = "register"
    <3>1. v.entitled <=> (invites[target].status = "open" /\ ~invites[target].expired)
      BY <2>1, <2>a DEF Entitled, AdminOps
    <3>2. invites[target].status \in {"open", "used"}
      BY <1>3, <1>5, <2>1 DEF Invite
    <3> QED
      BY <1>5, <1>10, <2>1, <2>a, <2>b, <3>1, <3>2 DEF ReqInv, Spent, AdminOps
  <2>2. CASE op = "read"
    <3>1. v.entitled <=> \/ legacy /\ token = Legacy
                         \/ token \in Active
                         \/ ~legacy /\ KeyRows = {}
      BY <2>2, <2>a DEF Entitled, AdminOps
    <3> QED
      BY <1>3, <1>4, <1>10, <2>2, <2>a, <2>b, <2>c, <3>1 DEF ReqInv, AdminOps
  <2>3. CASE op \in AdminOps
    <3>1. v.entitled <=> \/ legacy /\ token = Legacy
                         \/ token \in Active /\ keys[token].admin
      BY <2>3, <2>a DEF Entitled, AdminOps
    <3> QED
      BY <1>3, <1>4, <1>5, <1>10, <2>3, <2>a, <2>b, <2>c, <3>1 DEF ReqInv, AdminOps
  <2> QED
    BY <2>1, <2>2, <2>3 DEF Ops
<1>12. v.pc # "chosen"
  OBVIOUS
<1>13. reqs' = [reqs EXCEPT ![r] = v]
  BY <1>2
<1> HIDE DEF v
<1> QED
  BY <1>7, <1>8, <1>9, <1>11, <1>12, <1>13, Moves

\* The table that is empty now was empty when the request arrived.
LEMMA HasAnyKeysInv ==
  ASSUME IndInv, NEW r \in Requests, HasAnyKeys(r)
  PROVE  IndInv'
<1>1. reqs[r] \in Request /\ reqs \in [Requests -> Request] /\ ReqInv(r) /\ reqs[r].pc = "any_keys"
  BY Types DEF IndInv, HasAnyKeys
<1>2. KeyRows' = KeyRows /\ Active' = Active /\ UNCHANGED <<legacy, keys, invites, lock, overlap>>
  BY DEF HasAnyKeys, KeyRows, Active
<1>3. CASE KeyRows = {} /\ At(r, "handle")
  <2>1. reqs'[r] = [reqs[r] EXCEPT !.pc = "handle"]
    BY <1>1, <1>3 DEF At
  <2>2. ReqInv(r)'
    BY <1>1, <1>2, <1>3, <2>1 DEF ReqInv, Request, AdminOps
  <2> QED
    BY <1>1, <1>2, <1>3, <2>2, AtMoves
<1>4. CASE reqs[r].token \in Keys /\ At(r, "lookup")
  <2>1. reqs'[r] = [reqs[r] EXCEPT !.pc = "lookup"]
    BY <1>1, <1>4 DEF At
  <2>2. ReqInv(r)'
    BY <1>1, <1>2, <2>1 DEF ReqInv, Request, AdminOps
  <2> QED
    BY <1>1, <1>2, <1>4, <2>2, AtMoves
<1>5. CASE Refuse(r)
  BY <1>1, <1>2, <1>5, Refused
<1> QED
  BY <1>3, <1>4, <1>5 DEF HasAnyKeys

\* A key that is active now was active then, and an administrator was one.
LEMMA LookupKeyInv ==
  ASSUME IndInv, NEW r \in Requests, LookupKey(r)
  PROVE  IndInv'
<1> DEFINE k == reqs[r].token
           v == [reqs[r] EXCEPT !.pc = "handle", !.key = k, !.admin = keys[k].admin]
<1>1. reqs[r] \in Request /\ reqs \in [Requests -> Request] /\ ReqInv(r) /\ reqs[r].pc = "lookup"
  BY Types DEF IndInv, LookupKey
<1>2. KeyRows' = KeyRows /\ Active' = Active /\ UNCHANGED <<legacy, keys, invites, lock, overlap>>
  BY DEF LookupKey, KeyRows, Active
<1>3. CASE k \in Active
  <2>1. reqs' = [reqs EXCEPT ![r] = v]
    BY <1>1, <1>3 DEF LookupKey
  <2>2. k \in Keys /\ keys[k].admin \in BOOLEAN
    BY <1>3, Types DEF IndInv, Active, Key
  <2>3. v \in Request /\ v.pc = "handle"
    BY <1>1, <2>2 DEF Request
  <2>4. ReqInv(r)'
    BY <1>1, <1>2, <1>3, <2>1, <2>2 DEF ReqInv, Request, AdminOps
  <2> HIDE DEF v
  <2> QED
    BY <1>1, <1>2, <2>1, <2>3, <2>4, Moves, Types DEF IndInv
<1>4. CASE k \notin Active
  BY <1>1, <1>2, <1>4, Refused DEF LookupKey
<1> QED
  BY <1>3, <1>4

\* An action that serves a request and leaves alone the keys and the locks.
LEMMA ServesInv ==
  ASSUME IndInv, NEW r \in Requests, reqs[r].pc = "handle", Serve(r), reqs[r].entitled,
         UNCHANGED <<legacy, lock, overlap>>, keys' \in [Keys -> Key], invites' \in [Invites -> Invite],
         Grows, \A i \in Invites : UsedOnce(i)',
         \A i \in Invites : invites[i].status # "used" => invites'[i].status # "used"
  PROVE  IndInv'
<1>1. /\ reqs' \in [Requests -> Request] /\ reqs'[r].pc = "served" /\ ReqInv(r)'
      /\ \A q \in Requests : q # r => reqs'[q] = reqs[q]
  BY Served
<1>2. TypeOK'
  <2>1. \A i \in Invites, q \in Requests :
          lock'[i] = q <=> (reqs'[q].pc = "chosen" /\ reqs'[q].target = i)
    BY <1>1, Types DEF IndInv
  <2> QED
    BY <1>1, <2>1, Types DEF IndInv, TypeOK, Key, Invite, Request
<1>3. ASSUME NEW q \in Requests, q # r PROVE ReqInv(q)'
  <2>1. reqs[q].pc = "chosen" => reqs[q].target \in Invites /\ invites[reqs[q].target].status # "used"
    BY DEF IndInv, ReqInv
  <2> QED
    BY <1>1, <1>3, <2>1, Untouched
<1> QED
  BY <1>1, <1>2, <1>3 DEF IndInv

\* A read changes nothing.
LEMMA ReadInv ==
  ASSUME IndInv, NEW r \in Requests, Read(r)
  PROVE  IndInv'
<1>1. reqs[r].pc = "handle" /\ reqs[r].entitled /\ UNCHANGED <<legacy, keys, invites, lock, overlap>>
  BY DEF Read, Serves, IndInv, ReqInv
<1>2. Grows
  BY <1>1 DEF Grows, KeyRows, Active, Spent
<1>3. \A i \in Invites : UsedOnce(i)'
  BY <1>1 DEF IndInv, UsedOnce, KeysOf, KeyRows
<1> QED
  BY <1>1, <1>2, <1>3, ServesInv, Types DEF Read, IndInv

\* A new invitation has no key and no request that knows it.
LEMMA CreateInviteInv ==
  ASSUME IndInv, NEW r \in Requests, CreateInvite(r)
  PROVE  IndInv'
<1>1. /\ reqs[r].pc = "handle" /\ reqs[r].entitled /\ Serve(r)
      /\ UNCHANGED <<legacy, keys, lock, overlap>> /\ reqs[r] \in Request
      /\ keys \in [Keys -> Key] /\ invites \in [Invites -> Invite]
  BY Types DEF CreateInvite, Serves, IndInv, ReqInv, AdminOps
<1>2. PICK i \in Invites :
        /\ invites[i].status = "none"
        /\ invites' = [invites EXCEPT ![i] = [status |-> "open", expired |-> FALSE,
                                              by |-> reqs[r].key]]
  BY DEF CreateInvite
<1>3. invites' \in [Invites -> Invite]
  BY <1>1, <1>2 DEF Invite, Request
<1>4. Grows
  BY <1>1, <1>2 DEF Grows, KeyRows, Active, Spent
<1>5. \A j \in Invites : invites'[j].status = "used" <=> invites[j].status = "used"
  BY <1>1, <1>2
<1>6. \A j \in Invites : UsedOnce(j)'
  BY <1>1, <1>5 DEF IndInv, UsedOnce, KeysOf, KeyRows
<1> QED
  BY <1>1, <1>3, <1>4, <1>5, <1>6, ServesInv

\* A revoked key keeps its row, and its invitation its key.
LEMMA RevokeKeyInv ==
  ASSUME IndInv, NEW r \in Requests, RevokeKey(r)
  PROVE  IndInv'
<1> DEFINE t == reqs[r].target
<1>1. /\ reqs[r].pc = "handle" /\ reqs[r].entitled /\ t \in KeyRows /\ KeyRows \subseteq Keys
      /\ UNCHANGED <<legacy, invites, lock, overlap>>
      /\ keys \in [Keys -> Key] /\ invites \in [Invites -> Invite]
  BY Types DEF RevokeKey, Serves, IndInv, ReqInv, AdminOps, KeyRows
<1>2. CASE Refuse(r) /\ UNCHANGED keys
  BY <1>1, <1>2, Refused
<1>3. CASE keys' = [keys EXCEPT ![t].status = "revoked"] /\ Serve(r)
  <2>1. keys' \in [Keys -> Key]
    BY <1>1, <1>3 DEF Key
  <2>2. \A k \in Keys : /\ keys'[k].admin = keys[k].admin /\ keys'[k].invite = keys[k].invite
                        /\ k # t => keys'[k] = keys[k]
                        /\ k = t => keys'[k].status = "revoked"
    BY <1>1, <1>3 DEF Key
  <2>3. KeyRows' = KeyRows /\ Active' = Active \ {t}
    BY <1>1, <2>2 DEF KeyRows, Active
  <2>4. Grows
    BY <1>1, <2>2, <2>3 DEF Grows, Spent
  <2>5. \A i \in Invites : KeysOf(i)' = KeysOf(i)
    BY <1>1, <2>2, <2>3 DEF KeysOf
  <2>6. \A i \in Invites : UsedOnce(i)'
    BY <1>1, <2>5 DEF IndInv, UsedOnce
  <2> QED
    BY <1>1, <1>3, <2>1, <2>4, <2>6, ServesInv
<1> QED
  BY <1>2, <1>3 DEF RevokeKey

\* Whoever gets the lock finds the invitation unspent.
LEMMA RegisterSelectsInv ==
  ASSUME IndInv, NEW r \in Requests, RegisterSelects(r)
  PROVE  IndInv'
<1> DEFINE i == reqs[r].target
<1>1. /\ reqs[r].pc = "handle" /\ reqs[r].op = "register" /\ i \in Invites /\ lock[i] = None
      /\ invites[i].status # "none" /\ UNCHANGED <<legacy, keys, invites, overlap>> /\ (reqs[r].entitled \/ Spent(i))
      /\ reqs[r] \in Request /\ reqs \in [Requests -> Request] /\ lock \in [Invites -> Requests \cup {None}]
  BY Types DEF RegisterSelects, Serves, IndInv, ReqInv
<1>2. CASE Refuse(r) /\ UNCHANGED lock
  BY <1>1, <1>2, Refused
<1>3. CASE invites[i].status # "used" /\ ~invites[i].expired /\ At(r, "chosen") /\ lock' = [lock EXCEPT ![i] = r]
  <2>1. /\ reqs' = [reqs EXCEPT ![r] = [reqs[r] EXCEPT !.pc = "chosen"]]
        /\ [reqs[r] EXCEPT !.pc = "chosen"] \in Request
    BY <1>1, <1>3 DEF At, Request
  <2>2. /\ reqs' \in [Requests -> Request] /\ lock' \in [Invites -> Requests \cup {None}]
        /\ reqs'[r].pc = "chosen" /\ reqs'[r].target = i
        /\ reqs'[r].op = "register" /\ reqs'[r].entitled = reqs[r].entitled
        /\ \A q \in Requests : q # r => reqs'[q] = reqs[q]
    BY <1>1, <1>3, <2>1 DEF Request
  <2>3. \A j \in Invites, q \in Requests :
          lock'[j] = q <=> (reqs'[q].pc = "chosen" /\ reqs'[q].target = j)
    <3>1. \A j \in Invites, q \in Requests : lock[j] = q <=> (reqs[q].pc = "chosen" /\ reqs[q].target = j)
      BY Types DEF IndInv
    <3>2. lock'[i] = r /\ \A j \in Invites : j # i => lock'[j] = lock[j]
      BY <1>1, <1>3
    <3>3. \A q \in Requests : ~(reqs[q].pc = "chosen" /\ reqs[q].target = i)
      BY <1>1, <3>1, TokensAssumption
    <3> HIDE DEF i
    <3> QED
      BY <1>1, <2>2, <3>1, <3>2, <3>3
  <2>4. TypeOK'
    BY <1>1, <2>2, <2>3, Types DEF IndInv, TypeOK, Key, Invite, Request
  <2>5. ReqInv(r)'
    BY <1>1, <1>3, <2>2 DEF ReqInv, Spent
  <2> QED
    BY <1>1, <2>2, <2>4, <2>5, OnlyRequest
<1> QED
  BY <1>2, <1>3 DEF RegisterSelects

\* A new row: nobody had the key before.
LEMMA FreshKey ==
  ASSUME IndInv, KeyRows # Keys, NEW new \in Key, new.status = "active",
         keys' = [keys EXCEPT ![Fresh] = new]
  PROVE  /\ Fresh \in Keys \ KeyRows /\ keys' \in [Keys -> Key]
         /\ KeyRows' = KeyRows \cup {Fresh}
         /\ \A k \in KeyRows : keys'[k] = keys[k] /\ (k \in Active' => k \in Active)
         /\ \A i : KeysOf(i)' = KeysOf(i) \cup (IF new.invite = i THEN {Fresh} ELSE {})
<1>1. Fresh \in Keys \ KeyRows
  <2>1. \E k \in Keys : k \notin KeyRows
    BY DEF KeyRows
  <2> QED
    BY <2>1 DEF Fresh
<1> DEFINE f == Fresh
<1>2. f \in Keys \ KeyRows /\ keys' = [keys EXCEPT ![f] = new]
  BY <1>1
<1> HIDE DEF f
<1>3. keys' \in [Keys -> Key] /\ keys'[f] = new /\ \A k \in Keys : k # f => keys'[k] = keys[k]
  <2>1. keys \in [Keys -> Key]
    BY Types DEF IndInv
  <2> QED
    BY <1>2, <2>1
<1>4. KeyRows' = KeyRows \cup {f}
  BY <1>2, <1>3 DEF KeyRows
<1>5. \A k \in KeyRows : keys'[k] = keys[k] /\ (k \in Active' => k \in Active)
  BY <1>2, <1>3 DEF KeyRows, Active
<1>6. \A i : KeysOf(i)' = KeysOf(i) \cup (IF new.invite = i THEN {f} ELSE {})
  BY <1>2, <1>3, <1>4, <1>5 DEF KeysOf
<1> QED
  BY <1>2, <1>3, <1>4, <1>5, <1>6 DEF f

\* The one key of an invitation that had none; nobody else has chosen it.
LEMMA RegisterCommitsInv ==
  ASSUME IndInv, NEW r \in Requests, RegisterCommits(r)
  PROVE  IndInv'
<1> DEFINE i == reqs[r].target
           new == [status |-> "active", admin |-> FALSE, invite |-> i]
<1>1. /\ reqs[r].pc = "chosen" /\ KeyRows # Keys /\ Serve(r)
      /\ i \in Invites /\ reqs[r].entitled /\ invites[i].status # "used"
      /\ lock' = [lock EXCEPT ![i] = None] /\ UNCHANGED <<legacy, overlap>>
      /\ invites' = [invites EXCEPT ![i].status = "used"]
      /\ keys' = [keys EXCEPT ![Fresh] = new]
      /\ lock \in [Invites -> Requests \cup {None}] /\ invites \in [Invites -> Invite]
      /\ reqs \in [Requests -> Request]
  BY Types DEF RegisterCommits, IndInv, ReqInv
<1>2. new \in Key /\ new.status = "active" /\ new.invite = i
  BY <1>1 DEF Key
<1> HIDE DEF new
<1>3. /\ Fresh \in Keys \ KeyRows /\ keys' \in [Keys -> Key]
      /\ KeyRows' = KeyRows \cup {Fresh}
      /\ \A k \in KeyRows : keys'[k] = keys[k] /\ (k \in Active' => k \in Active)
      /\ \A j : KeysOf(j)' = KeysOf(j) \cup (IF new.invite = j THEN {Fresh} ELSE {})
  BY <1>1, <1>2, FreshKey
<1>4. /\ invites' \in [Invites -> Invite] /\ invites'[i].status = "used"
      /\ invites'[i].expired = invites[i].expired
      /\ \A j \in Invites : j # i => invites'[j] = invites[j]
  BY <1>1 DEF Invite
<1>5. /\ reqs' \in [Requests -> Request] /\ reqs'[r].pc = "served" /\ ReqInv(r)'
      /\ \A q \in Requests : q # r => reqs'[q] = reqs[q]
  BY <1>1, Served
<1>6. \A j \in Invites, q \in Requests : lock[j] = q <=> (reqs[q].pc = "chosen" /\ reqs[q].target = j)
  BY Types DEF IndInv
<1>7. lock'[i] = None /\ lock[i] = r /\ \A j \in Invites : j # i => lock'[j] = lock[j]
  BY <1>1, <1>6
<1> HIDE DEF i
<1>8. TypeOK'
  <2>1. \A j \in Invites, q \in Requests :
          lock'[j] = q <=> (reqs'[q].pc = "chosen" /\ reqs'[q].target = j)
    BY <1>5, <1>6, <1>7, TokensAssumption DEF i
  <2>2. lock' \in [Invites -> Requests \cup {None}]
    BY <1>1
  <2> QED
    BY <1>1, <1>3, <1>4, <1>5, <2>1, <2>2, Types DEF IndInv, TypeOK, Key, Invite, Request
<1>9. Grows
  BY <1>1, <1>3, <1>4 DEF Grows, Spent
<1>10. ASSUME NEW q \in Requests, q # r PROVE ReqInv(q)'
  <2>1. reqs[q].pc = "chosen" => /\ reqs[q].target \in Invites /\ invites[reqs[q].target].status # "used"
                                 /\ reqs[q].target # i
    BY <1>6, <1>7, <1>10 DEF IndInv, ReqInv
  <2> QED
    BY <1>4, <1>5, <1>9, <1>10, <2>1, Untouched
<1>11. ASSUME NEW j \in Invites PROVE UsedOnce(j)'
  <2>1. UsedOnce(j)
    BY DEF IndInv
  <2>2. CASE j = i
    BY <1>1, <1>2, <1>3, <1>4, <2>1, <2>2 DEF UsedOnce
  <2>3. CASE j # i
    BY <1>2, <1>3, <1>4, <2>1, <2>3 DEF UsedOnce
  <2> QED
    BY <2>2, <2>3
<1> QED
  BY <1>5, <1>8, <1>10, <1>11 DEF IndInv

\* A request that ends early gives its lock back.
LEMMA FailInv ==
  ASSUME IndInv, NEW r \in Requests, Fail(r)
  PROVE  IndInv'
<1>1. /\ reqs' = [reqs EXCEPT ![r] = Idle] /\ UNCHANGED <<legacy, keys, invites, overlap>>
      /\ lock' = [i \in Invites |-> IF lock[i] = r THEN None ELSE lock[i]]
      /\ reqs \in [Requests -> Request] /\ lock \in [Invites -> Requests \cup {None}]
  BY Types DEF Fail, Refuse, IndInv
<1>2. /\ reqs' \in [Requests -> Request] /\ reqs'[r] = Idle
      /\ \A q \in Requests : q # r => reqs'[q] = reqs[q]
  BY <1>1, IdleTyped
<1>3. lock' \in [Invites -> Requests \cup {None}]
  BY <1>1
<1>4. \A j \in Invites, q \in Requests :
        lock'[j] = q <=> (reqs'[q].pc = "chosen" /\ reqs'[q].target = j)
  <2>1. \A j \in Invites, q \in Requests : lock[j] = q <=> (reqs[q].pc = "chosen" /\ reqs[q].target = j)
    BY Types DEF IndInv
  <2> SUFFICES ASSUME NEW j \in Invites, NEW q \in Requests
               PROVE  lock'[j] = q <=> (reqs'[q].pc = "chosen" /\ reqs'[q].target = j)
    OBVIOUS
  <2>2. lock'[j] = IF lock[j] = r THEN None ELSE lock[j]
    BY <1>1
  <2>3. CASE q = r
    BY <1>2, <2>2, <2>3, IdleTyped, TokensAssumption
  <2>4. CASE q # r
    BY <1>2, <2>1, <2>2, <2>4, TokensAssumption
  <2> QED
    BY <2>3, <2>4
<1>5. TypeOK'
  BY <1>1, <1>2, <1>3, <1>4, Types DEF IndInv, TypeOK, Key, Invite, Request
<1>6. ReqInv(r)'
  BY <1>2 DEF ReqInv, Idle
<1> QED
  BY <1>1, <1>2, <1>5, <1>6, OnlyRequest

\* What happens beside the requests: a key made at the command line, a day that
\* passes.
LEMMA TablesGrow ==
  ASSUME IndInv, UNCHANGED <<legacy, lock, reqs, overlap>>, Grows,
         keys' \in [Keys -> Key], invites' \in [Invites -> Invite],
         \A i \in Invites : (invites'[i].status = "used" <=> invites[i].status = "used")
                            /\ KeysOf(i)' = KeysOf(i)
  PROVE  IndInv'
<1>1. TypeOK'
  BY Types DEF IndInv, TypeOK, Key, Invite, Request
<1>2. ASSUME NEW q \in Requests PROVE ReqInv(q)'
  <2>1. reqs[q].pc = "chosen" => reqs[q].target \in Invites /\ invites[reqs[q].target].status # "used"
    BY DEF IndInv, ReqInv
  <2> QED
    BY <2>1, Untouched
<1>3. \A i \in Invites : UsedOnce(i)'
  BY DEF IndInv, UsedOnce
<1> QED
  BY <1>1, <1>2, <1>3 DEF IndInv

\* Each action preserves the invariant.
LEMMA NextInv == IndInv /\ [Next]_vars => IndInv'
<1> SUFFICES ASSUME IndInv, [Next]_vars PROVE IndInv'
  OBVIOUS
<1>1. ASSUME NEW r \in Requests, Arrive(r) \/ Handle(r) \/ Fail(r) PROVE IndInv'
  <2>1. CASE NotAdmin(r)
    BY <2>1, Refused DEF NotAdmin
  <2> QED
    BY <1>1, <2>1, ArriveInv, HasAnyKeysInv, LookupKeyInv, ReadInv, CreateInviteInv, RevokeKeyInv,
       RegisterSelectsInv, RegisterCommitsInv, FailInv
    DEF Handle, Register
<1>2. CASE CreateAdminKey
  <2> DEFINE new == [status |-> "active", admin |-> TRUE, invite |-> None]
  <2>1. /\ KeyRows # Keys /\ keys' = [keys EXCEPT ![Fresh] = new]
        /\ UNCHANGED <<legacy, invites, lock, reqs, overlap>> /\ invites \in [Invites -> Invite]
    BY <1>2, Types DEF CreateAdminKey, IndInv
  <2>2. new \in Key /\ new.status = "active" /\ new.invite \notin Invites
    BY TokensAssumption DEF Key
  <2> HIDE DEF new
  <2>3. /\ keys' \in [Keys -> Key] /\ KeyRows' = KeyRows \cup {Fresh}
        /\ \A k \in KeyRows : keys'[k] = keys[k] /\ (k \in Active' => k \in Active)
        /\ \A i : KeysOf(i)' = KeysOf(i) \cup (IF new.invite = i THEN {Fresh} ELSE {})
    BY <2>1, <2>2, FreshKey
  <2>4. Grows
    BY <2>1, <2>3 DEF Grows, Spent
  <2> QED
    BY <2>1, <2>2, <2>3, <2>4, TablesGrow
<1>3. ASSUME NEW i \in Invites, Expire(i) PROVE IndInv'
  <2>1. /\ invites[i].status = "open" /\ invites' = [invites EXCEPT ![i].expired = TRUE]
        /\ UNCHANGED <<legacy, keys, lock, reqs, overlap>>
        /\ keys \in [Keys -> Key] /\ invites \in [Invites -> Invite]
    BY <1>3, Types DEF Expire, IndInv
  <2>2. /\ invites' \in [Invites -> Invite]
        /\ \A j \in Invites : invites'[j].status = invites[j].status
                              /\ (invites[j].expired => invites'[j].expired)
    BY <2>1 DEF Invite
  <2>3. Grows /\ \A j \in Invites : KeysOf(j)' = KeysOf(j)
    BY <2>1, <2>2 DEF Grows, Spent, KeyRows, Active, KeysOf
  <2> QED
    BY <2>1, <2>2, <2>3, TablesGrow
<1>4. CASE UNCHANGED vars
  <2>1. Grows /\ \A j \in Invites : KeysOf(j)' = KeysOf(j)
    BY <1>4 DEF vars, Grows, Spent, KeyRows, Active, KeysOf
  <2> QED
    BY <1>4, <2>1, TablesGrow, Types DEF vars, IndInv
<1> QED
  BY <1>1, <1>2, <1>3, <1>4 DEF Next

\* The invariant of the specification.
LEMMA Invariant == Spec => []IndInv
  BY InitInv, NextInv, PTL DEF Spec

\* The types, and that an invitation's row is locked by the one registration
\* that has chosen it.
THEOREM TypeCorrect == Spec => []TypeOK
  BY Invariant, PTL DEF IndInv

\* An invitation makes one key, however many registrations present it.
THEOREM InvitesAreSingleUse == Spec => []OneKeyPerInvite
<1>1. IndInv => OneKeyPerInvite
  <2> SUFFICES ASSUME IndInv, NEW i \in Invites
               PROVE  Cardinality(KeysOf(i)) = (IF invites[i].status = "used" THEN 1 ELSE 0)
    BY DEF OneKeyPerInvite
  <2>1. CASE invites[i].status = "used"
    <3>1. PICK k \in Keys : KeysOf(i) = {k}
      BY <2>1 DEF IndInv, UsedOnce
    <3>2. Cardinality({k}) = 1
      BY FS_Singleton
    <3> QED
      BY <2>1, <3>1, <3>2
  <2>2. CASE invites[i].status # "used"
    BY <2>2, FS_EmptySet DEF IndInv, UsedOnce
  <2> QED
    BY <2>1, <2>2
<1> QED
  BY <1>1, Invariant, PTL

\* Nobody is served who was not entitled when the request arrived, whatever keys
\* are made and revoked while it is under way.
THEOREM AccessControlled == Spec => []ServedMeansEntitled
<1>1. IndInv => ServedMeansEntitled
  BY DEF IndInv, ReqInv, ServedMeansEntitled
<1> QED
  BY <1>1, Invariant, PTL

-----------------------------------------------------------------------------
(* Where administrators come from, and that they stay.                       *)

\* The static key names no row.
ByAdmin(k) == k \in Admins \/ (k = None /\ legacy)

\* A request that _require_admin lets pass.
Asks(r) == reqs[r].pc = "handle" /\ reqs[r].op \in AdminOps /\ reqs[r].admin

Revoking(r) == InFlight(r) /\ reqs[r].op = "revoke"

\* Every key hangs on an invitation, every invitation on an administrator.
TraceInv ==
  /\ \A k \in KeyRows \ Admins : /\ keys[k].invite \in Invites
                                 /\ invites[keys[k].invite].status # "none"
  /\ \A i \in Invites : invites[i].status # "none" => ByAdmin(invites[i].by)
  /\ \A r \in Requests : Asks(r) => ByAdmin(reqs[r].key)

\* Without a static key, and while revocations come one at a time, whoever may
\* revoke has an active key; it is not the one that is revoked.
LastAdmin ==
  ~legacy /\ ~overlap =>
    /\ Admins # {} => Admins \cap Active # {}
    /\ \A r, q \in Requests : Revoking(r) /\ Revoking(q) => r = q
    /\ \A r \in Requests : Asks(r) /\ reqs[r].op = "revoke" => reqs[r].key \in Active

AdminInv == IndInv /\ TraceInv /\ LastAdmin

\* A step of one request that touches neither table.
LEMMA Quiet ==
  ASSUME AdminInv, NEW r \in Requests, UNCHANGED <<legacy, keys, invites>>,
         overlap => overlap',
         \A q \in Requests : q # r => reqs'[q] = reqs[q],
         Asks(r)' => (reqs'[r].key \in Admins \cap Active) \/ (reqs'[r].key = None /\ legacy),
         Revoking(r)' => \/ overlap' \/ Revoking(r)
                         \/ \A q \in Requests : q # r => ~Revoking(q)
  PROVE  TraceInv' /\ LastAdmin'
<1>1. KeyRows' = KeyRows /\ Admins' = Admins /\ Active' = Active
  BY DEF KeyRows, Admins, Active
<1>2. \A k : ByAdmin(k)' <=> ByAdmin(k)
  BY <1>1 DEF ByAdmin
<1>3. \A q \in Requests : q # r => (Asks(q)' <=> Asks(q)) /\ (Revoking(q)' <=> Revoking(q))
  BY DEF Asks, Revoking, InFlight
<1>4. TraceInv /\ LastAdmin
  BY DEF AdminInv
<1>5. TraceInv'
  BY <1>1, <1>2, <1>3, <1>4 DEF TraceInv, ByAdmin
<1>6. LastAdmin'
  <2> SUFFICES ASSUME ~legacy, ~overlap', ~overlap
               PROVE  /\ Admins # {} => Admins \cap Active # {}
                      /\ \A p, q \in Requests : Revoking(p)' /\ Revoking(q)' => p = q
                      /\ \A q \in Requests : Asks(q)' /\ reqs'[q].op = "revoke" => reqs'[q].key \in Active
    BY <1>1 DEF LastAdmin
  <2>1. /\ Admins # {} => Admins \cap Active # {}
        /\ \A p, q \in Requests : Revoking(p) /\ Revoking(q) => p = q
        /\ \A q \in Requests : Asks(q) /\ reqs[q].op = "revoke" => reqs[q].key \in Active
    BY <1>4 DEF LastAdmin
  <2>2. \A p, q \in Requests : Revoking(p)' /\ Revoking(q)' => p = q
    BY <1>3, <2>1
  <2>3. \A q \in Requests : Asks(q)' /\ reqs'[q].op = "revoke" => reqs'[q].key \in Active
    BY <1>3, <2>1
  <2> QED
    BY <2>1, <2>2, <2>3
<1> QED
  BY <1>5, <1>6

\* A step that writes to a table, for a request that is then served or for none.
LEMMA Writes ==
  ASSUME AdminInv, UNCHANGED <<legacy, overlap>>,
         \A q \in Requests : reqs'[q] = reqs[q] \/ reqs'[q].pc = "served",
         Admins \subseteq Admins',
         \A i \in Invites : invites[i].status # "none" => /\ invites'[i].status # "none"
                                                          /\ invites'[i].by = invites[i].by,
         \A i \in Invites : invites'[i].status # "none" =>
           invites[i].status # "none" \/ ByAdmin(invites'[i].by),
         \A k \in KeyRows' \ Admins' :
           \/ k \in KeyRows \ Admins /\ keys'[k].invite = keys[k].invite
           \/ keys'[k].invite \in Invites /\ invites'[keys'[k].invite].status # "none",
         ~legacy /\ ~overlap => /\ Admins' # {} => Admins' \cap Active' # {}
                                /\ \A q \in Requests : reqs'[q] = reqs[q] /\ Revoking(q) =>
                                     Active \subseteq Active'
  PROVE  TraceInv' /\ LastAdmin'
<1>1. TraceInv /\ LastAdmin
  BY DEF AdminInv
<1>2. \A k : ByAdmin(k) => ByAdmin(k)'
  BY DEF ByAdmin
<1>3. \A q \in Requests : /\ Asks(q)' => Asks(q) /\ reqs'[q] = reqs[q]
                          /\ Revoking(q)' => Revoking(q) /\ reqs'[q] = reqs[q]
  BY DEF Asks, Revoking, InFlight
<1>4. TraceInv'
  <2>1. ASSUME NEW k \in KeyRows' \ Admins'
        PROVE  keys'[k].invite \in Invites /\ invites'[keys'[k].invite].status # "none"
    BY <1>1 DEF TraceInv
  <2>2. ASSUME NEW i \in Invites, invites'[i].status # "none" PROVE ByAdmin(invites[i].by)'
    BY <1>1, <1>2, <2>2 DEF TraceInv
  <2>3. ASSUME NEW q \in Requests, Asks(q)' PROVE ByAdmin(reqs[q].key)'
    BY <1>1, <1>2, <1>3, <2>3 DEF TraceInv
  <2> QED
    BY <2>1, <2>2, <2>3 DEF TraceInv
<1>5. LastAdmin'
  <2> SUFFICES ASSUME ~legacy, ~overlap
               PROVE  /\ Admins' # {} => Admins' \cap Active' # {}
                      /\ \A p, q \in Requests : Revoking(p)' /\ Revoking(q)' => p = q
                      /\ \A q \in Requests : Asks(q)' /\ reqs'[q].op = "revoke" => reqs'[q].key \in Active'
    BY DEF LastAdmin
  <2>1. \A p, q \in Requests : Revoking(p)' /\ Revoking(q)' => p = q
    BY <1>1, <1>3 DEF LastAdmin
  <2>2. ASSUME NEW q \in Requests, Asks(q)', reqs'[q].op = "revoke" PROVE reqs'[q].key \in Active'
    <3>1. Asks(q) /\ reqs'[q] = reqs[q] /\ Revoking(q)
      BY <1>3, <2>2 DEF Asks, Revoking, InFlight
    <3>2. reqs[q].key \in Active
      BY <1>1, <2>2, <3>1 DEF LastAdmin
    <3> QED
      BY <3>1, <3>2
  <2> QED
    BY <2>1, <2>2
<1> QED
  BY <1>4, <1>5

\* A request that arrives without a static key may ask for nothing yet; a second
\* revocation is recorded.
LEMMA ArriveAdmin ==
  ASSUME AdminInv, NEW r \in Requests, Arrive(r)
  PROVE  TraceInv' /\ LastAdmin'
<1>1. /\ ~InFlight(r) /\ UNCHANGED <<legacy, keys, invites>>
      /\ reqs \in [Requests -> Request] /\ overlap \in BOOLEAN
  BY Types DEF Arrive, AdminInv, IndInv
<1>2. PICK op \in Ops, token \in Tokens : \E target \in Targets(op) :
        /\ reqs' = [reqs EXCEPT ![r] =
             [op |-> op, token |-> token, target |-> target,
              pc |-> IF op = "register" \/ token = Legacy THEN "handle"
                     ELSE IF legacy THEN "lookup" ELSE "any_keys",
              admin |-> op # "register" /\ token = Legacy,
              key |-> None,
              entitled |-> Entitled(op, token, target)]]
        /\ overlap' = (overlap \/ (op = "revoke" /\ \E q \in Requests :
                                     InFlight(q) /\ reqs[q].op = "revoke"))
  BY DEF Arrive
<1>3. PICK target, pc, entitled :
        /\ reqs' = [reqs EXCEPT ![r] =
             [op |-> op, token |-> token, target |-> target, pc |-> pc,
              admin |-> op # "register" /\ token = Legacy, key |-> None, entitled |-> entitled]]
        /\ overlap' = (overlap \/ (op = "revoke" /\ \E q \in Requests :
                                     InFlight(q) /\ reqs[q].op = "revoke"))
  BY <1>2
<1> DEFINE v == [op |-> op, token |-> token, target |-> target, pc |-> pc,
                 admin |-> op # "register" /\ token = Legacy, key |-> None, entitled |-> entitled]
<1>4. v.op = op /\ v.key = None /\ v.admin = (op # "register" /\ token = Legacy)
  OBVIOUS
<1>5. reqs' = [reqs EXCEPT ![r] = v]
  BY <1>3
<1> HIDE DEF v
<1>6. reqs'[r] = v /\ \A q \in Requests : q # r => reqs'[q] = reqs[q]
  BY <1>1, <1>5
<1>7. token = Legacy => legacy
  BY TokensAssumption DEF Tokens, KeyRows
<1>8. Asks(r)' => reqs'[r].key = None /\ legacy
  BY <1>4, <1>6, <1>7 DEF Asks
<1>9. Revoking(r)' => overlap' \/ \A q \in Requests : q # r => ~Revoking(q)
  <2>1. Revoking(r)' => op = "revoke"
    BY <1>4, <1>6 DEF Revoking
  <2> QED
    BY <1>3, <2>1 DEF Revoking
<1> QED
  BY <1>1, <1>3, <1>6, <1>8, <1>9, Quiet

\* A request that is answered without a write, or moves on without rights.
LEMMA Answered ==
  ASSUME AdminInv, NEW r \in Requests, UNCHANGED <<legacy, keys, invites, overlap>>,
         Refuse(r) \/ Serve(r)
  PROVE  TraceInv' /\ LastAdmin'
<1>1. reqs \in [Requests -> Request]
  BY Types DEF AdminInv, IndInv
<1>2. /\ reqs'[r].pc \in {"idle", "served"}
      /\ \A q \in Requests : q # r => reqs'[q] = reqs[q]
  <2>1. CASE Refuse(r)
    BY <1>1, <2>1 DEF Refuse, Idle
  <2>2. CASE Serve(r)
    BY <1>1, <2>2 DEF Serve, Idle
  <2> QED
    BY <2>1, <2>2
<1>3. ~Asks(r)' /\ ~Revoking(r)'
  BY <1>2 DEF Asks, Revoking, InFlight
<1> QED
  BY <1>2, <1>3, Quiet

\* The middleware: an open server makes nobody an administrator, a key that is
\* found is active.
LEMMA MiddlewareAdmin ==
  ASSUME AdminInv, NEW r \in Requests, HasAnyKeys(r) \/ LookupKey(r)
  PROVE  TraceInv' /\ LastAdmin'
<1>1. /\ UNCHANGED <<legacy, keys, invites, overlap>> /\ reqs[r].pc \in {"any_keys", "lookup"}
      /\ reqs \in [Requests -> Request] /\ ReqInv(r)
  BY Types DEF HasAnyKeys, LookupKey, AdminInv, IndInv
<1>2. CASE Refuse(r)
  BY <1>1, <1>2, Answered
<1>3. ASSUME NEW pc \in {"lookup", "handle"}, At(r, pc), reqs[r].pc = "any_keys"
      PROVE  TraceInv' /\ LastAdmin'
  <2>1. /\ reqs'[r].op = reqs[r].op /\ ~reqs'[r].admin
        /\ \A q \in Requests : q # r => reqs'[q] = reqs[q]
    BY <1>1, <1>3 DEF At, ReqInv, Request
  <2>2. ~Asks(r)' /\ (Revoking(r)' => Revoking(r))
    BY <1>3, <2>1 DEF Asks, Revoking, InFlight
  <2> QED
    BY <1>1, <2>1, <2>2, Quiet
<1>4. ASSUME LookupKey(r), reqs[r].token \in Active
      PROVE  TraceInv' /\ LastAdmin'
  <2> DEFINE k == reqs[r].token
             v == [[[reqs[r] EXCEPT !.pc = "handle"] EXCEPT !.key = k] EXCEPT !.admin = keys[k].admin]
  <2>1. reqs[r] \in Request /\ reqs[r].pc = "lookup" /\ keys \in [Keys -> Key]
    BY <1>1, <1>4, Types DEF LookupKey, AdminInv, IndInv
  <2>2. v.key = k /\ v.op = reqs[r].op /\ v.admin = keys[k].admin /\ v.pc = "handle"
    BY <2>1 DEF Request
  <2>3. reqs' = [reqs EXCEPT ![r] = v]
    BY <1>4 DEF LookupKey
  <2> HIDE DEF v
  <2>4. reqs'[r] = v /\ \A q \in Requests : q # r => reqs'[q] = reqs[q]
    BY <1>1, <2>3
  <2>5. Asks(r)' => reqs'[r].key \in Admins \cap Active
    BY <1>4, <2>2, <2>4 DEF Asks, Admins, Active, KeyRows
  <2>6. Revoking(r)' => Revoking(r)
    BY <2>1, <2>2, <2>4 DEF Revoking, InFlight
  <2> QED
    BY <1>1, <2>4, <2>5, <2>6, Quiet
<1> QED
  BY <1>1, <1>2, <1>3, <1>4 DEF HasAnyKeys, LookupKey

\* An invitation bears the key of the administrator who made it.
LEMMA CreateInviteAdmin ==
  ASSUME AdminInv, NEW r \in Requests, CreateInvite(r)
  PROVE  TraceInv' /\ LastAdmin'
<1>1. /\ UNCHANGED <<legacy, keys, overlap>> /\ Serve(r) /\ Asks(r)
      /\ reqs \in [Requests -> Request] /\ invites \in [Invites -> Invite]
      /\ TraceInv /\ LastAdmin
  BY Types DEF CreateInvite, Serves, Asks, AdminOps, AdminInv, IndInv
<1>2. PICK i \in Invites :
        /\ invites[i].status = "none"
        /\ invites' = [invites EXCEPT ![i] = [status |-> "open", expired |-> FALSE,
                                              by |-> reqs[r].key]]
  BY DEF CreateInvite
<1>3. /\ invites'[i].by = reqs[r].key
      /\ \A j \in Invites : j # i => invites'[j] = invites[j]
  BY <1>1, <1>2
<1>4. ByAdmin(reqs[r].key)
  BY <1>1 DEF TraceInv
<1>5. Admins' = Admins /\ KeyRows' = KeyRows /\ Active' = Active
  BY <1>1 DEF Admins, KeyRows, Active
<1>6. \A q \in Requests : reqs'[q] = reqs[q] \/ reqs'[q].pc = "served"
  BY <1>1 DEF Serve, Idle
<1>7. ~legacy /\ ~overlap => (Admins # {} => Admins \cap Active # {})
  BY <1>1 DEF LastAdmin
<1> QED
  BY <1>1, <1>2, <1>3, <1>4, <1>5, <1>6, <1>7, Writes

\* The administrator who revokes keeps a key, unless another revocation meets it.
LEMMA RevokeKeyAdmin ==
  ASSUME AdminInv, NEW r \in Requests, RevokeKey(r)
  PROVE  TraceInv' /\ LastAdmin'
<1> DEFINE t == reqs[r].target
<1>1. /\ UNCHANGED <<legacy, invites, overlap>> /\ Asks(r) /\ reqs[r].op = "revoke" /\ Revoking(r)
      /\ t \in KeyRows /\ KeyRows \subseteq Keys
      /\ reqs \in [Requests -> Request] /\ keys \in [Keys -> Key] /\ TraceInv /\ LastAdmin
  BY Types DEF RevokeKey, Serves, Asks, AdminOps, Revoking, InFlight, AdminInv, IndInv, ReqInv, KeyRows
<1>2. CASE Refuse(r) /\ UNCHANGED keys
  BY <1>1, <1>2, Answered
<1>3. CASE reqs[r].key # t /\ keys' = [keys EXCEPT ![t].status = "revoked"] /\ Serve(r)
  <2>1. \A k \in Keys : /\ keys'[k].admin = keys[k].admin /\ keys'[k].invite = keys[k].invite
                        /\ k # t => keys'[k] = keys[k]
                        /\ k = t => keys'[k].status = "revoked"
    BY <1>1, <1>3 DEF Key
  <2>2. KeyRows' = KeyRows /\ Admins' = Admins /\ Active' = Active \ {t}
    BY <1>1, <2>1 DEF KeyRows, Active, Admins
  <2>3. /\ reqs'[r].pc = "served" /\ \A q \in Requests : q # r => reqs'[q] = reqs[q]
    BY <1>1, <1>3 DEF Serve, Idle
  <2>4. ASSUME ~legacy, ~overlap
        PROVE  /\ Admins' \cap Active' # {}
               /\ \A q \in Requests : Revoking(q) /\ reqs'[q] = reqs[q] => Active \subseteq Active'
    <3>1. reqs[r].key \in Admins /\ reqs[r].key \in Active
      BY <1>1, <2>4 DEF TraceInv, LastAdmin, ByAdmin
    <3>2. \A q \in Requests : Revoking(q) => q = r
      BY <1>1, <2>4 DEF LastAdmin
    <3>3. reqs'[r] # reqs[r]
      BY <1>1, <2>3 DEF Asks
    <3> QED
      BY <1>3, <2>2, <3>1, <3>2, <3>3
  <2>5. /\ \A q \in Requests : reqs'[q] = reqs[q] \/ reqs'[q].pc = "served"
        /\ \A k \in KeyRows' \ Admins' : k \in KeyRows \ Admins /\ keys'[k].invite = keys[k].invite
    BY <1>1, <2>1, <2>2, <2>3
  <2> QED
    BY <1>1, <2>2, <2>4, <2>5, Writes
<1> QED
  BY <1>2, <1>3 DEF RevokeKey

\* The new key hangs on its invitation.
LEMMA RegisterCommitsAdmin ==
  ASSUME AdminInv, NEW r \in Requests, RegisterCommits(r)
  PROVE  TraceInv' /\ LastAdmin'
<1> DEFINE i == reqs[r].target
           new == [status |-> "active", admin |-> FALSE, invite |-> i]
<1>1. /\ KeyRows # Keys /\ Serve(r) /\ UNCHANGED <<legacy, overlap>>
      /\ i \in Invites /\ IndInv /\ LastAdmin
      /\ invites' = [invites EXCEPT ![i].status = "used"]
      /\ keys' = [keys EXCEPT ![Fresh] = new]
      /\ invites \in [Invites -> Invite] /\ keys \in [Keys -> Key]
      /\ reqs \in [Requests -> Request]
  BY Types DEF RegisterCommits, AdminInv, IndInv, ReqInv
<1>2. new \in Key /\ new.status = "active" /\ ~new.admin /\ new.invite = i
  BY <1>1 DEF Key
<1> HIDE DEF new
<1>3. /\ Fresh \in Keys \ KeyRows /\ KeyRows' = KeyRows \cup {Fresh}
      /\ \A k \in KeyRows : keys'[k] = keys[k]
  BY <1>1, <1>2, FreshKey
<1>4. keys'[Fresh] = new
  BY <1>1, <1>3
<1>5. Admins' = Admins /\ Active \subseteq Active'
  BY <1>2, <1>3, <1>4 DEF Admins, Active, KeyRows
<1>6. \A j \in Invites : /\ invites'[j].by = invites[j].by
                         /\ invites'[j].status = IF j = i THEN "used" ELSE invites[j].status
  BY <1>1 DEF Invite
<1>7. invites[i].status # "none"
  BY <1>1 DEF IndInv, ReqInv, RegisterCommits
<1>8. \A q \in Requests : reqs'[q] = reqs[q] \/ reqs'[q].pc = "served"
  BY <1>1 DEF Serve, Idle
<1>9. \A k \in KeyRows' \ Admins' :
        \/ k \in KeyRows \ Admins /\ keys'[k].invite = keys[k].invite
        \/ keys'[k].invite \in Invites /\ invites'[keys'[k].invite].status # "none"
  BY <1>1, <1>2, <1>3, <1>4, <1>5, <1>6
<1>10. ~legacy /\ ~overlap => (Admins' # {} => Admins' \cap Active' # {})
  BY <1>1, <1>5 DEF LastAdmin
<1> HIDE DEF i
<1> QED
  BY <1>1, <1>5, <1>6, <1>7, <1>8, <1>9, <1>10, Writes

\* A key from the command line is an administrator's, and active.
LEMMA CreateAdminKeyAdmin ==
  ASSUME AdminInv, CreateAdminKey
  PROVE  TraceInv' /\ LastAdmin'
<1> DEFINE new == [status |-> "active", admin |-> TRUE, invite |-> None]
<1>1. /\ KeyRows # Keys /\ keys' = [keys EXCEPT ![Fresh] = new]
      /\ UNCHANGED <<legacy, invites, lock, reqs, overlap>>
      /\ IndInv /\ keys \in [Keys -> Key]
  BY Types DEF CreateAdminKey, AdminInv, IndInv
<1>2. new \in Key /\ new.status = "active" /\ new.admin
  BY DEF Key
<1> HIDE DEF new
<1>3. /\ Fresh \in Keys \ KeyRows /\ KeyRows' = KeyRows \cup {Fresh}
      /\ \A k \in KeyRows : keys'[k] = keys[k]
  BY <1>1, <1>2, FreshKey
<1>4. keys'[Fresh] = new
  BY <1>1, <1>3
<1>5. Admins' = Admins \cup {Fresh} /\ Active \subseteq Active' /\ Fresh \in Active'
  BY <1>2, <1>3, <1>4 DEF Admins, Active, KeyRows
<1>6. \A k \in KeyRows' \ Admins' : k \in KeyRows \ Admins /\ keys'[k].invite = keys[k].invite
  BY <1>3, <1>5
<1> QED
  BY <1>1, <1>5, <1>6, Writes

\* An invitation that expires keeps its maker.
LEMMA ExpireAdmin ==
  ASSUME AdminInv, NEW i \in Invites, Expire(i)
  PROVE  TraceInv' /\ LastAdmin'
<1>1. /\ invites' = [invites EXCEPT ![i].expired = TRUE]
      /\ UNCHANGED <<legacy, keys, lock, reqs, overlap>>
      /\ invites \in [Invites -> Invite] /\ LastAdmin
  BY Types DEF Expire, AdminInv, IndInv
<1>2. \A j \in Invites : invites'[j].status = invites[j].status /\ invites'[j].by = invites[j].by
  BY <1>1 DEF Invite
<1>3. Admins' = Admins /\ KeyRows' = KeyRows /\ Active' = Active
  BY <1>1 DEF Admins, KeyRows, Active
<1>4. ~legacy /\ ~overlap => (Admins # {} => Admins \cap Active # {})
  BY <1>1 DEF LastAdmin
<1> QED
  BY <1>1, <1>2, <1>3, <1>4, Writes

\* Nobody is an administrator yet.
LEMMA InitAdmin == Init => AdminInv
<1> SUFFICES ASSUME Init PROVE AdminInv
  OBVIOUS
<1>1. KeyRows = {} /\ Admins = {}
  BY DEF Init, KeyRows, Admins, NoKey
<1>2. \A r \in Requests : ~Asks(r) /\ ~Revoking(r)
  BY DEF Init, Asks, Revoking, InFlight, Idle
<1>3. \A i \in Invites : invites[i].status = "none"
  BY DEF Init, NoInvite
<1> QED
  BY <1>1, <1>2, <1>3, InitInv DEF AdminInv, TraceInv, LastAdmin

\* Each action preserves the invariant.
LEMMA NextAdmin == AdminInv /\ [Next]_vars => AdminInv'
<1> SUFFICES ASSUME AdminInv, [Next]_vars PROVE TraceInv' /\ LastAdmin'
  BY NextInv DEF AdminInv
<1>1. ASSUME NEW r \in Requests, Handle(r) \/ Fail(r) PROVE TraceInv' /\ LastAdmin'
  <2>1. CASE NotAdmin(r) \/ Read(r) \/ Fail(r)
    BY <2>1, Answered DEF NotAdmin, Read, Fail
  <2>2. CASE RegisterSelects(r)
    <3>1. CASE Refuse(r)
      BY <2>2, <3>1, Answered DEF RegisterSelects
    <3>2. CASE At(r, "chosen")
      <4>1. reqs \in [Requests -> Request] /\ UNCHANGED <<legacy, keys, invites, overlap>>
        BY <2>2, Types DEF RegisterSelects, AdminInv, IndInv
      <4>2. /\ reqs'[r].pc = "chosen" /\ reqs'[r].op = reqs[r].op
            /\ \A q \in Requests : q # r => reqs'[q] = reqs[q]
        BY <3>2, <4>1 DEF At, Request
      <4>3. ~Asks(r)' /\ (Revoking(r)' => Revoking(r))
        BY <2>2, <4>2 DEF Asks, Revoking, RegisterSelects
      <4> QED
        BY <4>1, <4>2, <4>3, Quiet
    <3> QED
      BY <2>2, <3>1, <3>2 DEF RegisterSelects
  <2> QED
    BY <1>1, <2>1, <2>2, MiddlewareAdmin, CreateInviteAdmin, RevokeKeyAdmin, RegisterCommitsAdmin
    DEF Handle, Register
<1>2. CASE UNCHANGED vars
  BY <1>2 DEF vars, AdminInv, TraceInv, LastAdmin, ByAdmin, Asks, Revoking, InFlight, Admins,
              KeyRows, Active
<1> QED
  BY <1>1, <1>2, ArriveAdmin, CreateAdminKeyAdmin, ExpireAdmin DEF Next

\* Every key was made at the command line or from an invitation an administrator
\* made: while the server is open to everyone, nobody can make one.
THEOREM KeysHaveAdmins == Spec => []KeysTraceToAdmins
<1>1. AdminInv => KeysTraceToAdmins
  BY DEF AdminInv, TraceInv, ByAdmin, KeysTraceToAdmins
<1> QED
  BY <1>1, InitAdmin, NextAdmin, PTL DEF Spec

\* Revoking one's own key is refused; that keeps an administrator as long as
\* revocations come one at a time.
THEOREM AnAdminRemains == Spec => []AdminRemains
<1>1. AdminInv => AdminRemains
  BY DEF AdminInv, LastAdmin, AdminRemains
<1> QED
  BY <1>1, InitAdmin, NextAdmin, PTL DEF Spec

=============================================================================
