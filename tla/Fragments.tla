------------------------------ MODULE Fragments ------------------------------
(***************************************************************************)
(* Fragments and variables: the upsert and delete of api/fragments.py over *)
(* the table of fragments, and the path a workflow takes to the browser    *)
(* meanwhile.  A run loads the workflow, reads the fragments it includes   *)
(* and expands them (services/fragments.py), is validated and stored, and  *)
(* has its declared variables resolved when its task starts                *)
(* (services/variables.py).  A scheduled run is not expanded.              *)
(*                                                                         *)
(* The text of a step is one token: a variable or a literal.  A value is a *)
(* text too, so it may be the token of another variable.  What a token     *)
(* that is left becomes while the steps are executed is in module          *)
(* Executor, with the loops and retries that decide it.                    *)
(***************************************************************************)
EXTENDS Naturals, FiniteSets, Sequences, SequencesExt

CONSTANTS FragmentIds, Variables,
          Literals,       \* texts without a token
          Empty,          \* the empty text, a literal
          Vault,          \* what secret-vault holds: reference -> literal
          References,     \* the literals that begin with "vault:"
          Environments,   \* what the service's environment may give
          Sent,           \* fragment -> the bodies upserts send: steps, variables
          Before,         \* fragment -> the body it was stored with before
          Workflows,      \* the stored workflows
          Overrides,      \* the variables of a run request
          Writers, Runs,  \* requests: each is made once
          None

VARIABLES rows,     \* workflow_fragments by fragment_id
          env, writers, runs

vars == <<rows, env, writers, runs>>

Bodies == UNION {Sent[f] \cup {Before[f]} : f \in FragmentIds}
Texts == Variables \cup Literals

(* What a text becomes when the tokens of the given values are replaced.   *)
Put(values, text) == IF text \in DOMAIN values THEN values[text] ELSE text

(* dict.update: the values of one dictionary over those of another.        *)
Over(new, old) ==
  [x \in DOMAIN new \cup DOMAIN old |-> IF x \in DOMAIN new THEN new[x] ELSE old[x]]

IsDirective(step) == "include" \in DOMAIN step /\ "text" \notin DOMAIN step

Filled(step, values) ==
  IF "text" \in DOMAIN step THEN [step EXCEPT !.text = Put(values, @)] ELSE step

(***************************************************************************)
(* resolve_fragments, from the rows found for the directives.              *)
(***************************************************************************)
Included(steps) == {steps[i].include : i \in {k \in DOMAIN steps : IsDirective(steps[k])}}

Expanded_NotFilled(steps, found) ==
  FlattenSeq([i \in DOMAIN steps |->
     IF IsDirective(steps[i]) THEN found[steps[i].include].steps ELSE <<steps[i]>>])
Expanded(steps, found) ==
  FlattenSeq([i \in DOMAIN steps |->
     IF IsDirective(steps[i])
     THEN LET fragment == found[steps[i].include].steps
          IN  [j \in DOMAIN fragment |-> Filled(fragment[j], steps[i].with)]
     ELSE <<steps[i]>>])

(* Among the fragments the last include wins; the workflow wins over all.  *)
Merged_FirstInclude(workflow, found) ==
  LET steps == workflow.steps
      merged[k \in 0 .. Len(steps)] ==
        IF k = 0 THEN <<>>
        ELSE IF IsDirective(steps[k]) THEN Over(merged[k - 1], found[steps[k].include].variables)
        ELSE merged[k - 1]
  IN  Over(workflow.variables, merged[Len(steps)])
Merged(workflow, found) ==
  LET steps == workflow.steps
      merged[k \in 0 .. Len(steps)] ==
        IF k = 0 THEN <<>>
        ELSE IF IsDirective(steps[k]) THEN Over(found[steps[k].include].variables, merged[k - 1])
        ELSE merged[k - 1]
  IN  Over(workflow.variables, merged[Len(steps)])

(***************************************************************************)
(* resolve_variables: a request's override, then the environment, then a   *)
(* default that is not empty.                                              *)
(***************************************************************************)
Values(run) ==
  [x \in DOMAIN run.variables |->
     IF x \in DOMAIN run.overrides THEN run.overrides[x]
     ELSE IF x \in DOMAIN env THEN env[x]
     ELSE run.variables[x]]

Unresolved(run) ==
  {x \in DOMAIN run.variables \ (DOMAIN run.overrides \cup DOMAIN env) :
     run.variables[x] = Empty}

Secret(value) == IF value \in DOMAIN Vault THEN Vault[value] ELSE value

Resolvable(run) ==
  /\ Unresolved(run) = {}
  /\ \A x \in DOMAIN run.variables : Values(run)[x] \in References => Values(run)[x] \in DOMAIN Vault

(***************************************************************************)
(* The table.  A row remembers who created it (its primary key) and, for   *)
(* the properties only, whether an upsert was committed over a row that    *)
(* had changed since that upsert loaded it.                                *)
(***************************************************************************)
NotSent == [pc |-> "idle", fragment |-> None, body |-> None, seen |-> None]
NotRun  == [pc |-> "idle", scheduled |-> FALSE, workflow |-> None, overrides |-> <<>>,
            found |-> <<>>, steps |-> <<>>, variables |-> <<>>]

Row(key, body) ==
  [key |-> key, steps |-> body.steps, variables |-> body.variables, version |-> 1, raced |-> FALSE]

RowFields == [key : Writers \cup {None}, version : Nat, raced : BOOLEAN,
              steps : {b.steps : b \in Bodies}, variables : {b.variables : b \in Bodies}]

(* What a name is given; a step with its text or a directive.              *)
Assignments == UNION {[names -> Texts] : names \in SUBSET Variables}
Steps ==
  [text : Texts] \cup [include : FragmentIds, with : Assignments]

ASSUME ContentsAssumption ==
  /\ \A body \in Bodies \cup Workflows : body.steps \in Seq(Steps) /\ body.variables \in Assignments
  /\ Environments \cup Overrides \subseteq Assignments
  /\ \A v \in DOMAIN Vault : Vault[v] \in Texts

ASSUME RequestsAssumption ==
  /\ IsFiniteSet(Writers) /\ None \notin Writers
  /\ None \notin Bodies /\ None \notin RowFields

Init ==
  /\ rows = [f \in FragmentIds |-> Row(None, Before[f])]
  /\ env \in Environments
  /\ writers = [w \in Writers |-> NotSent]
  /\ runs = [r \in Runs |-> NotRun]

(* The handler's SELECT by fragment_id.  No body: the request deletes.     *)
Load(w, f, body) ==
  /\ writers[w].pc = "idle"
  /\ writers' = [writers EXCEPT ![w] =
                   [pc |-> IF body = None /\ rows[f] = None THEN "refused" ELSE "loaded",
                    fragment |-> f, body |-> body, seen |-> rows[f]]]
  /\ UNCHANGED <<rows, env, runs>>

Answer(w, answer) == writers' = [writers EXCEPT ![w].pc = answer]

(* The object is built before the unique fragment_id is checked.           *)
Create(w) ==
  LET f == writers[w].fragment
      body == writers[w].body
  IN  /\ writers[w].pc = "loaded" /\ body # None /\ writers[w].seen = None
      /\ IF rows[f] # None
         THEN Answer(w, "refused") /\ UNCHANGED rows
         ELSE /\ rows' = [rows EXCEPT ![f] = Row(w, body)]
              /\ Answer(w, "stored")
      /\ UNCHANGED <<env, runs>>

SameRow_ByFragmentId(row, seen) == row # None
SameRow(row, seen) == row # None /\ row.key = seen.key

(* The columns that differ from what was loaded, and the version, counted  *)
(* from what was loaded, are written to the row with the loaded key.       *)
Written_NotCounted(row, seen, body) ==
  [row EXCEPT !.steps = body.steps, !.variables = body.variables, !.raced = @ \/ row # seen]
Written(row, seen, body) ==
  [row EXCEPT !.steps = IF body.steps = seen.steps THEN @ ELSE body.steps,
              !.variables = IF body.variables = seen.variables THEN @ ELSE body.variables,
              !.version = seen.version + 1,
              !.raced = @ \/ row # seen]

Update(w) ==
  LET f == writers[w].fragment
      seen == writers[w].seen
  IN  /\ writers[w].pc = "loaded" /\ writers[w].body # None /\ seen # None
      /\ IF SameRow(rows[f], seen)
         THEN /\ rows' = [rows EXCEPT ![f] = Written(@, seen, writers[w].body)]
              /\ Answer(w, "stored")
         ELSE Answer(w, "refused") /\ UNCHANGED rows
      /\ UNCHANGED <<env, runs>>

(* Deleting a row that is gone only warns.                                 *)
Delete(w) ==
  LET f == writers[w].fragment
  IN  /\ writers[w].pc = "loaded" /\ writers[w].body = None
      /\ rows' = IF SameRow(rows[f], writers[w].seen) THEN [rows EXCEPT ![f] = None] ELSE rows
      /\ Answer(w, "deleted")
      /\ UNCHANGED <<env, runs>>

(***************************************************************************)
(* The runs.                                                               *)
(***************************************************************************)
Becomes(r, run) == runs' = [runs EXCEPT ![r] = run] /\ UNCHANGED <<rows, env, writers>>

Accepted_Unvalidated(run) == [run EXCEPT !.pc = "pending"]
Accepted(run) ==
  [run EXCEPT !.pc = IF \E i \in DOMAIN run.steps : IsDirective(run.steps[i])
                     THEN "refused" ELSE "pending"]

(* run_workflow loads the stored workflow.                                 *)
Request(r, workflow, overrides) ==
  /\ runs[r].pc = "idle"
  /\ Becomes(r, [NotRun EXCEPT !.pc = "loaded", !.workflow = workflow, !.overrides = overrides])

(* A schedule's run validates the stored workflow as it is.                *)
Fire(r, workflow) ==
  /\ runs[r].pc = "idle"
  /\ Becomes(r, Accepted([NotRun EXCEPT !.scheduled = TRUE, !.workflow = workflow,
                            !.steps = workflow.steps, !.variables = workflow.variables]))

(* One query for every fragment included, then the expansion, the          *)
(* validation and the row, or the request fails.                           *)
Expand(r) ==
  LET run == runs[r]
      wanted == Included(run.workflow.steps)
      found == [f \in {g \in wanted : rows[g] # None} |-> rows[f]]
  IN  /\ run.pc = "loaded"
      /\ Becomes(r,
           IF wanted \subseteq DOMAIN found
           THEN Accepted([run EXCEPT !.found = found,
                            !.steps = Expanded(run.workflow.steps, found),
                            !.variables = Merged(run.workflow, found)])
           ELSE [run EXCEPT !.pc = "refused", !.found = found])

Resolve(r) ==
  LET run == runs[r]
      secrets == [x \in DOMAIN run.variables |-> Secret(Values(run)[x])]
  IN  /\ run.pc = "pending"
      /\ Becomes(r, IF Resolvable(run)
                    THEN [run EXCEPT !.pc = "running",
                            !.steps = [k \in DOMAIN @ |-> Filled(@[k], secrets)]]
                    ELSE [run EXCEPT !.pc = "failed"])

Next ==
  \/ \E w \in Writers, f \in FragmentIds : \E b \in Sent[f] \cup {None} : Load(w, f, b)
  \/ \E w \in Writers : Create(w) \/ Update(w) \/ Delete(w)
  \/ \E r \in Runs, wf \in Workflows, o \in Overrides : Request(r, wf, o)
  \/ \E r \in Runs, wf \in Workflows : Fire(r, wf)
  \/ \E r \in Runs : Expand(r) \/ Resolve(r)

Spec == Init /\ [][Next]_vars

(***************************************************************************)
(* Properties.                                                             *)
(***************************************************************************)
\* The types: a row's version exceeds the number of requests by at most one, a request was
\* answered once it is over, and every step of an accepted run is a step with a text.
TypeOK ==
  /\ rows \in [FragmentIds -> RowFields \cup {None}]
  /\ \A f \in FragmentIds : rows[f] # None => rows[f].version \in 1 .. Cardinality(Writers) + 1
  /\ env \in Environments
  /\ \A w \in Writers :
       /\ writers[w].pc \in {"idle", "loaded", "stored", "deleted", "refused"}
       /\ writers[w].seen \in RowFields \cup {None}
  /\ \A r \in Runs :
       /\ runs[r].pc \in {"idle", "loaded", "refused", "pending", "failed", "running"}
       /\ runs[r].pc \in {"pending", "failed", "running"} =>
            \A k \in DOMAIN runs[r].steps :
              "text" \in DOMAIN runs[r].steps[k] /\ runs[r].steps[k].text \in Texts

(* The upserts answered 201 that wrote this row, and the bodies it had.    *)
Upserts(f) ==
  {w \in Writers : /\ writers[w].pc = "stored" /\ writers[w].fragment = f
                   /\ IF writers[w].seen = None THEN rows[f].key = w
                      ELSE rows[f].key = writers[w].seen.key}
Given(f) ==
  {writers[w].body : w \in Upserts(f)} \cup (IF rows[f].key = None THEN {Before[f]} ELSE {})
Count(f) == Cardinality(Upserts(f)) + (IF rows[f].key = None THEN 1 ELSE 0)

\* Unless two upserts overlapped, a fragment is what one request sent, steps and
\* declared variables, and its version counts the upserts since it was created.
VersionCounts ==
  \A f \in FragmentIds : rows[f] # None /\ ~rows[f].raced =>
    /\ rows[f].version = Count(f)
    /\ \E body \in Given(f) : body.steps = rows[f].steps /\ body.variables = rows[f].variables

\* However upserts, deletions and re-creations interleave, each column of a
\* fragment is what some upsert of this row sent: nothing of a deleted fragment
\* comes back, and the version never exceeds their number.
NothingComesBack ==
  \A f \in FragmentIds : rows[f] # None =>
    /\ \E body \in Given(f) : body.steps = rows[f].steps
    /\ \E body \in Given(f) : body.variables = rows[f].variables
    /\ rows[f].version <= Count(f)

(* The places of the steps: <<i, j>> is the j-th step the i-th step of the *)
(* workflow stands for; At says where it is in the expanded workflow.      *)
Source(run, i) ==
  LET step == run.workflow.steps[i]
  IN  IF IsDirective(step) THEN run.found[step.include].steps ELSE <<step>>
Places(run) == UNION {{i} \X DOMAIN Source(run, i) : i \in DOMAIN run.workflow.steps}
At(run, p) ==
  Cardinality({q \in Places(run) : q[1] < p[1] \/ (q[1] = p[1] /\ q[2] <= p[2])})
With(run, i) ==
  LET step == run.workflow.steps[i] IN IF IsDirective(step) THEN step.with ELSE <<>>
Begun(run) == run.pc = "running"

\* An accepted run has the steps of every fragment in the place of its
\* directive, in order, none lost and none twice, and no directive is left.
ExpandedInPlace ==
  \A r \in Runs : runs[r].pc = "pending" =>
    /\ Len(runs[r].steps) = Cardinality(Places(runs[r]))
    /\ \A p \in Places(runs[r]) :
         LET source == Source(runs[r], p[1])[p[2]]
         IN  /\ runs[r].steps[At(runs[r], p)] = Filled(source, With(runs[r], p[1]))
             /\ ~IsDirective(source)

(* Who declares a variable: the workflow, or the last of its includes that *)
(* does.                                                                   *)
Default(run, x) ==
  LET by == {i \in DOMAIN run.workflow.steps :
               /\ IsDirective(run.workflow.steps[i])
               /\ x \in DOMAIN run.found[run.workflow.steps[i].include].variables}
  IN  CASE x \in DOMAIN run.workflow.variables -> {run.workflow.variables[x]}
        [] by # {} /\ x \notin DOMAIN run.workflow.variables ->
             LET last == CHOOSE i \in by : \A j \in by : j <= i
             IN  {run.found[run.workflow.steps[last].include].variables[x]}
        [] OTHER -> {}

(* What the token of x stands for: nothing when x has no value.            *)
Meant(run, x) ==
  LET given == IF Default(run, x) = {} THEN {}
               ELSE IF x \in DOMAIN run.overrides THEN {run.overrides[x]}
               ELSE IF x \in DOMAIN env THEN {env[x]}
               ELSE Default(run, x) \ {Empty}
  IN  {Secret(v) : v \in given \ (References \ DOMAIN Vault)}

\* A token becomes what its include says; what that leaves, or what it brings,
\* is replaced if it is a declared variable: by the request's override, else the
\* environment's value, else the default of the workflow, else the default of
\* the last fragment that declares it, a vault reference by its secret.  A run
\* begins exactly when all its declared variables have a value.
TokensMeanTheirValues ==
  \A r \in Runs :
    LET run == runs[r]
        Declared == {x \in Variables : Default(run, x) # {}}
    IN  /\ run.pc = "failed" => \E x \in Declared : Meant(run, x) = {}
        /\ Begun(run) =>
             /\ \A x \in Declared : Meant(run, x) # {}
             /\ \A p \in Places(run) :
                  LET text == Put(With(run, p[1]), Source(run, p[1])[p[2]].text)
                  IN  run.steps[At(run, p)].text \in
                        (IF text \in Declared THEN Meant(run, text) ELSE {text})

=============================================================================
