--------------------------- MODULE FragmentsProofs ---------------------------
(***************************************************************************)
(* Theorems about Fragments for every set of fragments, bodies, workflows, *)
(* environments and requests: the rows of the table, and the runs, from    *)
(* the fragments they include to the texts their steps execute.            *)
(***************************************************************************)
EXTENDS Fragments, FiniteSetTheorems, SequenceTheorems, WellFoundedInduction, TLAPS

-----------------------------------------------------------------------------
(* The table.                                                                *)

Writer == [pc : {"idle", "loaded", "stored", "deleted", "refused"},
           fragment : FragmentIds \cup {None}, body : Bodies \cup {None}, seen : RowFields \cup {None}]

TableInv ==
  /\ rows \in [FragmentIds -> RowFields \cup {None}]
  /\ writers \in [Writers -> Writer]
  /\ \A w \in Writers : writers[w].pc # "idle" => writers[w].fragment \in FragmentIds

\* The keys of a fragment's rows are those of the requests that created them,
\* which are answered: a row that was deleted never gets its key back.
Creator(w, f) == writers[w].pc = "stored" /\ writers[w].fragment = f /\ writers[w].seen = None
KeysInv ==
  \A f \in FragmentIds, k \in Writers :
    /\ rows[f] # None /\ rows[f].key = k => Creator(k, f)
    /\ \A w \in Writers :
         /\ writers[w].pc # "idle" /\ writers[w].fragment = f
         /\ writers[w].seen # None /\ writers[w].seen.key = k
         => Creator(k, f)

\* An upsert that has yet to be written does not hold a version that the
\* upserts of its row do not account for.
SeenInv ==
  \A f \in FragmentIds, w \in Writers :
    /\ writers[w].pc = "loaded" /\ writers[w].fragment = f /\ writers[w].seen # None
    /\ rows[f] # None /\ rows[f].key = writers[w].seen.key
    => writers[w].seen.version <= Count(f)

CountInv == TableInv /\ KeysInv /\ SeenInv /\ VersionCounts /\ NothingComesBack

\* What the last two say of one fragment.
RowInv(f) == rows[f] # None =>
  /\ ~rows[f].raced => /\ rows[f].version = Count(f)
                       /\ \E b \in Given(f) : b.steps = rows[f].steps /\ b.variables = rows[f].variables
  /\ \E b \in Given(f) : b.steps = rows[f].steps
  /\ \E b \in Given(f) : b.variables = rows[f].variables
  /\ rows[f].version <= Count(f)

\* What the bodies are.
LEMMA BodyColumns ==
  /\ \A b \in Bodies : b.steps \in {c.steps : c \in Bodies} /\ b.variables \in {c.variables : c \in Bodies}
  /\ \A f \in FragmentIds : Before[f] \in Bodies /\ Sent[f] \subseteq Bodies
  /\ None \notin Bodies
  BY RequestsAssumption DEF Bodies

\* A row as it is first stored is one.
LEMMA RowType ==
  ASSUME NEW k \in Writers \cup {None}, NEW b \in Bodies
  PROVE  /\ Row(k, b) \in RowFields /\ Row(k, b) # None
         /\ Row(k, b).key = k /\ Row(k, b).steps = b.steps /\ Row(k, b).variables = b.variables
         /\ Row(k, b).version = 1 /\ Row(k, b).raced = FALSE
<1> DEFINE S == {c.steps : c \in Bodies}
           V == {c.variables : c \in Bodies}
           R == [key : Writers \cup {None}, version : Nat, raced : BOOLEAN, steps : S, variables : V]
<1>1. b.steps \in S /\ b.variables \in V
  OBVIOUS
<1> HIDE DEF S, V
<1>2. Row(k, b) \in R
  BY <1>1 DEF Row
<1>3. R = RowFields
  BY Zenon DEF RowFields, S, V
<1> HIDE DEF R
<1> QED
  BY <1>2, <1>3, RequestsAssumption DEF Row

\* An upsert of a row leaves a row with its key.
LEMMA WrittenType ==
  ASSUME NEW row \in RowFields, NEW seen \in RowFields, NEW b \in Bodies
  PROVE  /\ Written(row, seen, b) \in RowFields /\ Written(row, seen, b) # None
         /\ Written(row, seen, b).key = row.key
         /\ Written(row, seen, b).version = seen.version + 1
         /\ Written(row, seen, b).raced <=> row.raced \/ row # seen
         /\ Written(row, seen, b).steps = IF b.steps = seen.steps THEN row.steps ELSE b.steps
         /\ Written(row, seen, b).variables
              = IF b.variables = seen.variables THEN row.variables ELSE b.variables
<1> DEFINE S == {c.steps : c \in Bodies}
           V == {c.variables : c \in Bodies}
           R == [key : Writers \cup {None}, version : Nat, raced : BOOLEAN, steps : S, variables : V]
           s == IF b.steps = seen.steps THEN row.steps ELSE b.steps
           v == IF b.variables = seen.variables THEN row.variables ELSE b.variables
           n == seen.version + 1
           c == row.raced \/ row # seen
           new == [row EXCEPT !.steps = s, !.variables = v, !.version = n, !.raced = c]
<1>1. b.steps \in S /\ b.variables \in V
  OBVIOUS
<1>2. R = RowFields
  BY Zenon DEF RowFields, S, V
<1>3. row \in R /\ seen \in R
  BY <1>2, Zenon
<1> HIDE DEF S, V
<1>4. s \in S /\ v \in V /\ n \in Nat /\ c \in BOOLEAN
  BY <1>1, <1>3
<1>5. Written(row, seen, b) = new
  BY DEF Written
<1> HIDE DEF s, v, n, c
<1>6. new \in R /\ new.key = row.key /\ new.version = n /\ new.raced = c /\ new.steps = s /\ new.variables = v
  BY <1>3, <1>4
<1> HIDE DEF R, new
<1> QED
  BY <1>2, <1>5, <1>6, RequestsAssumption DEF s, v, n, c

\* An answer changes how far a request is and nothing else.
LEMMA Answered ==
  ASSUME TableInv, NEW w \in Writers, writers[w].pc = "loaded",
         NEW a \in {"stored", "deleted", "refused"}, Answer(w, a)
  PROVE  /\ writers' \in [Writers -> Writer]
         /\ writers'[w].pc = a
         /\ \A v \in Writers : /\ writers'[v].fragment = writers[v].fragment
                               /\ writers'[v].body = writers[v].body
                               /\ writers'[v].seen = writers[v].seen
                               /\ v # w => writers'[v] = writers[v]
         /\ \A v \in Writers : writers'[v].pc # "idle" => writers'[v].fragment \in FragmentIds
<1>1. writers \in [Writers -> Writer] /\ \A v \in Writers : writers[v] \in Writer
  BY DEF TableInv
<1>2. [writers[w] EXCEPT !.pc = a] \in Writer
  BY <1>1 DEF Writer
<1>3. writers' \in [Writers -> Writer]
  BY <1>1, <1>2 DEF Answer
<1>4. writers'[w].pc = a
  BY <1>1 DEF Answer, Writer
<1>5. ASSUME NEW v \in Writers
      PROVE  /\ writers'[v].fragment = writers[v].fragment
             /\ writers'[v].body = writers[v].body
             /\ writers'[v].seen = writers[v].seen
             /\ v # w => writers'[v] = writers[v]
  BY <1>1 DEF Answer, Writer
<1> QED
  BY <1>3, <1>4, <1>5 DEF TableInv

\* A request that has not stored anything is not counted.
LEMMA Uncounted ==
  ASSUME NEW f \in FragmentIds, rows'[f] = rows[f], NEW w \in Writers,
         writers[w].pc # "stored" \/ writers[w].fragment # f,
         writers'[w].pc # "stored" \/ writers'[w].fragment # f,
         \A v \in Writers \ {w} : writers'[v] = writers[v]
  PROVE  Upserts(f)' = Upserts(f) /\ Given(f)' = Given(f) /\ Count(f)' = Count(f)
<1>1. Upserts(f)' = Upserts(f)
  BY DEF Upserts
<1>2. w \notin Upserts(f)
  BY DEF Upserts
<1>3. \A v \in Upserts(f) : writers'[v].body = writers[v].body
  BY <1>2 DEF Upserts
<1>4. Given(f)' = Given(f)
  BY <1>1, <1>3 DEF Given
<1> QED
  BY <1>1, <1>4 DEF Count

\* The two properties of the table say it of each fragment.
LEMMA RowByRow ==
  /\ VersionCounts /\ NothingComesBack <=> \A f \in FragmentIds : RowInv(f)
  /\ VersionCounts' /\ NothingComesBack' <=> \A f \in FragmentIds : RowInv(f)'
  BY DEF VersionCounts, NothingComesBack, RowInv

\* Counts are numbers.
LEMMA CountType ==
  ASSUME NEW f \in FragmentIds
  PROVE  IsFiniteSet(Upserts(f)) /\ Cardinality(Upserts(f)) \in Nat /\ Count(f) \in Nat
<1>1. Upserts(f) \in SUBSET Writers
  BY DEF Upserts
<1>2. IsFiniteSet(Upserts(f)) /\ Cardinality(Upserts(f)) \in Nat
  BY <1>1, RequestsAssumption, FS_Subset, FS_CardinalityType
<1> QED
  BY <1>2 DEF Count

\* A row that nobody upserts is still the upserts it was.
LEMMA RowKept ==
  ASSUME NEW f \in FragmentIds, RowInv(f), rows'[f] = rows[f],
         Given(f)' = Given(f), Count(f)' = Count(f)
  PROVE  RowInv(f)'
  BY DEF RowInv

\* A request that is loaded or answered without storing anything.
LEMMA LoadKeeps ==
  ASSUME CountInv, NEW w \in Writers, NEW f \in FragmentIds, NEW b \in Sent[f] \cup {None}, Load(w, f, b)
  PROVE  CountInv'
<1> DEFINE p == IF b = None /\ rows[f] = None THEN "refused" ELSE "loaded"
           r == [pc |-> p, fragment |-> f, body |-> b, seen |-> rows[f]]
<1>1. /\ writers[w].pc = "idle" /\ UNCHANGED rows
      /\ writers' = [writers EXCEPT ![w] = r] /\ p \in {"refused", "loaded"}
  BY DEF Load
<1>2. r \in Writer /\ r.pc = p /\ r.fragment = f /\ r.seen = rows[f]
  BY BodyColumns DEF Writer, CountInv, TableInv
<1> HIDE DEF p, r
<1>3. /\ writers' \in [Writers -> Writer] /\ writers'[w] = r
      /\ \A v \in Writers \ {w} : writers'[v] = writers[v]
  BY <1>1, <1>2 DEF CountInv, TableInv
<1>4. TableInv'
  BY <1>1, <1>2, <1>3 DEF CountInv, TableInv
<1>5. \A g \in FragmentIds : Given(g)' = Given(g) /\ Count(g)' = Count(g)
  BY <1>1, <1>2, <1>3, Uncounted
<1>6. \A k \in Writers, g \in FragmentIds : Creator(k, g) => Creator(k, g)'
  BY <1>1, <1>3 DEF Creator
<1>7. KeysInv'
  <2> SUFFICES ASSUME NEW g \in FragmentIds, NEW k \in Writers, NEW v \in Writers,
                      \/ rows'[g] # None /\ rows'[g].key = k
                      \/ /\ writers'[v].pc # "idle" /\ writers'[v].fragment = g
                         /\ writers'[v].seen # None /\ writers'[v].seen.key = k
               PROVE  Creator(k, g)
    BY <1>6 DEF KeysInv
  <2> QED
    BY <1>1, <1>2, <1>3 DEF CountInv, KeysInv
<1>8. \A g \in FragmentIds : RowInv(g)'
  BY <1>1, <1>5, RowKept, RowByRow DEF CountInv
<1>9. SeenInv'
  <2> SUFFICES ASSUME NEW g \in FragmentIds, NEW v \in Writers,
                      writers'[v].pc = "loaded", writers'[v].fragment = g, writers'[v].seen # None,
                      rows'[g] # None, rows'[g].key = writers'[v].seen.key
               PROVE  writers'[v].seen.version <= Count(g)'
    BY DEF SeenInv
  <2>1. CASE v = w
    BY <1>1, <1>2, <1>3, <1>5, <2>1, RowByRow DEF CountInv, RowInv
  <2>2. CASE v # w
    BY <1>1, <1>3, <1>5, <2>2 DEF CountInv, SeenInv
  <2> QED
    BY <2>1, <2>2
<1> QED
  BY <1>4, <1>7, <1>8, <1>9, RowByRow DEF CountInv

\* A request that is answered without storing anything, a row or none deleted.
LEMMA AnswerKeeps ==
  ASSUME CountInv, NEW w \in Writers, writers[w].pc = "loaded",
         NEW a \in {"deleted", "refused"}, Answer(w, a),
         rows' \in [FragmentIds -> RowFields \cup {None}],
         \A g \in FragmentIds : rows'[g] = rows[g] \/ rows'[g] = None
  PROVE  CountInv'
<1>0. TableInv
  BY DEF CountInv
<1>1. /\ writers' \in [Writers -> Writer] /\ writers'[w].pc = a
      /\ \A v \in Writers : /\ writers'[v].fragment = writers[v].fragment
                            /\ writers'[v].seen = writers[v].seen
                            /\ v # w => writers'[v] = writers[v]
      /\ TableInv'
  BY <1>0, Answered DEF TableInv
<1>2. \A g \in FragmentIds : rows'[g] # None => Given(g)' = Given(g) /\ Count(g)' = Count(g)
  BY <1>1, Uncounted
<1>3. \A k \in Writers, g \in FragmentIds : Creator(k, g) => Creator(k, g)'
  BY <1>1 DEF Creator
<1>4. KeysInv'
  <2> SUFFICES ASSUME NEW g \in FragmentIds, NEW k \in Writers, NEW v \in Writers,
                      \/ rows'[g] # None /\ rows'[g].key = k
                      \/ /\ writers'[v].pc # "idle" /\ writers'[v].fragment = g
                         /\ writers'[v].seen # None /\ writers'[v].seen.key = k
               PROVE  Creator(k, g)
    BY <1>3 DEF KeysInv
  <2> QED
    BY <1>1 DEF CountInv, KeysInv
<1>5. \A g \in FragmentIds : RowInv(g)'
  <2> SUFFICES ASSUME NEW g \in FragmentIds PROVE RowInv(g)'
    OBVIOUS
  <2>1. CASE rows'[g] = None
    BY <2>1 DEF RowInv
  <2>2. CASE rows'[g] # None
    BY <1>2, <2>2, RowKept, RowByRow DEF CountInv
  <2> QED
    BY <2>1, <2>2
<1>6. SeenInv'
  <2> SUFFICES ASSUME NEW g \in FragmentIds, NEW v \in Writers,
                      writers'[v].pc = "loaded", writers'[v].fragment = g, writers'[v].seen # None,
                      rows'[g] # None, rows'[g].key = writers'[v].seen.key
               PROVE  writers'[v].seen.version <= Count(g)'
    BY DEF SeenInv
  <2> QED
    BY <1>1, <1>2 DEF CountInv, SeenInv
<1> QED
  BY <1>1, <1>4, <1>5, <1>6, RowByRow DEF CountInv

\* A fragment is created: a row with a key of its own, that one upsert gave.
LEMMA CreateKeeps ==
  ASSUME CountInv, NEW w \in Writers, Create(w)
  PROVE  CountInv'
<1>0. TableInv
  BY DEF CountInv
<1> DEFINE f == writers[w].fragment
           b == writers[w].body
<1>1. CASE rows[f] # None
  BY <1>0, <1>1, AnswerKeeps DEF Create, TableInv
<1>2. CASE rows[f] = None
  <2>1. PICK g \in FragmentIds : g = f
    BY <1>0 DEF Create, TableInv
  <2>2. PICK c \in Bodies : c = b
    BY <1>0 DEF Create, TableInv, Writer
  <2>3. /\ writers[w].pc = "loaded" /\ writers[w].seen = None /\ writers[w].fragment = g
        /\ writers[w].body = c /\ rows[g] = None
        /\ rows' = [rows EXCEPT ![g] = Row(w, c)] /\ Answer(w, "stored")
    BY <1>2, <2>1, <2>2 DEF Create
  <2> HIDE DEF f, b
  <2>4. /\ writers' \in [Writers -> Writer] /\ writers'[w].pc = "stored"
        /\ \A v \in Writers : /\ writers'[v].fragment = writers[v].fragment
                              /\ writers'[v].body = writers[v].body
                              /\ writers'[v].seen = writers[v].seen
                              /\ v # w => writers'[v] = writers[v]
        /\ \A v \in Writers : writers'[v].pc # "idle" => writers'[v].fragment \in FragmentIds
    BY <1>0, <2>3, Answered
  <2>5. /\ Row(w, c) \in RowFields /\ Row(w, c) # None
        /\ Row(w, c).key = w /\ Row(w, c).steps = c.steps /\ Row(w, c).variables = c.variables
        /\ Row(w, c).version = 1
    <3>1. w \in Writers \cup {None}
      OBVIOUS
    <3> QED
      BY <3>1, RowType, Zenon
  <2>6. /\ rows' \in [FragmentIds -> RowFields \cup {None}]
        /\ rows'[g] = Row(w, c) /\ \A h \in FragmentIds \ {g} : rows'[h] = rows[h]
    BY <1>0, <2>3, <2>5 DEF TableInv
  <2>7. \A h \in FragmentIds \ {g} : Given(h)' = Given(h) /\ Count(h)' = Count(h)
    BY <2>3, <2>4, <2>6, Uncounted
  <2>8. \A h \in FragmentIds : ~Creator(w, h)
    BY <2>3 DEF Creator
  <2>9. Upserts(g)' = {w}
    <3>1. ASSUME NEW v \in Writers, v # w PROVE v \notin Upserts(g)'
      <4> SUFFICES ASSUME writers[v].pc = "stored", writers[v].fragment = g
                   PROVE  IF writers[v].seen = None THEN w # v ELSE w # writers[v].seen.key
        BY <2>4, <2>5, <2>6, <3>1 DEF Upserts
      <4> QED
        BY <2>8, <3>1 DEF CountInv, KeysInv
    <3>2. w \in Upserts(g)'
      BY <2>3, <2>4, <2>5, <2>6 DEF Upserts
    <3> QED
      BY <3>1, <3>2 DEF Upserts
  <2>10. Given(g)' = {c} /\ Count(g)' = 1
    <3>1. w # None /\ Cardinality({w}) = 1
      BY RequestsAssumption, FS_Singleton
    <3> QED
      BY <2>3, <2>4, <2>5, <2>6, <2>9, <3>1 DEF Given, Count
  <2>11. \A h \in FragmentIds : RowInv(h)'
    <3>1. RowInv(g)'
      BY <2>5, <2>6, <2>10 DEF RowInv
    <3>2. \A h \in FragmentIds \ {g} : RowInv(h)'
      BY <2>6, <2>7, RowKept, RowByRow DEF CountInv
    <3> QED
      BY <3>1, <3>2
  <2>12. \A k \in Writers, h \in FragmentIds : Creator(k, h) => Creator(k, h)'
    BY <2>3, <2>4 DEF Creator
  <2>13. Creator(w, g)'
    BY <2>3, <2>4 DEF Creator
  <2>14. KeysInv'
    <3> SUFFICES ASSUME NEW h \in FragmentIds, NEW k \in Writers, NEW v \in Writers,
                        \/ rows'[h] # None /\ rows'[h].key = k
                        \/ /\ writers'[v].pc # "idle" /\ writers'[v].fragment = h
                           /\ writers'[v].seen # None /\ writers'[v].seen.key = k
                 PROVE  Creator(k, h)'
      BY DEF KeysInv
    <3>1. CASE h = g /\ rows'[h] # None /\ rows'[h].key = k
      BY <2>5, <2>6, <2>13, <3>1
    <3>2. CASE h # g /\ rows'[h] # None /\ rows'[h].key = k
      BY <2>6, <2>12, <3>2 DEF CountInv, KeysInv
    <3>3. CASE /\ writers'[v].pc # "idle" /\ writers'[v].fragment = h
               /\ writers'[v].seen # None /\ writers'[v].seen.key = k
      BY <2>3, <2>4, <2>12, <3>3 DEF CountInv, KeysInv
    <3> QED
      BY <3>1, <3>2, <3>3
  <2>15. SeenInv'
    <3> SUFFICES ASSUME NEW h \in FragmentIds, NEW v \in Writers,
                        writers'[v].pc = "loaded", writers'[v].fragment = h, writers'[v].seen # None,
                        rows'[h] # None, rows'[h].key = writers'[v].seen.key
                 PROVE  writers'[v].seen.version <= Count(h)'
      BY DEF SeenInv
    <3>1. v # w /\ writers'[v] = writers[v]
      BY <2>4
    <3>2. h # g
      BY <2>4, <2>5, <2>6, <2>8, <3>1 DEF CountInv, KeysInv
    <3> QED
      BY <2>6, <2>7, <3>1, <3>2 DEF CountInv, SeenInv
  <2> QED
    BY <2>4, <2>6, <2>11, <2>14, <2>15, RowByRow DEF CountInv, TableInv
<1> QED
  BY <1>1, <1>2

\* A row is upserted: its key stays, and one more request gave it.
LEMMA UpdateKeeps ==
  ASSUME CountInv, NEW w \in Writers, Update(w)
  PROVE  CountInv'
<1>0. TableInv
  BY DEF CountInv
<1> DEFINE f == writers[w].fragment
           b == writers[w].body
           seen == writers[w].seen
<1>1. CASE ~SameRow(rows[f], seen)
  BY <1>0, <1>1, AnswerKeeps DEF Update, TableInv
<1>2. CASE SameRow(rows[f], seen)
  <2>1. PICK g \in FragmentIds : g = f
    BY <1>0 DEF Update, TableInv
  <2>2. PICK c \in Bodies : c = b
    BY <1>0 DEF Update, TableInv, Writer
  <2>3. PICK old \in RowFields : old = seen
    BY <1>0 DEF Update, TableInv, Writer
  <2>4. PICK row \in RowFields : row = rows[g]
    BY <1>0, <1>2, <2>1 DEF TableInv, SameRow
  <2> DEFINE new == Written(row, old, c)
  <2>5. /\ writers[w].pc = "loaded" /\ writers[w].seen = old /\ writers[w].fragment = g
        /\ writers[w].body = c /\ rows[g] = row /\ row # None /\ old # None /\ row.key = old.key
        /\ Answer(w, "stored")
        /\ rows' = [rows EXCEPT ![g] = new]
    BY <1>2, <2>1, <2>2, <2>3, <2>4 DEF Update, SameRow
  <2>6. /\ new \in RowFields /\ new # None /\ new.key = row.key
        /\ new.version = old.version + 1
        /\ new.raced <=> row.raced \/ row # old
        /\ new.steps = IF c.steps = old.steps THEN row.steps ELSE c.steps
        /\ new.variables = IF c.variables = old.variables THEN row.variables ELSE c.variables
    <3>1. Written(row, old, c) \in RowFields /\ Written(row, old, c) # None
          /\ Written(row, old, c).key = row.key
          /\ Written(row, old, c).version = old.version + 1
      BY WrittenType
    <3>2. Written(row, old, c).raced <=> row.raced \/ row # old
      BY WrittenType
    <3>3. /\ Written(row, old, c).steps = IF c.steps = old.steps THEN row.steps ELSE c.steps
          /\ Written(row, old, c).variables = IF c.variables = old.variables THEN row.variables ELSE c.variables
      BY WrittenType
    <3> HIDE DEF new
    <3> QED
      BY <3>1, <3>2, <3>3 DEF new
  <2> HIDE DEF f, b, seen, new
  <2>7. /\ writers' \in [Writers -> Writer] /\ writers'[w].pc = "stored"
        /\ \A v \in Writers : /\ writers'[v].fragment = writers[v].fragment
                              /\ writers'[v].body = writers[v].body
                              /\ writers'[v].seen = writers[v].seen
                              /\ v # w => writers'[v] = writers[v]
        /\ \A v \in Writers : writers'[v].pc # "idle" => writers'[v].fragment \in FragmentIds
    BY <1>0, <2>5, Answered
  <2>8. /\ rows' \in [FragmentIds -> RowFields \cup {None}]
        /\ rows'[g] = new /\ \A h \in FragmentIds \ {g} : rows'[h] = rows[h]
    BY <1>0, <2>5, <2>6 DEF TableInv
  <2>9. \A h \in FragmentIds \ {g} : Given(h)' = Given(h) /\ Count(h)' = Count(h)
    BY <2>5, <2>7, <2>8, Uncounted
  <2>10. Upserts(g)' = Upserts(g) \cup {w} /\ w \notin Upserts(g)
    <3>1. rows'[g].key = rows[g].key
      BY <2>5, <2>6, <2>8
    <3>2. w \in Upserts(g)' /\ w \notin Upserts(g)
      BY <2>5, <2>7, <3>1 DEF Upserts
    <3>3. \A v \in Writers \ {w} : v \in Upserts(g)' <=> v \in Upserts(g)
      BY <2>7, <3>1 DEF Upserts
    <3>4. Upserts(g)' \subseteq Writers /\ Upserts(g) \subseteq Writers
      BY DEF Upserts
    <3> QED
      BY <3>2, <3>3, <3>4
  <2>11. Given(g)' = Given(g) \cup {c}
    <3> DEFINE bodies == {writers[v].body : v \in Upserts(g)}
    <3>1. {writers'[v].body : v \in Upserts(g)'} = {writers[v].body : v \in Upserts(g)'}
      <4>1. \A v \in Upserts(g)' : writers'[v].body = writers[v].body
        BY <2>7 DEF Upserts
      <4> QED
        BY <4>1
    <3>2. {writers[v].body : v \in Upserts(g)'} = bodies \cup {c}
      BY <2>5, <2>10
    <3>3. rows'[g].key = rows[g].key
      BY <2>5, <2>6, <2>8
    <3>4. Given(g)' = bodies \cup {c} \cup IF rows[g].key = None THEN {Before[g]} ELSE {}
      BY <3>1, <3>2, <3>3 DEF Given
    <3>5. Given(g) = bodies \cup IF rows[g].key = None THEN {Before[g]} ELSE {}
      BY DEF Given
    <3> HIDE DEF bodies
    <3> QED
      BY <3>4, <3>5
  <2>12. Count(g)' = Count(g) + 1 /\ Count(g) \in Nat
    <3> DEFINE U == Upserts(g)
               UU == Upserts(g)'
    <3>1. IsFiniteSet(U) /\ Cardinality(U) \in Nat /\ Count(g) \in Nat
      BY CountType
    <3>2. UU = U \cup {w} /\ w \notin U
      BY <2>10
    <3> HIDE DEF U, UU
    <3>3. Cardinality(UU) = Cardinality(U) + 1
      BY <3>1, <3>2, FS_AddElement
    <3> QED
      BY <2>5, <2>6, <2>8, <3>1, <3>3 DEF Count, U, UU
  <2>13. old.version <= Count(g) /\ old.version \in Nat
    BY <2>5 DEF CountInv, SeenInv, RowFields
  <2>14. \A h \in FragmentIds : RowInv(h)'
    <3>1. RowInv(g)'
      <4>1. RowInv(g)
        BY RowByRow DEF CountInv
      <4>2. ~new.raced => new.version = Count(g)' /\ new.steps = c.steps /\ new.variables = c.variables
        BY <2>5, <2>6, <2>12, <4>1 DEF RowInv
      <4>3. /\ \E d \in Given(g)' : d.steps = new.steps
            /\ \E d \in Given(g)' : d.variables = new.variables
        BY <2>5, <2>6, <2>11, <4>1 DEF RowInv
      <4>4. new.version <= Count(g)'
        BY <2>6, <2>12, <2>13
      <4>5. c \in Given(g)'
        BY <2>11
      <4> QED
        BY <2>8, <4>2, <4>3, <4>4, <4>5 DEF RowInv
    <3>2. \A h \in FragmentIds \ {g} : RowInv(h)'
      BY <2>8, <2>9, RowKept, RowByRow DEF CountInv
    <3> QED
      BY <3>1, <3>2
  <2>15. \A k \in Writers, h \in FragmentIds : Creator(k, h) => Creator(k, h)'
    BY <2>5, <2>7 DEF Creator
  <2>16. KeysInv'
    <3> SUFFICES ASSUME NEW h \in FragmentIds, NEW k \in Writers, NEW v \in Writers,
                        \/ rows'[h] # None /\ rows'[h].key = k
                        \/ /\ writers'[v].pc # "idle" /\ writers'[v].fragment = h
                           /\ writers'[v].seen # None /\ writers'[v].seen.key = k
                 PROVE  Creator(k, h)
      BY <2>15 DEF KeysInv
    <3>1. rows'[h] # None => rows[h] # None /\ rows'[h].key = rows[h].key
      BY <2>5, <2>6, <2>8
    <3>2. writers'[v].pc # "idle" => writers[v].pc # "idle"
      BY <2>5, <2>7
    <3> QED
      BY <2>7, <3>1, <3>2 DEF CountInv, KeysInv
  <2>17. SeenInv'
    <3> SUFFICES ASSUME NEW h \in FragmentIds, NEW v \in Writers,
                        writers'[v].pc = "loaded", writers'[v].fragment = h, writers'[v].seen # None,
                        rows'[h] # None, rows'[h].key = writers'[v].seen.key
                 PROVE  writers'[v].seen.version <= Count(h)'
      BY DEF SeenInv
    <3>1. v # w /\ writers'[v] = writers[v] /\ writers[v].seen.version \in Nat
      BY <1>0, <2>7 DEF TableInv, Writer, RowFields
    <3>2. rows[h] # None /\ rows'[h].key = rows[h].key
      BY <2>5, <2>6, <2>8
    <3>3. writers[v].seen.version <= Count(h)
      BY <3>1, <3>2 DEF CountInv, SeenInv
    <3>4. CASE h = g
      BY <2>12, <3>1, <3>3, <3>4
    <3>5. CASE h # g
      BY <2>9, <3>1, <3>3, <3>5
    <3> QED
      BY <3>4, <3>5
  <2> QED
    BY <2>7, <2>8, <2>14, <2>16, <2>17, RowByRow DEF CountInv, TableInv
<1> QED
  BY <1>1, <1>2

\* A deletion leaves no row, or leaves the table alone.
LEMMA DeleteKeeps ==
  ASSUME CountInv, NEW w \in Writers, Delete(w)
  PROVE  CountInv'
<1>1. TableInv
  BY DEF CountInv
<1> QED
  BY <1>1, AnswerKeeps DEF Delete, TableInv

\* The rows that were there before count as one upsert each.
LEMMA CountInit == Init => CountInv
<1> SUFFICES ASSUME Init PROVE CountInv
  OBVIOUS
<1>0. None \in Writers \cup {None}
  OBVIOUS
<1>1. \A f \in FragmentIds :
        /\ Row(None, Before[f]) \in RowFields /\ rows[f] = Row(None, Before[f]) /\ rows[f] # None
        /\ rows[f].key = None /\ rows[f].version = 1
        /\ rows[f].steps = Before[f].steps /\ rows[f].variables = Before[f].variables
  <2> SUFFICES ASSUME NEW f \in FragmentIds
               PROVE  /\ Row(None, Before[f]) \in RowFields /\ rows[f] = Row(None, Before[f]) /\ rows[f] # None
                      /\ rows[f].key = None /\ rows[f].version = 1
                      /\ rows[f].steps = Before[f].steps /\ rows[f].variables = Before[f].variables
    OBVIOUS
  <2>1. PICK b \in Bodies : b = Before[f]
    BY BodyColumns
  <2>2. rows[f] = Row(None, b)
    BY <2>1 DEF Init
  <2>3. /\ Row(None, b) \in RowFields /\ Row(None, b) # None
        /\ Row(None, b).key = None /\ Row(None, b).steps = b.steps
        /\ Row(None, b).variables = b.variables /\ Row(None, b).version = 1
    BY <1>0, RowType
  <2> QED
    BY <2>1, <2>2, <2>3
<1>2. NotSent \in Writer /\ NotSent.pc = "idle"
  BY DEF NotSent, Writer
<1>3. TableInv
  BY <1>1, <1>2 DEF Init, TableInv
<1>4. \A w \in Writers : writers[w].pc = "idle"
  BY <1>2 DEF Init
<1>5. KeysInv /\ SeenInv
  BY <1>1, <1>4, RequestsAssumption DEF KeysInv, SeenInv
<1>6. \A f \in FragmentIds : RowInv(f)
  <2> SUFFICES ASSUME NEW f \in FragmentIds PROVE RowInv(f)
    OBVIOUS
  <2>1. Upserts(f) = {}
    BY <1>4 DEF Upserts
  <2>2. Given(f) = {Before[f]} /\ Count(f) = 1
    BY <1>1, <2>1, FS_EmptySet DEF Given, Count
  <2> QED
    BY <1>1, <2>2 DEF RowInv
<1> QED
  BY <1>3, <1>5, <1>6, RowByRow DEF CountInv

\* The runs only read the table.
LEMMA CountNext == CountInv /\ [Next]_vars => CountInv'
<1> SUFFICES ASSUME CountInv, [Next]_vars PROVE CountInv'
  OBVIOUS
<1>1. ASSUME UNCHANGED <<rows, writers>> PROVE CountInv'
  <2>1. \A f \in FragmentIds : Given(f)' = Given(f) /\ Count(f)' = Count(f)
    BY <1>1 DEF Given, Count, Upserts
  <2>2. TableInv' /\ KeysInv'
    BY <1>1 DEF CountInv, TableInv, KeysInv, Creator
  <2>3. SeenInv'
    BY <1>1, <2>1 DEF CountInv, SeenInv
  <2>4. \A f \in FragmentIds : RowInv(f)'
    BY <1>1, <2>1, RowKept, RowByRow DEF CountInv
  <2> QED
    BY <2>2, <2>3, <2>4, RowByRow DEF CountInv
<1>2. ASSUME NEW w \in Writers, NEW f \in FragmentIds, NEW b \in Sent[f] \cup {None}, Load(w, f, b)
      PROVE  CountInv'
  BY <1>2, LoadKeeps
<1>3. ASSUME NEW w \in Writers, Create(w) \/ Update(w) \/ Delete(w) PROVE CountInv'
  BY <1>3, CreateKeeps, UpdateKeeps, DeleteKeeps
<1>4. ASSUME NEW r \in Runs,
             \/ \E wf \in Workflows, o \in Overrides : Request(r, wf, o)
             \/ \E wf \in Workflows : Fire(r, wf)
             \/ Expand(r) \/ Resolve(r)
      PROVE  CountInv'
  BY <1>1, <1>4 DEF Request, Fire, Expand, Resolve, Becomes
<1>5. CASE UNCHANGED vars
  BY <1>1, <1>5 DEF vars
<1> QED
  BY <1>2, <1>3, <1>4, <1>5 DEF Next

\* Unless two upserts overlapped, a fragment is what one request sent and its
\* version counts the upserts since it was created (upsert_fragment).
THEOREM VersionsCount == Spec => []VersionCounts
<1>1. CountInv => VersionCounts
  BY DEF CountInv
<1> QED
  BY CountInit, CountNext, <1>1, PTL DEF Spec

\* However upserts and deletions interleave, each column of a fragment was sent
\* by an upsert of this row, and the version never exceeds their number
\* (upsert_fragment, delete_fragment).
THEOREM DeletedStaysDeleted == Spec => []NothingComesBack
<1>1. CountInv => NothingComesBack
  BY DEF CountInv
<1> QED
  BY CountInit, CountNext, <1>1, PTL DEF Spec

-----------------------------------------------------------------------------
(* Induction over the numbers up to n, by a first counterexample: the fact   *)
(* that is proved is a set of numbers, so that the lemmas are first-order.   *)

\* What fails for some number fails for a first.
LEMMA LeastNat ==
  ASSUME NEW T \in SUBSET Nat, T # {}
  PROVE  \E n \in T : \A m \in T : n <= m
<1> DEFINE R == OpToRel(<, Nat)
<1>1. IsWellFoundedOn(R, Nat)
  BY NatLessThanWellFounded
<1>2. \A x, y \in Nat : y < x => <<y, x>> \in R
  BY DEF OpToRel
<1> HIDE DEF R
<1>3. PICK x \in T : \A y \in T : ~ (<<y, x>> \in R)
  BY <1>1, WFMin
<1>4. ASSUME NEW y \in T PROVE x <= y
  <2>1. x \in Nat /\ y \in Nat
    OBVIOUS
  <2>2. ~(y < x)
    BY <1>2, <1>3, <2>1, Zenon
  <2> QED
    BY <2>1, <2>2
<1> QED
  BY <1>4

\* Induction up to n, with the set of the numbers for which something holds.
LEMMA Induct ==
  ASSUME NEW n \in Nat, NEW T, 0 \in T, \A i \in 0 .. n : i < n /\ i \in T => i + 1 \in T
  PROVE  \A i \in 0 .. n : i \in T
<1> DEFINE U == {i \in Nat : i <= n /\ i \notin T}
<1> SUFFICES ASSUME U # {} PROVE FALSE
  OBVIOUS
<1>1. PICK m \in U : \A k \in U : m <= k
  <2> HIDE DEF U
  <2>1. U \in SUBSET Nat
    BY DEF U
  <2> QED
    BY <2>1, LeastNat
<1>2. m \in Nat /\ m <= n /\ m \notin T /\ m # 0
  OBVIOUS
<1>3. m - 1 \in 0 .. n /\ m - 1 < n /\ m - 1 \in Nat /\ m - 1 \notin U
  <2>1. m - 1 \in 0 .. n /\ m - 1 < n /\ m - 1 \in Nat
    BY <1>2
  <2>2. m - 1 \in U => m <= m - 1
    <3> HIDE DEF U
    <3> QED
      BY <1>1
  <2> QED
    BY <1>2, <2>1, <2>2
<1>4. m - 1 \in T
  BY <1>3
<1>5. m - 1 + 1 = m
  BY <1>2
<1> QED
  BY <1>2, <1>3, <1>4, <1>5

\* What each step makes of what the steps before it have made.
Folds(G, V, v, n, F) ==
  /\ G \in [0 .. n -> V]
  /\ G[0] = v
  /\ \A i \in 1 .. n : G[i] = F[i][G[i - 1]]

\* There is such a sequence of results.
LEMMA Folded ==
  ASSUME NEW V, NEW v \in V, NEW n \in Nat, NEW F \in [1 .. n -> [V -> V]]
  PROVE  \E G : Folds(G, V, v, n, F)
<1> DEFINE T == {m \in 0 .. n : \E G : Folds(G, V, v, m, F)}
<1>1. 0 \in T
  <2> DEFINE G == [i \in 0 .. 0 |-> v]
  <2>1. Folds(G, V, v, 0, F)
    BY DEF Folds
  <2> QED
    BY <2>1
<1>2. ASSUME NEW m \in 0 .. n, m < n, m \in T PROVE m + 1 \in T
  <2>1. PICK G : Folds(G, V, v, m, F)
    BY <1>2
  <2>2. /\ G \in [0 .. m -> V] /\ G[0] = v
        /\ \A i \in 1 .. m : G[i] = F[i][G[i - 1]]
    BY <2>1 DEF Folds
  <2>3. m \in Nat /\ m + 1 \in 1 .. n /\ m \in 0 .. m /\ m + 1 \in 0 .. n
    BY <1>2
  <2> DEFINE x == F[m + 1][G[m]]
             H == [i \in 0 .. m + 1 |-> IF i = m + 1 THEN x ELSE G[i]]
  <2>4. x \in V
    <3>1. F[m + 1] \in [V -> V] /\ G[m] \in V
      BY <2>2, <2>3
    <3> QED
      BY <3>1
  <2>5. /\ H \in [0 .. m + 1 -> V] /\ H[0] = v
        /\ \A i \in 0 .. m : H[i] = G[i]
        /\ H[m + 1] = x
    <3> HIDE DEF x
    <3> QED
      BY <2>2, <2>3, <2>4
  <2> HIDE DEF H
  <2>6. ASSUME NEW i \in 1 .. m + 1 PROVE H[i] = F[i][H[i - 1]]
    <3>1. CASE i = m + 1
      BY <2>3, <2>5, <3>1
    <3>2. CASE i # m + 1
      <4>1. i \in 1 .. m /\ i \in 0 .. m /\ i - 1 \in 0 .. m
        BY <2>3, <3>2
      <4> QED
        BY <2>2, <2>5, <4>1
    <3> QED
      BY <3>1, <3>2
  <2>7. Folds(H, V, v, m + 1, F)
    BY <2>5, <2>6 DEF Folds
  <2> QED
    BY <2>3, <2>7
<1>3. n \in T
  <2> HIDE DEF T
  <2>1. \A i \in 0 .. n : i \in T
    BY <1>1, <1>2, Induct
  <2> QED
    BY <2>1
<1> QED
  BY <1>3

\* What FlattenSeq returns has been joined one sequence at a time.
LEMMA Joined ==
  ASSUME NEW S, NEW ss \in Seq(Seq(S))
  PROVE  \E G : /\ G \in [0 .. Len(ss) -> Seq(S)] /\ G[0] = << >>
                /\ \A i \in 1 .. Len(ss) : G[i] = G[i - 1] \o ss[i]
                /\ FlattenSeq(ss) = G[Len(ss)]
<1> DEFINE n == Len(ss)
           F == [i \in 1 .. n |-> [v \in Seq(S) |-> v \o ss[i]]]
<1>0. n \in Nat /\ << >> \in Seq(S) /\ \A i \in 1 .. n : ss[i] \in Seq(S)
  OBVIOUS
<1>1. F \in [1 .. n -> [Seq(S) -> Seq(S)]]
  <2> SUFFICES ASSUME NEW i \in 1 .. n PROVE [v \in Seq(S) |-> v \o ss[i]] \in [Seq(S) -> Seq(S)]
    OBVIOUS
  <2>1. \A v \in Seq(S) : v \o ss[i] \in Seq(S)
    BY <1>0, ConcatProperties
  <2> QED
    BY <2>1
<1>2. PICK G : Folds(G, Seq(S), << >>, n, F)
  <2> HIDE DEF F, n
  <2> QED
    BY <1>0, <1>1, Folded
<1>3. /\ G \in [0 .. n -> Seq(S)] /\ G[0] = << >>
      /\ \A i \in 1 .. n : G[i] = F[i][G[i - 1]]
  BY <1>2 DEF Folds
<1>4. ASSUME NEW i \in 1 .. n PROVE G[i] = G[i - 1] \o ss[i] /\ G[i - 1] \in Seq(S)
  <2>1. i - 1 \in 0 .. n
    BY <1>0
  <2>2. G[i - 1] \in Seq(S)
    BY <1>3, <2>1
  <2> QED
    BY <1>3, <2>2
<1>5. CASE n = 0
  <2>1. ss = << >> /\ FlattenSeq(ss) = ss
    BY <1>5 DEF FlattenSeq
  <2> QED
    BY <1>3, <1>4, <1>5, <2>1
<1>6. CASE n # 0
  <2> HIDE DEF F, n
  <2> DEFINE Def(f) == [i \in 1 .. n |-> IF i = 1 THEN ss[i] ELSE f[i - 1] \o ss[i]]
             H == [i \in 1 .. n |-> G[i]]
             f == CHOOSE f : f = Def(f)
  <2>1. ASSUME NEW i \in 1 .. n PROVE G[i] = IF i = 1 THEN ss[i] ELSE H[i - 1] \o ss[i]
    <3>1. CASE i = 1
      <4>1. ss[1] \in Seq(S) /\ 1 \in 1 .. n /\ 1 - 1 = 0
        BY <1>0, <3>1
      <4>2. G[1] = << >> \o ss[1]
        BY <1>3, <1>4, <4>1
      <4>3. G[1] = ss[1]
        BY <4>1, <4>2, ConcatEmptySeq
      <4> QED
        BY <3>1, <4>3
    <3>2. CASE i # 1
      <4>1. i - 1 \in 1 .. n /\ H[i - 1] = G[i - 1]
        BY <1>0, <3>2
      <4> QED
        BY <1>4, <3>2, <4>1
    <3> QED
      BY <3>1, <3>2
  <2>2. H = Def(H)
    <3> HIDE DEF H
    <3>1. \A i \in 1 .. n : H[i] = G[i]
      BY DEF H
    <3>2. H = [i \in 1 .. n |-> H[i]]
      BY DEF H
    <3> QED
      BY <2>1, <3>1, <3>2
  <2>3. f = Def(f)
    <3> HIDE DEF H, Def
    <3> QED
      BY <2>2
  <2>4. FlattenSeq(ss) = f[n]
    BY <1>6 DEF FlattenSeq, n
  <2> HIDE DEF f
  <2>5. \A i \in 1 .. n : f[i] = IF i = 1 THEN ss[i] ELSE f[i - 1] \o ss[i]
    BY <2>3
  <2> DEFINE T == {i \in 0 .. n : i # 0 => f[i] = G[i]}
  <2>6. 0 \in T
    BY <1>0
  <2>7. ASSUME NEW i \in 0 .. n, i < n, i \in T PROVE i + 1 \in T
    <3>1. i + 1 \in 1 .. n /\ i + 1 \in 0 .. n /\ i \in Nat /\ i + 1 - 1 = i
      BY <1>0, <2>7
    <3>2. f[i + 1] = IF i + 1 = 1 THEN ss[i + 1] ELSE f[i] \o ss[i + 1]
      BY <2>5, <3>1
    <3>3. G[i + 1] = IF i + 1 = 1 THEN ss[i + 1] ELSE H[i] \o ss[i + 1]
      BY <2>1, <3>1
    <3>4. i # 0 => H[i] = G[i] /\ f[i] = G[i]
      BY <1>0, <2>7, <3>1
    <3> QED
      BY <3>1, <3>2, <3>3, <3>4
  <2>8. n \in T
    <3> HIDE DEF T
    <3>1. \A i \in 0 .. n : i \in T
      BY <1>0, <2>6, <2>7, Induct
    <3> QED
      BY <1>0, <3>1
  <2>9. f[n] = G[n]
    BY <1>6, <2>8
  <2> QED
    BY <1>3, <1>4, <2>4, <2>9 DEF n
<1> QED
  BY <1>5, <1>6

-----------------------------------------------------------------------------
(* Where FlattenSeq puts what.                                               *)

\* The places of the elements of a sequence of sequences, and those up to one.
Spots(ss) == UNION {{i} \X DOMAIN ss[i] : i \in DOMAIN ss}
Upto(spots, p) == {q \in spots : q[1] < p[1] \/ (q[1] = p[1] /\ q[2] <= p[2])}

\* A place is a sequence and an element of it.
LEMMA Spot ==
  ASSUME NEW ss, NEW p
  PROVE  p \in Spots(ss) <=> \E i \in DOMAIN ss : \E j \in DOMAIN ss[i] : p = <<i, j>>
  BY DEF Spots

\* One of the sequences has as many places as elements.
LEMMA RowOfPlaces ==
  ASSUME NEW i, NEW j \in Nat
  PROVE  IsFiniteSet({i} \X (1 .. j)) /\ Cardinality({i} \X (1 .. j)) = j
<1> DEFINE f == [k \in 1 .. j |-> <<i, k>>]
<1>1. f \in Bijection(1 .. j, {i} \X (1 .. j))
  <2>1. f \in [1 .. j -> {i} \X (1 .. j)]
    OBVIOUS
  <2>2. \A k, l \in 1 .. j : f[k] = f[l] => k = l
    OBVIOUS
  <2>3. \A t \in {i} \X (1 .. j) : \E k \in 1 .. j : f[k] = t
    OBVIOUS
  <2> HIDE DEF f
  <2> QED
    BY <2>1, <2>2, <2>3 DEF Bijection, Injection, Surjection, IsInjective
<1>2. IsFiniteSet(1 .. j) /\ Cardinality(1 .. j) = j
  BY FS_Interval
<1> HIDE DEF f
<1> QED
  BY <1>1, <1>2, FS_Bijection DEF ExistsBijection

\* Each element is found in the joined sequence after those of the places
\* before its own, and nothing else is.
LEMMA FlattenedInPlace ==
  ASSUME NEW S, NEW ss \in Seq(Seq(S))
  PROVE  /\ FlattenSeq(ss) \in Seq(S)
         /\ Len(FlattenSeq(ss)) = Cardinality(Spots(ss))
         /\ \A p \in Spots(ss) :
              /\ Cardinality(Upto(Spots(ss), p)) \in 1 .. Len(FlattenSeq(ss))
              /\ FlattenSeq(ss)[Cardinality(Upto(Spots(ss), p))] = ss[p[1]][p[2]]
<1> DEFINE n == Len(ss)
           Below(m) == {q \in Spots(ss) : q[1] <= m}
<1>0. n \in Nat /\ DOMAIN ss = 1 .. n /\ \A i \in 1 .. n : ss[i] \in Seq(S)
  OBVIOUS
<1>1. \A i \in 1 .. n : DOMAIN ss[i] = 1 .. Len(ss[i]) /\ Len(ss[i]) \in Nat
  BY <1>0
<1>2. PICK G : /\ G \in [0 .. n -> Seq(S)] /\ G[0] = << >>
               /\ \A i \in 1 .. n : G[i] = G[i - 1] \o ss[i]
               /\ FlattenSeq(ss) = G[n]
  BY Joined
<1> HIDE DEF n
<1>3. \A p \in Spots(ss) : p[1] \in 1 .. n /\ p[2] \in 1 .. Len(ss[p[1]]) /\ p = <<p[1], p[2]>>
  BY <1>0, <1>1, Spot
<1> DEFINE T == {m \in 0 .. n :
                   /\ IsFiniteSet(Below(m)) /\ Cardinality(Below(m)) = Len(G[m])
                   /\ \A p \in Below(m) :
                        /\ Cardinality(Upto(Spots(ss), p)) \in 1 .. Len(G[m])
                        /\ G[m][Cardinality(Upto(Spots(ss), p))] = ss[p[1]][p[2]]}
<1>4. 0 \in T
  <2>1. Below(0) = {}
    BY <1>0, <1>3
  <2>2. 0 \in 0 .. n /\ Len(G[0]) = 0
    BY <1>0, <1>2
  <2>3. IsFiniteSet(Below(0)) /\ Cardinality(Below(0)) = Len(G[0])
    <3> HIDE DEF Below
    <3> QED
      BY <2>1, <2>2, FS_EmptySet
  <2>4. \A p \in Below(0) : FALSE
    BY <2>1
  <2> HIDE DEF Below
  <2> QED
    BY <2>2, <2>3, <2>4
<1>5. ASSUME NEW m \in 0 .. n, m < n, m \in T PROVE m + 1 \in T
  <2> DEFINE s == ss[m + 1]
             Here(j) == {m + 1} \X (1 .. j)
  <2>1. /\ m \in Nat /\ m + 1 \in 1 .. n /\ m + 1 \in 0 .. n /\ (m + 1) - 1 = m
        /\ s \in Seq(S) /\ DOMAIN s = 1 .. Len(s) /\ Len(s) \in Nat
    BY <1>0, <1>1, <1>5
  <2>2. /\ IsFiniteSet(Below(m)) /\ Cardinality(Below(m)) = Len(G[m])
        /\ \A p \in Below(m) :
             /\ Cardinality(Upto(Spots(ss), p)) \in 1 .. Len(G[m])
             /\ G[m][Cardinality(Upto(Spots(ss), p))] = ss[p[1]][p[2]]
    BY <1>5
  <2> HIDE DEF T
  <2>3. G[m + 1] = G[m] \o s /\ G[m] \in Seq(S)
    <3>1. G[m + 1] = G[(m + 1) - 1] \o ss[m + 1]
      <4>1. \A i \in 1 .. n : G[i] = G[i - 1] \o ss[i]
        BY <1>2
      <4>2. m + 1 \in 1 .. n
        BY <2>1
      <4> DEFINE k == m + 1
      <4>3. k \in 1 .. n
        BY <4>2
      <4> HIDE DEF k, Here
      <4>4. G[k] = G[k - 1] \o ss[k]
        BY <4>1, <4>3
      <4> QED
        BY <4>4 DEF k
    <3>2. G[m] \in Seq(S)
      BY <1>2
    <3> QED
      BY <2>1, <3>1, <3>2
  <2> HIDE DEF s
  <2>4. /\ Len(G[m + 1]) = Len(G[m]) + Len(s) /\ Len(G[m]) \in Nat
        /\ \A k \in 1 .. Len(G[m]) : G[m + 1][k] = G[m][k]
        /\ \A k \in 1 .. Len(s) : G[m + 1][Len(G[m]) + k] = s[k]
    <3>1. Len(G[m]) \in Nat /\ Len(G[m + 1]) = Len(G[m]) + Len(s)
      BY <2>1, <2>3, ConcatProperties
    <3>2. ASSUME NEW k \in 1 .. Len(G[m]) PROVE G[m + 1][k] = G[m][k]
      BY <2>1, <2>3, <3>1
    <3>3. ASSUME NEW k \in 1 .. Len(s) PROVE G[m + 1][Len(G[m]) + k] = s[k]
      BY <2>1, <2>3, <3>1
    <3> QED
      BY <3>1, <3>2, <3>3
  <2>5. ASSUME NEW j \in 0 .. Len(s)
        PROVE  /\ IsFiniteSet(Below(m) \cup Here(j))
               /\ Cardinality(Below(m) \cup Here(j)) = Len(G[m]) + j
    <3>1. IsFiniteSet(Here(j)) /\ Cardinality(Here(j)) = j /\ j \in Nat
      <4>1. j \in Nat
        BY <2>1
      <4> QED
        BY <4>1, RowOfPlaces
    <3>2. Below(m) \cap Here(j) = {}
      <4>1. \A q \in Here(j) : q[1] = m + 1
        OBVIOUS
      <4>2. \A q \in Below(m) : q[1] <= m
        OBVIOUS
      <4> QED
        BY <2>1, <4>1, <4>2
    <3> HIDE DEF Below, Here
    <3>3. /\ IsFiniteSet(Below(m) \cup Here(j))
          /\ Cardinality(Below(m) \cup Here(j)) = Cardinality(Below(m)) + Cardinality(Here(j))
                                                    - Cardinality(Below(m) \cap Here(j))
      BY <2>2, <3>1, FS_Union
    <3> QED
      <4>1. Cardinality(Below(m) \cap Here(j)) = 0
        BY <3>2, FS_EmptySet
      <4>2. Cardinality(Below(m)) = Len(G[m]) /\ Len(G[m]) \in Nat
        BY <2>2, <2>4
      <4> QED
        BY <3>1, <3>3, <4>1, <4>2
  <2>6. Here(Len(s)) \subseteq Spots(ss)
    <3>1. ASSUME NEW q \in Here(Len(s)) PROVE q \in Spots(ss)
      <4>1. PICK k \in 1 .. Len(s) : q = <<m + 1, k>>
        OBVIOUS
      <4>2. m + 1 \in DOMAIN ss /\ k \in DOMAIN ss[m + 1]
        BY <1>0, <2>1 DEF s
      <4> QED
        BY <4>1, <4>2, Spot
    <3> QED
      BY <3>1
  <2>7. Below(m + 1) = Below(m) \cup Here(Len(s))
    <3>1. ASSUME NEW q \in Below(m + 1) PROVE q \in Below(m) \cup Here(Len(s))
      <4>1. q \in Spots(ss) /\ q[1] <= m + 1 /\ q[1] \in Nat
        BY <1>0, <1>3
      <4>2. CASE q[1] = m + 1
        BY <1>3, <4>1, <4>2 DEF s
      <4>3. CASE q[1] # m + 1
        BY <2>1, <4>1, <4>3
      <4> QED
        BY <4>2, <4>3
    <3>2. ASSUME NEW q \in Below(m) PROVE q \in Below(m + 1)
      BY <1>0, <1>3, <2>1
    <3>3. ASSUME NEW q \in Here(Len(s)) PROVE q \in Below(m + 1)
      BY <2>1, <2>6
    <3> QED
      BY <3>1, <3>2, <3>3
  <2>8. IsFiniteSet(Below(m + 1)) /\ Cardinality(Below(m + 1)) = Len(G[m + 1])
    <3>1. Len(s) \in 0 .. Len(s)
      BY <2>1
    <3> HIDE DEF Below, Here
    <3> QED
      BY <2>4, <2>5, <2>7, <3>1
  <2>9. ASSUME NEW p \in Below(m + 1)
        PROVE  /\ Cardinality(Upto(Spots(ss), p)) \in 1 .. Len(G[m + 1])
               /\ G[m + 1][Cardinality(Upto(Spots(ss), p))] = ss[p[1]][p[2]]
    <3>1. CASE p \in Below(m)
      <4> DEFINE c == Cardinality(Upto(Spots(ss), p))
      <4>1. c \in 1 .. Len(G[m]) /\ G[m][c] = ss[p[1]][p[2]]
        BY <2>2, <3>1
      <4>2. c \in 1 .. Len(G[m + 1]) /\ G[m + 1][c] = G[m][c]
        <5> HIDE DEF c
        <5> QED
          BY <2>1, <2>4, <4>1
      <4> QED
        BY <4>1, <4>2
    <3>2. CASE p \notin Below(m)
      <4>1. p \in Here(Len(s)) /\ p[1] = m + 1 /\ p[2] \in 1 .. Len(s)
        BY <2>7, <3>2
      <4>2. Upto(Spots(ss), p) = Below(m) \cup Here(p[2])
        <5>1. ASSUME NEW q \in Upto(Spots(ss), p) PROVE q \in Below(m) \cup Here(p[2])
          <6>1. q \in Spots(ss) /\ q[1] \in Nat /\ q[2] \in Nat /\ q = <<q[1], q[2]>> /\ q[2] >= 1
            BY <1>0, <1>1, <1>3 DEF Upto
          <6>2. CASE q[1] < m + 1
            BY <2>1, <6>1, <6>2
          <6>3. CASE q[1] = m + 1 /\ q[2] <= p[2]
            BY <2>1, <4>1, <6>1, <6>3
          <6> QED
            BY <4>1, <6>2, <6>3 DEF Upto
        <5>2. ASSUME NEW q \in Below(m) PROVE q \in Upto(Spots(ss), p)
          BY <1>0, <1>3, <2>1, <4>1 DEF Upto
        <5>3. ASSUME NEW q \in Here(p[2]) PROVE q \in Upto(Spots(ss), p)
          <6>1. q[1] = m + 1 /\ q[2] \in 1 .. p[2] /\ q \in Here(Len(s))
            BY <2>1, <4>1
          <6> QED
            BY <2>1, <2>6, <4>1, <6>1 DEF Upto
        <5> HIDE DEF Below, Here
        <5> QED
          BY <5>1, <5>2, <5>3
      <4>3. Cardinality(Upto(Spots(ss), p)) = Len(G[m]) + p[2]
        <5>1. p[2] \in 0 .. Len(s)
          BY <2>1, <4>1
        <5> HIDE DEF Below, Here
        <5> QED
          BY <2>5, <4>2, <5>1
      <4> DEFINE c == Cardinality(Upto(Spots(ss), p))
                 k == p[2]
      <4>4. k \in 1 .. Len(s) /\ c = Len(G[m]) + k /\ s[k] = ss[p[1]][p[2]]
        BY <4>1, <4>3 DEF s
      <4> HIDE DEF c, k
      <4>5. c \in 1 .. Len(G[m + 1])
        <5>1. Len(s) \in Nat /\ Len(G[m]) \in Nat /\ Len(G[m + 1]) = Len(G[m]) + Len(s)
          BY <2>1, <2>4
        <5> QED
          BY <4>4, <5>1
      <4>6. G[m + 1][c] = s[k]
        BY <2>4, <4>4
      <4> QED
        BY <4>4, <4>5, <4>6 DEF c
    <3> QED
      BY <3>1, <3>2
  <2> QED
    <3> HIDE DEF Below
    <3> QED
      BY <2>1, <2>8, <2>9 DEF T
<1>6. n \in T
  <2> HIDE DEF T
  <2>1. \A i \in 0 .. n : i \in T
    BY <1>0, <1>4, <1>5, Induct
  <2> QED
    BY <1>0, <2>1
<1>7. Below(n) = Spots(ss)
  BY <1>0, <1>3
<1>8. G[n] \in Seq(S)
  BY <1>0, <1>2
<1> QED
  BY <1>2, <1>6, <1>7, <1>8

-----------------------------------------------------------------------------
(* Assignments, and the expansion and merge of a run (resolve_fragments).    *)

\* The steps that are no directives, and what a run may have found.
Plains == [text : Texts]
Tables == UNION {[ids -> RowFields] : ids \in SUBSET FragmentIds}

\* An assignment gives some variables texts.
LEMMA Assigned ==
  ASSUME NEW v
  PROVE  v \in Assignments <=> DOMAIN v \subseteq Variables /\ v \in [DOMAIN v -> Texts]
  BY DEF Assignments

\* One assignment over another has the variables of both, and its own values.
LEMMA OverMeans ==
  ASSUME NEW v \in Assignments, NEW w \in Assignments
  PROVE  /\ Over(v, w) \in Assignments
         /\ DOMAIN Over(v, w) = DOMAIN v \cup DOMAIN w
         /\ \A x \in DOMAIN v : Over(v, w)[x] = v[x]
         /\ \A x \in DOMAIN w \ DOMAIN v : Over(v, w)[x] = w[x]
<1>1. /\ DOMAIN v \subseteq Variables /\ \A x \in DOMAIN v : v[x] \in Texts
      /\ DOMAIN w \subseteq Variables /\ \A x \in DOMAIN w : w[x] \in Texts
  BY Assigned
<1> QED
  BY <1>1, Assigned DEF Over

\* Without variables there is nothing to put over.
LEMMA NothingAssigned ==
  << >> \in Assignments /\ DOMAIN << >> = {} /\ \A v \in Assignments : Over(v, << >>) = v
<1>1. DOMAIN << >> = {}
  OBVIOUS
<1>2. << >> \in [{} -> Texts]
  OBVIOUS
<1>3. << >> \in Assignments
  BY <1>1, <1>2, Assigned
<1>4. ASSUME NEW v \in Assignments PROVE Over(v, << >>) = v
  <2>1. v \in [DOMAIN v -> Texts]
    BY Assigned
  <2> QED
    BY <1>1, <2>1 DEF Over
<1> QED
  BY <1>1, <1>3, <1>4

\* Substitution keeps a step what it is.
LEMMA FilledStep ==
  ASSUME NEW step \in Steps, NEW values \in Assignments
  PROVE  /\ Filled(step, values) \in Steps
         /\ IsDirective(Filled(step, values)) <=> IsDirective(step)
         /\ IsDirective(step) => /\ Filled(step, values) = step
                                 /\ step.include \in FragmentIds /\ step.with \in Assignments
         /\ ~IsDirective(step) => /\ step \in Plains /\ Filled(step, values) \in Plains
                                  /\ Filled(step, values).text = Put(values, step.text)
<1>1. \A t \in Texts : Put(values, t) \in Texts
  BY Assigned DEF Put
<1>2. CASE step \in Plains
  BY <1>1, <1>2 DEF Plains, Steps, Filled, IsDirective
<1>3. CASE step \in [include : FragmentIds, with : Assignments]
  BY <1>3 DEF Steps, Filled, IsDirective
<1> QED
  BY <1>2, <1>3 DEF Steps, Plains

\* Without values, a step stays as it is.
LEMMA FilledWithNothing ==
  ASSUME NEW step \in Steps
  PROVE  Filled(step, << >>) = step
<1>1. \A t : Put(<< >>, t) = t
  BY NothingAssigned DEF Put
<1>2. CASE step \in Plains
  BY <1>1, <1>2 DEF Plains, Filled
<1>3. CASE step \in [include : FragmentIds, with : Assignments]
  BY <1>3 DEF Filled
<1> QED
  BY <1>2, <1>3 DEF Steps, Plains

\* A run whose fragments have been found.
Ready(run) ==
  /\ run.workflow \in Workflows /\ run.found \in Tables
  /\ Included(run.workflow.steps) \subseteq DOMAIN run.found

\* What each step of the workflow becomes.
Parts(run) ==
  [i \in DOMAIN run.workflow.steps |->
     IF IsDirective(run.workflow.steps[i])
     THEN LET fragment == run.found[run.workflow.steps[i].include].steps
          IN  [j \in DOMAIN fragment |-> Filled(fragment[j], run.workflow.steps[i].with)]
     ELSE <<run.workflow.steps[i]>>]

\* The steps and variables of a run's workflow and of its fragments.
LEMMA WorkflowType ==
  ASSUME NEW run, Ready(run)
  PROVE  /\ run.workflow.steps \in Seq(Steps) /\ run.workflow.variables \in Assignments
         /\ \A i \in DOMAIN run.workflow.steps :
              LET step == run.workflow.steps[i]
              IN  /\ step \in Steps
                  /\ IsDirective(step) =>
                       /\ step.include \in DOMAIN run.found
                       /\ run.found[step.include].steps \in Seq(Steps)
                       /\ run.found[step.include].variables \in Assignments
<1>1. run.workflow.steps \in Seq(Steps) /\ run.workflow.variables \in Assignments
  BY ContentsAssumption DEF Ready
<1>2. ASSUME NEW i \in DOMAIN run.workflow.steps
      PROVE  run.workflow.steps[i] \in Steps
  BY <1>1
<1>3. ASSUME NEW i \in DOMAIN run.workflow.steps, IsDirective(run.workflow.steps[i])
      PROVE  run.workflow.steps[i].include \in DOMAIN run.found
  BY <1>3 DEF Ready, Included
<1>4. ASSUME NEW f \in DOMAIN run.found
      PROVE  run.found[f].steps \in Seq(Steps) /\ run.found[f].variables \in Assignments
  <2>1. run.found[f] \in RowFields
    BY DEF Ready, Tables
  <2>2. \A body \in Bodies : body.steps \in Seq(Steps) /\ body.variables \in Assignments
    BY ContentsAssumption
  <2> QED
    BY <2>1, <2>2 DEF RowFields
<1> QED
  BY <1>1, <1>2, <1>3, <1>4

\* Each place of the expansion has its step, with what its include says.
LEMMA PartsMean ==
  ASSUME NEW run, Ready(run)
  PROVE  /\ Parts(run) \in Seq(Seq(Steps)) /\ Spots(Parts(run)) = Places(run)
         /\ \A p \in Places(run) :
              /\ p[1] \in DOMAIN run.workflow.steps
              /\ p[2] \in DOMAIN Source(run, p[1])
              /\ Source(run, p[1])[p[2]] \in Steps /\ With(run, p[1]) \in Assignments
              /\ Parts(run)[p[1]][p[2]] = Filled(Source(run, p[1])[p[2]], With(run, p[1]))
<1> DEFINE steps == run.workflow.steps
<1>1. ASSUME NEW i \in DOMAIN steps
      PROVE  /\ Source(run, i) \in Seq(Steps) /\ With(run, i) \in Assignments
             /\ Parts(run)[i] \in Seq(Steps)
             /\ DOMAIN Parts(run)[i] = DOMAIN Source(run, i)
             /\ \A j \in DOMAIN Source(run, i) :
                  /\ Source(run, i)[j] \in Steps
                  /\ Parts(run)[i][j] = Filled(Source(run, i)[j], With(run, i))
  <2>1. steps[i] \in Steps
    BY WorkflowType
  <2>2. CASE IsDirective(steps[i])
    <3> DEFINE fragment == run.found[steps[i].include].steps
               with == steps[i].with
    <3>1. fragment \in Seq(Steps) /\ with \in Assignments
      BY <2>1, <2>2, WorkflowType, FilledStep, NothingAssigned
    <3>2. /\ Source(run, i) = fragment /\ With(run, i) = with
          /\ Parts(run)[i] = [j \in DOMAIN fragment |-> Filled(fragment[j], with)]
      BY <2>2 DEF Source, With, Parts
    <3> HIDE DEF fragment, with
    <3>3. \A j \in DOMAIN fragment : fragment[j] \in Steps /\ Filled(fragment[j], with) \in Steps
      BY <3>1, FilledStep
    <3>4. [j \in DOMAIN fragment |-> Filled(fragment[j], with)] \in Seq(Steps)
      BY <3>1, <3>3
    <3> QED
      BY <3>1, <3>2, <3>3, <3>4
  <2>3. CASE ~IsDirective(steps[i])
    <3>1. Source(run, i) = <<steps[i]>> /\ With(run, i) = << >> /\ Parts(run)[i] = <<steps[i]>>
      BY <2>3 DEF Source, With, Parts
    <3>2. Filled(steps[i], << >>) = steps[i]
      BY <2>1, FilledWithNothing
    <3>3. <<steps[i]>> \in Seq(Steps) /\ DOMAIN <<steps[i]>> = {1} /\ <<steps[i]>>[1] = steps[i]
      BY <2>1
    <3> HIDE DEF steps
    <3> QED
      BY <2>1, <3>1, <3>2, <3>3, NothingAssigned
  <2> QED
    BY <2>2, <2>3
<1>2. DOMAIN Parts(run) = DOMAIN steps /\ steps \in Seq(Steps)
  BY WorkflowType DEF Parts
<1>3. Parts(run) \in Seq(Seq(Steps))
  <2>0. DOMAIN Parts(run) = 1 .. Len(steps) /\ Len(steps) \in Nat
    BY <1>2
  <2>1. Parts(run) = [i \in DOMAIN Parts(run) |-> Parts(run)[i]]
    BY DEF Parts
  <2>2. \A i \in 1 .. Len(steps) : Parts(run)[i] \in Seq(Steps)
    BY <1>1, <1>2
  <2> HIDE DEF steps
  <2> QED
    BY <2>0, <2>1, <2>2
<1>4. Spots(Parts(run)) = Places(run)
  BY <1>1, <1>2 DEF Spots, Places
<1>5. ASSUME NEW p \in Places(run)
      PROVE  p[1] \in DOMAIN steps /\ p[2] \in DOMAIN Source(run, p[1])
  BY DEF Places
<1> QED
  BY <1>1, <1>3, <1>4, <1>5

\* What an expansion consists of.
LEMMA ExpandedMeans ==
  ASSUME NEW run, Ready(run), NEW steps, steps = Expanded(run.workflow.steps, run.found)
  PROVE  /\ steps \in Seq(Steps) /\ Len(steps) = Cardinality(Places(run))
         /\ \A p \in Places(run) :
              /\ At(run, p) \in 1 .. Len(steps)
              /\ Source(run, p[1])[p[2]] \in Steps /\ With(run, p[1]) \in Assignments
              /\ steps[At(run, p)] = Filled(Source(run, p[1])[p[2]], With(run, p[1]))
<1>1. steps = FlattenSeq(Parts(run))
  BY DEF Expanded, Parts
<1>2. Parts(run) \in Seq(Seq(Steps)) /\ Spots(Parts(run)) = Places(run)
  BY PartsMean
<1>3. \A p : At(run, p) = Cardinality(Upto(Places(run), p))
  BY DEF At, Upto
<1> QED
  BY <1>1, <1>2, <1>3, PartsMean, FlattenedInPlace

\* Who declares x, and what they declare.
Declares(run, i, x) ==
  /\ IsDirective(run.workflow.steps[i])
  /\ x \in DOMAIN run.found[run.workflow.steps[i].include].variables
Declared(run, i) == run.found[run.workflow.steps[i].include].variables

\* The fragments declare what the last of them says, the workflow goes first.
LEMMA MergedLast ==
  ASSUME NEW run, Ready(run)
  PROVE  \E g \in Assignments :
           /\ Merged(run.workflow, run.found) = Over(run.workflow.variables, g)
           /\ \A x : x \in DOMAIN g <=> \E i \in DOMAIN run.workflow.steps : Declares(run, i, x)
           /\ \A x \in DOMAIN g : \E i \in DOMAIN run.workflow.steps :
                /\ Declares(run, i, x)
                /\ \A j \in DOMAIN run.workflow.steps : Declares(run, j, x) => j <= i
                /\ g[x] = Declared(run, i)[x]
<1> DEFINE steps == run.workflow.steps
           n == Len(steps)
           F == [k \in 1 .. n |-> [v \in Assignments |->
                   IF IsDirective(steps[k]) THEN Over(Declared(run, k), v) ELSE v]]
<1>1. n \in Nat /\ DOMAIN steps = 1 .. n
  BY WorkflowType
<1>2. ASSUME NEW k \in 1 .. n, IsDirective(steps[k])
      PROVE  Declared(run, k) \in Assignments /\ \A v \in Assignments : Over(Declared(run, k), v) \in Assignments
  BY <1>1, <1>2, WorkflowType, OverMeans DEF Declared
<1> HIDE DEF n
<1>3. F \in [1 .. n -> [Assignments -> Assignments]]
  BY <1>2
<1>4. PICK G : Folds(G, Assignments, << >>, n, F)
  <2> HIDE DEF F
  <2> QED
    BY <1>1, <1>3, NothingAssigned, Folded
<1>5. G \in [0 .. n -> Assignments] /\ G[0] = << >> /\ \A k \in 1 .. n : G[k] = F[k][G[k - 1]]
  BY <1>4 DEF Folds
<1>6. ASSUME NEW k \in 1 .. n
      PROVE  /\ k - 1 \in 0 .. n /\ G[k - 1] \in Assignments
             /\ G[k] = IF IsDirective(steps[k]) THEN Over(Declared(run, k), G[k - 1]) ELSE G[k - 1]
  <2>1. k - 1 \in 0 .. n
    BY <1>1
  <2>2. G[k - 1] \in Assignments
    BY <1>5, <2>1
  <2> QED
    BY <1>5, <2>1, <2>2
<1> HIDE DEF F
<1>7. Merged(run.workflow, run.found) = Over(run.workflow.variables, G[n])
  <2> DEFINE Def(h) == [k \in 0 .. n |->
                IF k = 0 THEN << >>
                ELSE IF IsDirective(steps[k]) THEN Over(Declared(run, k), h[k - 1])
                ELSE h[k - 1]]
             f == CHOOSE h : h = Def(h)
  <2>1. G = Def(G)
    <3>1. G = [k \in 0 .. n |-> G[k]]
      BY <1>5
    <3>2. ASSUME NEW k \in 0 .. n
          PROVE  G[k] = IF k = 0 THEN << >>
                        ELSE IF IsDirective(steps[k]) THEN Over(Declared(run, k), G[k - 1])
                        ELSE G[k - 1]
      <4>1. k = 0 \/ k \in 1 .. n
        BY <1>1
      <4> QED
        BY <1>5, <1>6, <4>1
    <3> QED
      BY <3>1, <3>2
  <2>2. f = Def(f)
    <3> HIDE DEF Def
    <3> QED
      BY <2>1
  <2>3. Merged(run.workflow, run.found) = Over(run.workflow.variables, f[n])
    BY DEF Merged, n, Declared
  <2> HIDE DEF f
  <2>4. \A k \in 0 .. n :
          f[k] = IF k = 0 THEN << >>
                 ELSE IF IsDirective(steps[k]) THEN Over(Declared(run, k), f[k - 1])
                 ELSE f[k - 1]
    BY <2>2
  <2> DEFINE T == {k \in 0 .. n : f[k] = G[k]}
  <2>5. 0 \in T
    BY <1>1, <1>5, <2>4
  <2>6. ASSUME NEW k \in 0 .. n, k < n, k \in T PROVE k + 1 \in T
    <3>1. k + 1 \in 1 .. n /\ k + 1 \in 0 .. n /\ (k + 1) - 1 = k /\ k + 1 # 0
      BY <1>1, <2>6
    <3>2. f[k + 1] = IF IsDirective(steps[k + 1]) THEN Over(Declared(run, k + 1), f[k]) ELSE f[k]
      BY <2>4, <3>1
    <3>3. G[k + 1] = IF IsDirective(steps[k + 1]) THEN Over(Declared(run, k + 1), G[k]) ELSE G[k]
      BY <1>6, <3>1
    <3> QED
      BY <2>6, <3>1, <3>2, <3>3
  <2>7. n \in T
    <3> HIDE DEF T
    <3>1. \A i \in 0 .. n : i \in T
      BY <1>1, <2>5, <2>6, Induct
    <3> QED
      BY <1>1, <3>1
  <2> QED
    BY <2>3, <2>7
<1> DEFINE LastOf(k) ==
             /\ \A x : x \in DOMAIN G[k] <=> \E i \in 1 .. k : Declares(run, i, x)
             /\ \A x \in DOMAIN G[k] : \E i \in 1 .. k :
                  /\ Declares(run, i, x)
                  /\ \A j \in 1 .. k : Declares(run, j, x) => j <= i
                  /\ G[k][x] = Declared(run, i)[x]
           T == {k \in 0 .. n : LastOf(k)}
<1>8. 0 \in T
  BY <1>1, <1>5, NothingAssigned
<1>9. ASSUME NEW k \in 0 .. n, k < n, k \in T PROVE k + 1 \in T
  <2>1. /\ k + 1 \in 1 .. n /\ k + 1 \in 0 .. n /\ (k + 1) - 1 = k /\ k \in Nat
        /\ 1 .. k + 1 = 1 .. k \cup {k + 1}
        /\ \A i \in 1 .. k : i <= k /\ i # k + 1 /\ i \in Nat
    BY <1>1, <1>9
  <2>2. LastOf(k)
    BY <1>9
  <2> HIDE DEF T
  <2>3. CASE IsDirective(steps[k + 1])
    <3> DEFINE d == Declared(run, k + 1)
    <3>1. d \in Assignments /\ G[k] \in Assignments /\ G[k + 1] = Over(d, G[k])
      BY <1>2, <1>6, <2>1, <2>3
    <3>2. /\ DOMAIN G[k + 1] = DOMAIN d \cup DOMAIN G[k]
          /\ \A x \in DOMAIN d : G[k + 1][x] = d[x]
          /\ \A x \in DOMAIN G[k] \ DOMAIN d : G[k + 1][x] = G[k][x]
      <4> DEFINE g == G[k]
                 h == G[k + 1]
      <4>1. d \in Assignments /\ g \in Assignments /\ h = Over(d, g)
        BY <3>1
      <4> HIDE DEF d, g, h
      <4>2. /\ DOMAIN h = DOMAIN d \cup DOMAIN g
            /\ \A x \in DOMAIN d : h[x] = d[x]
            /\ \A x \in DOMAIN g \ DOMAIN d : h[x] = g[x]
        BY <4>1, OverMeans
      <4> QED
        BY <4>2 DEF g, h
    <3>3. \A x : Declares(run, k + 1, x) <=> x \in DOMAIN d
      BY <2>3 DEF Declares, Declared
    <3> HIDE DEF d
    <3>4. \A x : x \in DOMAIN G[k + 1] <=> \E i \in 1 .. k + 1 : Declares(run, i, x)
      BY <2>1, <2>2, <3>2, <3>3
    <3>5. ASSUME NEW x \in DOMAIN G[k + 1]
          PROVE  \E i \in 1 .. k + 1 :
                   /\ Declares(run, i, x)
                   /\ \A j \in 1 .. k + 1 : Declares(run, j, x) => j <= i
                   /\ G[k + 1][x] = Declared(run, i)[x]
      <4>1. CASE x \in DOMAIN d
        BY <2>1, <3>2, <3>3, <4>1 DEF d
      <4>2. CASE x \notin DOMAIN d
        <5>1. PICK i \in 1 .. k : /\ Declares(run, i, x)
                                  /\ \A j \in 1 .. k : Declares(run, j, x) => j <= i
                                  /\ G[k][x] = Declared(run, i)[x]
          BY <2>2, <3>2, <4>2
        <5> QED
          BY <2>1, <3>2, <3>3, <4>2, <5>1
      <4> QED
        BY <4>1, <4>2
    <3> QED
      BY <2>1, <3>4, <3>5 DEF T
  <2>4. CASE ~IsDirective(steps[k + 1])
    <3>1. G[k + 1] = G[k]
      BY <1>6, <2>1, <2>4
    <3>2. \A x : ~Declares(run, k + 1, x)
      BY <2>4 DEF Declares
    <3>3. \A x : x \in DOMAIN G[k + 1] <=> \E i \in 1 .. k + 1 : Declares(run, i, x)
      BY <2>1, <2>2, <3>1, <3>2
    <3>4. ASSUME NEW x \in DOMAIN G[k + 1]
          PROVE  \E i \in 1 .. k + 1 :
                   /\ Declares(run, i, x)
                   /\ \A j \in 1 .. k + 1 : Declares(run, j, x) => j <= i
                   /\ G[k + 1][x] = Declared(run, i)[x]
      <4>1. PICK i \in 1 .. k : /\ Declares(run, i, x)
                                /\ \A j \in 1 .. k : Declares(run, j, x) => j <= i
                                /\ G[k][x] = Declared(run, i)[x]
        BY <2>2, <3>1
      <4> QED
        BY <2>1, <3>1, <3>2, <4>1
    <3> QED
      BY <2>1, <3>3, <3>4 DEF T
  <2> QED
    BY <2>3, <2>4
<1>10. LastOf(n)
  <2>1. n \in T
    <3> HIDE DEF T
    <3>1. \A i \in 0 .. n : i \in T
      BY <1>1, <1>8, <1>9, Induct
    <3> QED
      BY <1>1, <3>1
  <2> QED
    BY <2>1
<1>11. G[n] \in Assignments
  BY <1>1, <1>5
<1> QED
  BY <1>1, <1>7, <1>10, <1>11

\* What a run declares is what has a default.
LEMMA MergedMeans ==
  ASSUME NEW run, Ready(run), NEW variables, variables = Merged(run.workflow, run.found)
  PROVE  /\ variables \in Assignments
         /\ \A x : x \in DOMAIN variables <=> Default(run, x) # {}
         /\ \A x \in DOMAIN variables : Default(run, x) = {variables[x]}
<1> DEFINE steps == run.workflow.steps
           By(x) == {i \in DOMAIN steps : Declares(run, i, x)}
           own == run.workflow.variables
<1>1. PICK g \in Assignments :
           /\ variables = Over(own, g)
           /\ \A x : x \in DOMAIN g <=> \E i \in DOMAIN steps : Declares(run, i, x)
           /\ \A x \in DOMAIN g : \E i \in DOMAIN steps :
                /\ Declares(run, i, x)
                /\ \A j \in DOMAIN steps : Declares(run, j, x) => j <= i
                /\ g[x] = Declared(run, i)[x]
  BY MergedLast
<1>2. /\ variables \in Assignments /\ DOMAIN variables = DOMAIN own \cup DOMAIN g
      /\ \A x \in DOMAIN own : variables[x] = own[x]
      /\ \A x \in DOMAIN g \ DOMAIN own : variables[x] = g[x]
  <2>1. own \in Assignments /\ variables = Over(own, g)
    BY <1>1, WorkflowType
  <2> HIDE DEF own
  <2> QED
    BY <2>1, OverMeans
<1>3. steps \in Seq(Steps) /\ DOMAIN steps = 1 .. Len(steps) /\ Len(steps) \in Nat
  BY WorkflowType
<1>4. ASSUME NEW x PROVE Default(run, x) = CASE x \in DOMAIN own -> {own[x]}
        [] By(x) # {} /\ x \notin DOMAIN own ->
             {Declared(run, CHOOSE i \in By(x) : \A j \in By(x) : j <= i)[x]}
        [] OTHER -> {}
  BY DEF Default, Declares, Declared
<1>5. ASSUME NEW x \in DOMAIN own PROVE Default(run, x) = {own[x]}
  BY <1>4, <1>5
<1>6. ASSUME NEW x, x \notin DOMAIN own, x \notin DOMAIN g PROVE Default(run, x) = {}
  BY <1>1, <1>4, <1>6
<1>7. ASSUME NEW x \in DOMAIN g, x \notin DOMAIN own PROVE Default(run, x) = {g[x]}
  <2>1. PICK i \in DOMAIN steps :
                /\ Declares(run, i, x)
                /\ \A j \in DOMAIN steps : Declares(run, j, x) => j <= i
                /\ g[x] = Declared(run, i)[x]
    BY <1>1
  <2> DEFINE last == CHOOSE k \in By(x) : \A j \in By(x) : j <= k
  <2>2. i \in By(x) /\ \A j \in By(x) : j <= i
    BY <2>1
  <2>3. \A k \in By(x) : k \in Nat
    BY <1>3
  <2>4. last \in By(x) /\ \A j \in By(x) : j <= last
    <3> HIDE DEF By
    <3> QED
      BY <2>2
  <2> HIDE DEF By, last
  <2>5. last = i
    BY <2>2, <2>3, <2>4
  <2>6. Default(run, x) = {Declared(run, last)[x]}
    BY <1>4, <1>7, <2>2 DEF last
  <2> QED
    BY <2>1, <2>5, <2>6
<1> HIDE DEF own
<1> QED
  BY <1>2, <1>5, <1>6, <1>7

\* Without directives, there is nothing to expand or merge.
LEMMA NothingIncluded ==
  ASSUME NEW run, run.workflow \in Workflows, run.found = << >>,
         \A i \in DOMAIN run.workflow.steps : ~IsDirective(run.workflow.steps[i])
  PROVE  /\ Ready(run)
         /\ Expanded(run.workflow.steps, run.found) = run.workflow.steps
         /\ Merged(run.workflow, run.found) = run.workflow.variables
<1> DEFINE steps == run.workflow.steps
           n == Len(steps)
           ss == Parts(run)
<1>1. Ready(run)
  <2>1. << >> \in [{} -> RowFields]
    OBVIOUS
  <2>2. << >> \in Tables
    BY <2>1 DEF Tables
  <2>3. Included(steps) = {}
    BY DEF Included
  <2> QED
    BY <2>2, <2>3 DEF Ready
<1>2. /\ steps \in Seq(Steps) /\ n \in Nat /\ DOMAIN steps = 1 .. n
      /\ run.workflow.variables \in Assignments
  BY <1>1, WorkflowType
<1>3. ss \in Seq(Seq(Steps)) /\ Expanded(steps, run.found) = FlattenSeq(ss)
  BY <1>1, PartsMean DEF Expanded, Parts
<1>4. DOMAIN ss = 1 .. n /\ \A i \in 1 .. n : ss[i] = <<steps[i]>> /\ steps[i] \in Steps
  BY <1>2 DEF Parts
<1> HIDE DEF ss, n
<1>5. Len(ss) = n
  BY <1>2, <1>3, <1>4
<1>6. PICK G : /\ G \in [0 .. n -> Seq(Steps)] /\ G[0] = << >>
               /\ \A i \in 1 .. n : G[i] = G[i - 1] \o ss[i]
               /\ FlattenSeq(ss) = G[n]
  BY <1>3, <1>5, Joined
<1> DEFINE T == {k \in 0 .. n : Len(G[k]) = k /\ \A j \in 1 .. k : G[k][j] = steps[j]}
<1>7. 0 \in T
  BY <1>2, <1>6
<1>8. ASSUME NEW k \in 0 .. n, k < n, k \in T PROVE k + 1 \in T
  <2>1. k \in Nat /\ k + 1 \in 1 .. n /\ k + 1 \in 0 .. n /\ (k + 1) - 1 = k
    BY <1>2, <1>8
  <2>2. Len(G[k]) = k /\ \A j \in 1 .. k : G[k][j] = steps[j]
    BY <1>8
  <2>3. G[k] \in Seq(Steps)
    BY <1>6
  <2>4. G[k + 1] = G[k] \o <<steps[k + 1]>> /\ steps[k + 1] \in Steps
    <3>1. G[k + 1] = G[(k + 1) - 1] \o ss[k + 1]
      BY <1>6, <2>1
    <3> QED
      BY <1>4, <2>1, <3>1
  <2> HIDE DEF steps, T
  <2>5. Len(G[k + 1]) = k + 1 /\ \A j \in 1 .. k + 1 : G[k + 1][j] = steps[j]
    BY <2>1, <2>2, <2>3, <2>4
  <2> QED
    BY <2>1, <2>5 DEF T
<1>9. n \in T
  <2> HIDE DEF T
  <2>1. \A i \in 0 .. n : i \in T
    BY <1>2, <1>7, <1>8, Induct
  <2> QED
    BY <1>2, <2>1
<1>10. G[n] = steps
  <2>1. G[n] \in Seq(Steps) /\ Len(G[n]) = n /\ Len(steps) = n
    BY <1>2, <1>6, <1>9 DEF n
  <2>2. \A j \in 1 .. n : G[n][j] = steps[j]
    BY <1>9
  <2> HIDE DEF steps
  <2> QED
    BY <1>2, <2>1, <2>2
<1>11. Merged(run.workflow, run.found) = run.workflow.variables
  <2>1. PICK g \in Assignments :
           /\ Merged(run.workflow, run.found) = Over(run.workflow.variables, g)
           /\ \A x : x \in DOMAIN g <=> \E i \in DOMAIN steps : Declares(run, i, x)
    BY <1>1, MergedLast
  <2>2. DOMAIN g = {}
    BY <2>1 DEF Declares
  <2>3. run.workflow.variables \in [DOMAIN run.workflow.variables -> Texts]
    BY <1>2, Assigned
  <2> QED
    BY <2>1, <2>2, <2>3 DEF Over
<1> QED
  BY <1>1, <1>3, <1>6, <1>10, <1>11

\* The runs and their fields.
RunFields ==
  [pc : {"idle", "loaded", "refused", "pending", "failed", "running"},
   scheduled : BOOLEAN, workflow : Workflows \cup {None}, overrides : Assignments,
   found : Tables, steps : Seq(Steps), variables : Assignments]

\* What the declared variables become, and the expansion they are put into.
Secrets(run) == [x \in DOMAIN run.variables |-> Secret(Values(run)[x])]
Raw(run) == Expanded(run.workflow.steps, run.found)

\* What each point of its way says of a run.
RunInv(run) ==
  /\ run \in RunFields
  /\ run.pc # "idle" => run.workflow \in Workflows
  /\ run.pc \in {"pending", "failed", "running"} =>
       /\ Ready(run) /\ run.variables = Merged(run.workflow, run.found)
       /\ \A k \in DOMAIN Raw(run) : ~IsDirective(Raw(run)[k])
  /\ run.pc \in {"pending", "failed"} => run.steps = Raw(run)
  /\ run.pc = "failed" => ~Resolvable(run)
  /\ Begun(run) =>
       /\ Resolvable(run)
       /\ run.steps = [k \in DOMAIN Raw(run) |-> Filled(Raw(run)[k], Secrets(run))]

\* The values of a run that may begin are texts.
LEMMA SecretsType ==
  ASSUME env \in Assignments, NEW run, run \in RunFields
  PROVE  Secrets(run) \in Assignments /\ DOMAIN Secrets(run) = DOMAIN run.variables
<1>1. run.variables \in Assignments /\ run.overrides \in Assignments
  BY DEF RunFields
<1>2. \A x \in DOMAIN run.variables : Values(run)[x] \in Texts
  BY <1>1, Assigned DEF Values
<1>3. \A v \in Texts : Secret(v) \in Texts
  BY ContentsAssumption DEF Secret
<1>4. \A x \in DOMAIN run.variables : Secret(Values(run)[x]) \in Texts
  BY <1>2, <1>3
<1>5. DOMAIN run.variables \subseteq Variables
  BY <1>1, Assigned
<1> QED
  BY <1>4, <1>5, Assigned DEF Secrets

\* The steps a run has, once its fragments are found.
LEMMA RunSteps ==
  ASSUME env \in Assignments, NEW run, RunInv(run),
         run.pc \in {"pending", "failed", "running"}
  PROVE  /\ Raw(run) \in Seq(Steps) /\ run.steps \in Seq(Steps)
         /\ Len(run.steps) = Len(Raw(run)) /\ DOMAIN run.steps = DOMAIN Raw(run)
         /\ \A k \in DOMAIN run.steps : run.steps[k] \in Plains /\ Raw(run)[k] \in Plains
<1>1. Raw(run) \in Seq(Steps) /\ run.steps \in Seq(Steps) /\ run \in RunFields
  BY ExpandedMeans DEF RunInv, RunFields, Raw
<1>2. \A k \in DOMAIN Raw(run) : Raw(run)[k] \in Steps /\ ~IsDirective(Raw(run)[k])
  BY <1>1 DEF RunInv
<1>3. Secrets(run) \in Assignments
  BY <1>1, SecretsType
<1>4. DOMAIN run.steps = DOMAIN Raw(run)
  BY DEF RunInv, Begun
<1>5. ASSUME NEW k \in DOMAIN run.steps
      PROVE  run.steps[k] \in Plains /\ Raw(run)[k] \in Plains
  <2>1. run.steps[k] = Raw(run)[k] \/ run.steps[k] = Filled(Raw(run)[k], Secrets(run))
    BY <1>4 DEF RunInv, Begun
  <2> QED
    BY <1>2, <1>3, <1>4, <2>1, FilledStep
<1>6. Len(run.steps) = Len(Raw(run))
  BY <1>1, <1>4
<1> QED
  BY <1>1, <1>4, <1>5, <1>6

\* What a run becomes depends on what it declares and was sent.
LEMMA SameValues ==
  ASSUME NEW run, NEW next, next.variables = run.variables, next.overrides = run.overrides
  PROVE  (Resolvable(next) <=> Resolvable(run)) /\ Secrets(next) = Secrets(run)
<1>1. Values(next) = Values(run)
  BY DEF Values
<1> QED
  BY <1>1 DEF Resolvable, Secrets, Unresolved

\* A run that is not there yet is well formed.
LEMMA NotRunType ==
  NotRun \in RunFields /\ NotRun.found = << >>
<1> DEFINE nothing == << >>
           All == Seq(Steps)
           Flows == Workflows \cup {None}
<1>1. nothing \in Tables
  <2>1. << >> \in [{} -> RowFields]
    OBVIOUS
  <2> QED
    BY <2>1 DEF Tables
<1>2. nothing \in Assignments /\ nothing \in All /\ None \in Flows
  BY NothingAssigned
<1>3. RunFields = [pc : {"idle", "loaded", "refused", "pending", "failed", "running"},
        scheduled : BOOLEAN, workflow : Flows, overrides : Assignments,
        found : Tables, steps : All, variables : Assignments]
  BY DEF RunFields
<1>4. NotRun = [pc |-> "idle", scheduled |-> FALSE, workflow |-> None, overrides |-> nothing,
                found |-> nothing, steps |-> nothing, variables |-> nothing]
  BY DEF NotRun
<1>5. nothing = << >>
  OBVIOUS
<1> HIDE DEF nothing, All, Flows
<1> QED
  BY <1>1, <1>2, <1>3, <1>4, <1>5

\* A request loads its workflow.
LEMMA RequestRun ==
  ASSUME NEW workflow \in Workflows, NEW overrides \in Overrides,
         NEW next, next = [NotRun EXCEPT !.pc = "loaded", !.workflow = workflow, !.overrides = overrides]
  PROVE  RunInv(next)
<1>1. overrides \in Assignments
  BY ContentsAssumption
<1>2. /\ next \in RunFields /\ next.pc = "loaded" /\ next.workflow = workflow
  BY <1>1, NotRunType DEF RunFields
<1> QED
  BY <1>2 DEF RunInv, Begun

\* A schedule's run is refused or has nothing to expand.
LEMMA FireRun ==
  ASSUME NEW workflow \in Workflows, NEW next,
         next = Accepted([NotRun EXCEPT !.scheduled = TRUE, !.workflow = workflow,
                            !.steps = workflow.steps, !.variables = workflow.variables])
  PROVE  RunInv(next)
<1> DEFINE steps == workflow.steps
           variables == workflow.variables
           refused == \E i \in DOMAIN steps : IsDirective(steps[i])
           point == IF refused THEN "refused" ELSE "pending"
<1>1. steps \in Seq(Steps) /\ variables \in Assignments
  BY ContentsAssumption
<1>2. next = [NotRun EXCEPT !.scheduled = TRUE, !.workflow = workflow,
                !.steps = steps, !.variables = variables, !.pc = point]
  BY NotRunType DEF Accepted, RunFields
<1>3. point \in {"refused", "pending"} /\ (point = "pending" <=> ~refused)
  OBVIOUS
<1> HIDE DEF steps, variables, refused, point
<1>4. /\ next \in RunFields /\ next.pc = point /\ next.workflow = workflow /\ next.found = << >>
      /\ next.steps = steps /\ next.variables = variables
  BY <1>1, <1>2, <1>3, NotRunType DEF RunFields
<1>5. CASE refused
  BY <1>3, <1>4, <1>5 DEF RunInv, Begun
<1>6. CASE ~refused
  <2>1. \A i \in DOMAIN steps : ~IsDirective(steps[i])
    BY <1>6 DEF refused
  <2>2. Ready(next) /\ Raw(next) = steps /\ Merged(next.workflow, next.found) = variables
    BY <1>4, <2>1, NothingIncluded DEF Raw, steps, variables
  <2> QED
    BY <1>3, <1>4, <1>6, <2>1, <2>2 DEF RunInv, Begun
<1> QED
  BY <1>5, <1>6

\* The expansion has the steps of every fragment, or the request fails.
LEMMA ExpandRun ==
  ASSUME rows \in [FragmentIds -> RowFields \cup {None}], NEW run, RunInv(run), run.pc = "loaded",
         NEW found, found = [f \in {g \in Included(run.workflow.steps) : rows[g] # None} |-> rows[f]],
         NEW next,
         next = IF Included(run.workflow.steps) \subseteq DOMAIN found
                THEN Accepted([run EXCEPT !.found = found,
                                 !.steps = Expanded(run.workflow.steps, found),
                                 !.variables = Merged(run.workflow, found)])
                ELSE [run EXCEPT !.pc = "refused", !.found = found]
  PROVE  RunInv(next)
<1> DEFINE wanted == Included(run.workflow.steps)
<1>1. /\ run \in RunFields /\ run.workflow \in Workflows
  BY DEF RunInv, Begun
<1>2. wanted \subseteq FragmentIds
  <2>1. run.workflow.steps \in Seq(Steps)
    BY <1>1, ContentsAssumption
  <2>2. \A i \in DOMAIN run.workflow.steps : run.workflow.steps[i] \in Steps
    BY <2>1
  <2> QED
    BY <2>2, FilledStep, NothingAssigned DEF Included
<1>3. found \in Tables
  <2> DEFINE ids == {g \in wanted : rows[g] # None}
  <2>1. ids \subseteq FragmentIds /\ \A f \in ids : rows[f] \in RowFields
    BY <1>2
  <2>2. found \in [ids -> RowFields]
    BY <2>1
  <2> QED
    BY <2>1, <2>2 DEF Tables
<1> HIDE DEF wanted
<1>4. CASE ~(wanted \subseteq DOMAIN found)
  <2>1. next = [run EXCEPT !.pc = "refused", !.found = found]
    BY <1>4 DEF wanted
  <2>2. next \in RunFields /\ next.pc = "refused" /\ UNCHANGED run
        /\ next.workflow = run.workflow
    BY <1>1, <1>3, <2>1 DEF RunFields
  <2> QED
    BY <1>1, <2>2 DEF RunInv, Begun
<1>5. CASE wanted \subseteq DOMAIN found
  <2> DEFINE steps == Expanded(run.workflow.steps, found)
             variables == Merged(run.workflow, found)
             refused == \E i \in DOMAIN steps : IsDirective(steps[i])
             point == IF refused THEN "refused" ELSE "pending"
             r == [run EXCEPT !.found = found]
  <2>1. r.workflow = run.workflow /\ r.found = found
    BY <1>1 DEF RunFields
  <2>2. Ready(r)
    BY <1>1, <1>3, <1>5, <2>1 DEF Ready, wanted
  <2>3. steps \in Seq(Steps) /\ variables \in Assignments
    BY <2>1, <2>2, ExpandedMeans, MergedMeans
  <2>4. next = [run EXCEPT !.pc = point, !.found = found, !.steps = steps, !.variables = variables]
    BY <1>1, <1>5 DEF wanted, Accepted, RunFields
  <2>5. point \in {"refused", "pending"} /\ (point = "pending" <=> ~refused)
    OBVIOUS
  <2> HIDE DEF steps, variables, point, refused, r
  <2>6. /\ next \in RunFields /\ next.pc = point /\ next.found = found /\ next.steps = steps
        /\ next.variables = variables /\ next.workflow = run.workflow
       
    BY <1>1, <1>3, <2>3, <2>4, <2>5 DEF RunFields
  <2>7. Raw(next) = steps /\ Ready(next) /\ variables = Merged(next.workflow, next.found)
    BY <2>1, <2>2, <2>6 DEF Raw, steps, variables, Ready
  <2>8. point = "pending" => \A k \in DOMAIN Raw(next) : ~IsDirective(Raw(next)[k])
    BY <2>5, <2>7 DEF refused
  <2> QED
    BY <1>1, <2>5, <2>6, <2>7, <2>8 DEF RunInv, Begun
<1> QED
  BY <1>4, <1>5

\* Each step is given the values of the declared variables.
LEMMA ResolveRun ==
  ASSUME env \in Assignments, NEW run, RunInv(run), run.pc = "pending", NEW next,
         next = IF Resolvable(run)
                THEN [run EXCEPT !.pc = "running",
                        !.steps = [k \in DOMAIN @ |-> Filled(@[k], Secrets(run))]]
                ELSE [run EXCEPT !.pc = "failed"]
  PROVE  RunInv(next)
<1>1. /\ run \in RunFields /\ run.workflow \in Workflows /\ Ready(run)
      /\ run.variables = Merged(run.workflow, run.found) /\ run.steps = Raw(run)
      /\ \A k \in DOMAIN Raw(run) : ~IsDirective(Raw(run)[k])
  BY DEF RunInv, Begun
<1>2. Raw(run) \in Seq(Steps)
  BY RunSteps
<1>3. CASE ~Resolvable(run)
  <2>1. /\ next \in RunFields /\ next.pc = "failed" /\ next.found = run.found /\ next.steps = run.steps
        /\ next.variables = run.variables /\ next.workflow = run.workflow
        /\ next.overrides = run.overrides
    BY <1>1, <1>3 DEF RunFields
  <2>2. Raw(next) = Raw(run) /\ ~Resolvable(next) /\ Ready(next)
    BY <1>1, <1>3, <2>1, SameValues DEF Raw, Ready
  <2> QED
    BY <1>1, <2>1, <2>2 DEF RunInv, Begun
<1>4. CASE Resolvable(run)
  <2> DEFINE steps == [k \in DOMAIN Raw(run) |-> Filled(Raw(run)[k], Secrets(run))]
  <2>1. steps \in Seq(Steps)
    <3>1. \A k \in DOMAIN Raw(run) : Filled(Raw(run)[k], Secrets(run)) \in Steps
      BY <1>1, <1>2, SecretsType, FilledStep
    <3> QED
      BY <1>2, <3>1
  <2>2. next = [run EXCEPT !.pc = "running", !.steps = steps]
    BY <1>1, <1>4
  <2>3. steps = [k \in DOMAIN Raw(run) |-> Filled(Raw(run)[k], Secrets(run))]
    OBVIOUS
  <2> HIDE DEF steps
  <2>4. /\ next \in RunFields /\ next.pc = "running" /\ next.found = run.found /\ next.steps = steps
        /\ next.variables = run.variables /\ next.workflow = run.workflow
        /\ next.overrides = run.overrides
    BY <1>1, <2>1, <2>2 DEF RunFields
  <2>5. Raw(next) = Raw(run) /\ Resolvable(next) /\ Ready(next) /\ Secrets(next) = Secrets(run)
    BY <1>1, <1>4, <2>4, SameValues DEF Raw, Ready
  <2>6. next.steps = [k \in DOMAIN Raw(next) |-> Filled(Raw(next)[k], Secrets(next))]
    BY <2>3, <2>4, <2>5
  <2>7. next.variables = Merged(next.workflow, next.found) /\ next.workflow \in Workflows
        /\ \A k \in DOMAIN Raw(next) : ~IsDirective(Raw(next)[k])
    BY <1>1, <2>4, <2>5
  <2> QED
    BY <2>4, <2>5, <2>6, <2>7 DEF RunInv, Begun
<1> QED
  BY <1>3, <1>4

-----------------------------------------------------------------------------
(* The invariant of the runs, step by step.                                  *)

\* What holds of the environment and of every run.
TextInv ==
  /\ env \in Environments /\ runs \in [Runs -> RunFields]
  /\ \A r \in Runs : RunInv(runs[r])

\* What is said of a run depends on the state by the environment only.
LEMMA EnvOnly ==
  ASSUME env' = env, NEW run
  PROVE  RunInv(run)' <=> RunInv(run)
<1>1. Values(run)' = Values(run)
  BY DEF Values
<1>2. Resolvable(run)' <=> Resolvable(run)
  BY <1>1 DEF Resolvable, Unresolved
<1>3. Secrets(run)' = Secrets(run)
  BY <1>1 DEF Secrets
<1> QED
  BY <1>2, <1>3 DEF RunInv, Begun, Raw, Ready, RunFields

\* One run changes.
LEMMA Became ==
  ASSUME TextInv, NEW r \in Runs, NEW next, RunInv(next), Becomes(r, next)
  PROVE  TextInv'
<1>1. runs' = [runs EXCEPT ![r] = next] /\ env' = env
  BY DEF Becomes
<1>2. next \in RunFields
  BY DEF RunInv
<1>3. runs' \in [Runs -> RunFields] /\ env' \in Environments
  BY <1>1, <1>2 DEF TextInv
<1>4. ASSUME NEW q \in Runs PROVE RunInv(runs[q])'
  <2>1. PICK run : run = runs'[q]
    OBVIOUS
  <2>2. run = IF q = r THEN next ELSE runs[q]
    BY <1>1, <2>1 DEF TextInv
  <2>3. RunInv(run)
    BY <2>2 DEF TextInv
  <2>4. RunInv(run)'
    BY <1>1, <2>3, EnvOnly
  <2> QED
    BY <2>1, <2>4
<1> QED
  BY <1>3, <1>4 DEF TextInv

\* The other requests leave the runs alone.
LEMMA TextNext == TableInv /\ TextInv /\ [Next]_vars => TextInv'
<1> SUFFICES ASSUME TableInv, TextInv, [Next]_vars PROVE TextInv'
  OBVIOUS
<1>0. \A q \in Runs : RunInv(runs[q]) /\ env \in Assignments
  BY ContentsAssumption DEF TextInv
<1>1. ASSUME UNCHANGED <<env, runs>> PROVE TextInv'
  <2>1. ASSUME NEW q \in Runs PROVE RunInv(runs[q])'
    <3>1. PICK run : run = runs[q]
      OBVIOUS
    <3>2. RunInv(run)'
      BY <1>0, <1>1, <3>1, EnvOnly
    <3> QED
      BY <1>1, <3>1, <3>2
  <2> QED
    BY <1>1, <2>1 DEF TextInv
<1>2. ASSUME NEW w \in Writers,
             \/ \E f \in FragmentIds : \E b \in Sent[f] \cup {None} : Load(w, f, b)
             \/ Create(w) \/ Update(w) \/ Delete(w)
      PROVE  TextInv'
  BY <1>1, <1>2 DEF Load, Create, Update, Delete
<1>3. ASSUME NEW r \in Runs, NEW wf \in Workflows, NEW o \in Overrides, Request(r, wf, o)
      PROVE  TextInv'
  BY <1>3, RequestRun, Became DEF Request
<1>4. ASSUME NEW r \in Runs, NEW wf \in Workflows, Fire(r, wf) PROVE TextInv'
  BY <1>4, FireRun, Became DEF Fire
<1>5. ASSUME NEW r \in Runs, Expand(r) PROVE TextInv'
  <2>1. PICK run : run = runs[r]
    OBVIOUS
  <2>2. PICK found : found = [f \in {g \in Included(run.workflow.steps) : rows[g] # None} |-> rows[f]]
    OBVIOUS
  <2>3. PICK next : next = IF Included(run.workflow.steps) \subseteq DOMAIN found
                THEN Accepted([run EXCEPT !.found = found,
                                 !.steps = Expanded(run.workflow.steps, found),
                                 !.variables = Merged(run.workflow, found)])
                ELSE [run EXCEPT !.pc = "refused", !.found = found]
    OBVIOUS
  <2>4. Becomes(r, next) /\ run.pc = "loaded"
    BY <1>5, <2>1, <2>2, <2>3 DEF Expand
  <2>5. RunInv(next)
    BY <1>0, <2>1, <2>2, <2>3, <2>4, ExpandRun DEF TableInv
  <2> QED
    BY <2>4, <2>5, Became
<1>6. ASSUME NEW r \in Runs, Resolve(r) PROVE TextInv'
  <2>1. PICK run : run = runs[r]
    OBVIOUS
  <2>2. PICK next : next = IF Resolvable(run)
                THEN [run EXCEPT !.pc = "running",
                        !.steps = [k \in DOMAIN @ |-> Filled(@[k], Secrets(run))]]
                ELSE [run EXCEPT !.pc = "failed"]
    OBVIOUS
  <2>3. Becomes(r, next) /\ run.pc = "pending"
    BY <1>6, <2>1, <2>2 DEF Resolve, Secrets
  <2>4. RunInv(next)
    BY <1>0, <2>1, <2>2, <2>3, ResolveRun
  <2> QED
    BY <2>3, <2>4, Became
<1>7. CASE UNCHANGED vars
  BY <1>1, <1>7 DEF vars
<1> QED
  BY <1>2, <1>3, <1>4, <1>5, <1>6, <1>7 DEF Next

\* No run has been asked for.
LEMMA TextInit == Init => TextInv
<1> SUFFICES ASSUME Init PROVE TextInv
  OBVIOUS
<1>1. env \in Environments
  BY DEF Init
<1>2. runs = [r \in Runs |-> NotRun]
  BY DEF Init
<1>3. NotRun.pc = "idle"
  BY DEF NotRun
<1>4. RunInv(NotRun)
  BY <1>3, NotRunType DEF RunInv, Begun
<1> QED
  BY <1>1, <1>2, <1>4, NotRunType DEF TextInv

\* No row has version 0.
Counted == \A f \in FragmentIds : rows[f] # None => rows[f].version >= 1

\* Create starts from 1 and Update counts on.
LEMMA CountedNext == CountInv /\ Counted /\ [Next]_vars => Counted'
<1> SUFFICES ASSUME TableInv, Counted, [Next]_vars PROVE Counted'
  BY DEF CountInv
<1>1. CASE UNCHANGED rows
  BY <1>1 DEF Counted
<1>2. ASSUME NEW w \in Writers, Create(w), ~UNCHANGED rows PROVE Counted'
  <2>1. rows' = [rows EXCEPT ![writers[w].fragment] = Row(w, writers[w].body)]
    BY <1>2 DEF Create
  <2>2. Row(w, writers[w].body).version = 1
    BY DEF Row
  <2> QED
    BY <2>1, <2>2 DEF Counted, TableInv
<1>3. ASSUME NEW w \in Writers, Update(w), ~UNCHANGED rows PROVE Counted'
  <2>1. PICK f \in FragmentIds :
          /\ rows' = [rows EXCEPT ![f] = Written(@, writers[w].seen, writers[w].body)]
          /\ writers[w].seen # None /\ SameRow(rows[f], writers[w].seen)
    BY <1>3 DEF Update, TableInv
  <2>2. writers[w].seen \in RowFields /\ rows[f] \in RowFields
    BY <2>1 DEF TableInv, Writer, SameRow
  <2>3. Written(rows[f], writers[w].seen, writers[w].body).version = writers[w].seen.version + 1
    BY <2>2 DEF Written, RowFields
  <2>4. writers[w].seen.version + 1 >= 1
    BY <2>2 DEF RowFields
  <2> QED
    BY <2>1, <2>3, <2>4 DEF Counted, TableInv
<1>4. ASSUME NEW w \in Writers, Delete(w) PROVE Counted'
  BY <1>4 DEF Delete, Counted, TableInv
<1> QED
  BY <1>1, <1>2, <1>3, <1>4 DEF Next, Load, Request, Fire, Expand, Resolve, Becomes, vars

\* The table, the requests and the runs are of their types: a row's version is at
\* most one more than there are requests, and every step of an accepted run is
\* a step with a text (models.py WorkflowFragment, executions.py).
THEOREM TypeCorrect == Spec => []TypeOK
<1>1. Init => Counted
  BY DEF Init, Counted, Row
<1>2. CountInv /\ Counted /\ TextInv => TypeOK
  <2> SUFFICES ASSUME CountInv, Counted, TextInv PROVE TypeOK
    OBVIOUS
  <2>1. ASSUME NEW f \in FragmentIds, rows[f] # None
        PROVE  rows[f].version \in 1 .. Cardinality(Writers) + 1
    <3>1. Upserts(f) \in SUBSET Writers
      BY DEF Upserts
    <3>2. /\ Cardinality(Upserts(f)) \in Nat /\ Cardinality(Writers) \in Nat
          /\ Cardinality(Upserts(f)) <= Cardinality(Writers)
      BY <3>1, RequestsAssumption, FS_Subset, FS_CardinalityType
    <3>3. rows[f].version <= Count(f)
      BY <2>1 DEF CountInv, NothingComesBack
    <3>4. rows[f].version \in Nat
      BY <2>1 DEF CountInv, TableInv, RowFields
    <3>5. Count(f) <= Cardinality(Writers) + 1 /\ Count(f) \in Nat
      BY <3>2 DEF Count
    <3> QED
      BY <2>1, <3>2, <3>3, <3>4, <3>5 DEF Counted
  <2>2. ASSUME NEW w \in Writers
        PROVE  /\ writers[w].pc \in {"idle", "loaded", "stored", "deleted", "refused"}
               /\ writers[w].seen \in RowFields \cup {None}
    BY DEF CountInv, TableInv, Writer
  <2>3. ASSUME NEW r \in Runs
        PROVE  /\ runs[r].pc \in {"idle", "loaded", "refused", "pending", "failed", "running"}
               /\ runs[r].pc \in {"pending", "failed", "running"} =>
                    \A k \in DOMAIN runs[r].steps :
                      "text" \in DOMAIN runs[r].steps[k] /\ runs[r].steps[k].text \in Texts
    <3>1. RunInv(runs[r]) /\ env \in Assignments
      BY ContentsAssumption DEF TextInv
    <3>2. runs[r].pc \in {"pending", "failed", "running"} =>
            \A k \in DOMAIN runs[r].steps : runs[r].steps[k] \in Plains
      BY <3>1, RunSteps
    <3>3. \A step \in Plains : "text" \in DOMAIN step /\ step.text \in Texts
      BY DEF Plains
    <3>4. runs[r].pc \in {"idle", "loaded", "refused", "pending", "failed", "running"}
      BY <3>1 DEF RunInv, RunFields
    <3> QED
      BY <3>2, <3>3, <3>4
  <2>4. env \in Environments
    BY DEF TextInv
  <2> QED
    BY <2>1, <2>2, <2>3, <2>4 DEF TypeOK, CountInv, TableInv
<1> QED
  BY <1>1, <1>2, CountInit, CountNext, CountedNext, TextInit, TextNext, PTL DEF Spec, CountInv

\* An accepted run has the steps of every fragment in the place of its directive,
\* none lost, none twice, and no directive left (resolve_fragments).
THEOREM ExpansionsInPlace == Spec => []ExpandedInPlace
<1>1. TextInv => ExpandedInPlace
  <2> SUFFICES ASSUME TextInv, NEW r \in Runs, runs[r].pc = "pending"
               PROVE  /\ Len(runs[r].steps) = Cardinality(Places(runs[r]))
                      /\ \A p \in Places(runs[r]) :
                           LET source == Source(runs[r], p[1])[p[2]]
                           IN  /\ runs[r].steps[At(runs[r], p)] = Filled(source, With(runs[r], p[1]))
                               /\ ~IsDirective(source)
    BY Zenon DEF ExpandedInPlace
  <2>1. PICK run : run = runs[r]
    OBVIOUS
  <2>2. /\ Ready(run) /\ run.steps = Raw(run)
        /\ \A k \in DOMAIN Raw(run) : ~IsDirective(Raw(run)[k])
    BY <2>1 DEF TextInv, RunInv
  <2>3. /\ Raw(run) \in Seq(Steps) /\ Len(Raw(run)) = Cardinality(Places(run))
        /\ \A p \in Places(run) :
              /\ At(run, p) \in 1 .. Len(Raw(run))
              /\ Source(run, p[1])[p[2]] \in Steps /\ With(run, p[1]) \in Assignments
              /\ Raw(run)[At(run, p)] = Filled(Source(run, p[1])[p[2]], With(run, p[1]))
    BY <2>2, ExpandedMeans DEF Raw
  <2>4. ASSUME NEW p \in Places(run) PROVE ~IsDirective(Source(run, p[1])[p[2]])
    BY <2>2, <2>3, FilledStep
  <2> QED
    BY <2>1, <2>2, <2>3, <2>4
<1> QED
  BY <1>1, CountInit, CountNext, TextInit, TextNext, PTL DEF Spec, CountInv

\* A token means what its include says of it, then what the run does.
LEMMA MeantIs ==
  ASSUME NEW run, Ready(run), run.variables = Merged(run.workflow, run.found),
         NEW x \in DOMAIN run.variables
  PROVE  Meant(run, x) =
           IF x \in Unresolved(run) \/ Values(run)[x] \in References \ DOMAIN Vault THEN {}
           ELSE {Secret(Values(run)[x])}
<1>1. Default(run, x) = {run.variables[x]}
  BY MergedMeans
<1>2. Values(run)[x] = IF x \in DOMAIN run.overrides THEN run.overrides[x]
                       ELSE IF x \in DOMAIN env THEN env[x] ELSE run.variables[x]
  BY DEF Values
<1>3. x \in Unresolved(run) <=> /\ x \notin DOMAIN run.overrides /\ x \notin DOMAIN env
                                /\ run.variables[x] = Empty
  BY DEF Unresolved
<1> DEFINE given == IF Default(run, x) = {} THEN {}
               ELSE IF x \in DOMAIN run.overrides THEN {run.overrides[x]}
               ELSE IF x \in DOMAIN env THEN {env[x]}
               ELSE Default(run, x) \ {Empty}
<1>4. given = IF x \in Unresolved(run) THEN {} ELSE {Values(run)[x]}
  BY <1>1, <1>2, <1>3
<1>5. Meant(run, x) = {Secret(v) : v \in given \ (References \ DOMAIN Vault)}
  BY DEF Meant
<1> HIDE DEF given
<1> QED
  BY <1>4, <1>5

\* A token means what its include says, then what is declared of it; and a run
\* begins exactly when all its declared variables have a value
\* (resolve_fragments, resolve_variables).
THEOREM TokensHaveValues == Spec => []TokensMeanTheirValues
<1>1. TextInv => TokensMeanTheirValues
  <2> SUFFICES ASSUME TextInv, NEW r \in Runs
               PROVE  LET run == runs[r]
                          Declared_ == {x \in Variables : Default(run, x) # {}}
                      IN  /\ run.pc = "failed" => \E x \in Declared_ : Meant(run, x) = {}
                          /\ Begun(run) =>
                               /\ \A x \in Declared_ : Meant(run, x) # {}
                               /\ \A p \in Places(run) :
                                    LET text == Put(With(run, p[1]), Source(run, p[1])[p[2]].text)
                                    IN  run.steps[At(run, p)].text \in
                                          (IF text \in Declared_ THEN Meant(run, text) ELSE {text})
    BY Zenon DEF TokensMeanTheirValues
  <2>1. PICK run : run = runs[r]
    OBVIOUS
  <2> DEFINE D == {x \in Variables : Default(run, x) # {}}
  <2>2. RunInv(run) /\ run \in RunFields /\ env \in Assignments
    BY <2>1, ContentsAssumption DEF TextInv, RunInv
  <2>3. ASSUME run.pc \in {"failed", "running"}
        PROVE  /\ Ready(run) /\ D = DOMAIN run.variables
               /\ \A x \in D : Meant(run, x) =
                    IF x \in Unresolved(run) \/ Values(run)[x] \in References \ DOMAIN Vault THEN {}
                    ELSE {Secret(Values(run)[x])}
    <3>1. Ready(run) /\ run.variables = Merged(run.workflow, run.found) /\ run.variables \in Assignments
      BY <2>2, <2>3 DEF RunInv, RunFields
    <3>2. D = DOMAIN run.variables
      BY <3>1, MergedMeans, Assigned
    <3> QED
      BY <3>1, <3>2, MeantIs
  <2> HIDE DEF D
  <2>4. ASSUME run.pc = "failed" PROVE \E x \in D : Meant(run, x) = {}
    <3>1. ~Resolvable(run)
      BY <2>2, <2>4 DEF RunInv
    <3>2. \E x \in DOMAIN run.variables :
            x \in Unresolved(run) \/ Values(run)[x] \in References \ DOMAIN Vault
      BY <3>1 DEF Resolvable, Unresolved
    <3> QED
      BY <2>3, <2>4, <3>2
  <2>5. ASSUME Begun(run)
        PROVE  /\ \A x \in D : Meant(run, x) # {}
               /\ \A p \in Places(run) :
                    LET text == Put(With(run, p[1]), Source(run, p[1])[p[2]].text)
                    IN  run.steps[At(run, p)].text \in (IF text \in D THEN Meant(run, text) ELSE {text})
    <3>1. /\ Resolvable(run) /\ Ready(run) /\ D = DOMAIN run.variables
          /\ run.steps = [k \in DOMAIN Raw(run) |-> Filled(Raw(run)[k], Secrets(run))]
          /\ \A k \in DOMAIN Raw(run) : ~IsDirective(Raw(run)[k])
      BY <2>2, <2>3, <2>5 DEF RunInv, Begun
    <3>2. ASSUME NEW x \in D PROVE Meant(run, x) = {Secrets(run)[x]}
      <4>1. ~(x \in Unresolved(run) \/ Values(run)[x] \in References \ DOMAIN Vault)
        BY <3>1 DEF Resolvable
      <4>2. Secrets(run)[x] = Secret(Values(run)[x])
        BY <3>1 DEF Secrets
      <4> QED
        BY <2>3, <2>5, <4>1, <4>2 DEF Begun
    <3>3. Secrets(run) \in Assignments /\ DOMAIN Secrets(run) = D
      BY <2>2, <3>1, SecretsType
    <3>4. /\ Raw(run) \in Seq(Steps)
          /\ \A p \in Places(run) :
              /\ At(run, p) \in 1 .. Len(Raw(run))
              /\ Source(run, p[1])[p[2]] \in Steps /\ With(run, p[1]) \in Assignments
              /\ Raw(run)[At(run, p)] = Filled(Source(run, p[1])[p[2]], With(run, p[1]))
      BY <3>1, ExpandedMeans DEF Raw
    <3>5. ASSUME NEW p \in Places(run), NEW text,
                 text = Put(With(run, p[1]), Source(run, p[1])[p[2]].text)
          PROVE  run.steps[At(run, p)].text \in (IF text \in D THEN Meant(run, text) ELSE {text})
      <4> DEFINE source == Source(run, p[1])[p[2]]
                 raw == Raw(run)[At(run, p)]
      <4>1. At(run, p) \in DOMAIN Raw(run) /\ source \in Steps /\ raw \in Steps
        BY <3>4
      <4>2. ~IsDirective(raw) /\ raw = Filled(source, With(run, p[1])) /\ With(run, p[1]) \in Assignments
        BY <3>1, <3>4, <4>1
      <4>3. run.steps[At(run, p)] = Filled(raw, Secrets(run))
        BY <3>1, <4>1
      <4> HIDE DEF source, raw
      <4>4. ~IsDirective(source) /\ raw.text = Put(With(run, p[1]), source.text)
        BY <4>1, <4>2, FilledStep
      <4>5. run.steps[At(run, p)].text = Put(Secrets(run), raw.text)
        BY <3>3, <4>1, <4>2, <4>3, FilledStep
      <4>6. raw.text = text
        BY <3>5, <4>4 DEF source
      <4> QED
        BY <3>2, <3>3, <4>5, <4>6 DEF Put
    <3> QED
      BY <3>2, <3>5
  <2> QED
    BY <2>1, <2>4, <2>5 DEF D
<1> QED
  BY <1>1, CountInit, CountNext, TextInit, TextNext, PTL DEF Spec, CountInv

=============================================================================
