------------------------ MODULE TransactionalTableProofs ------------------------
EXTENDS TransactionalTable, TLAPS

-----------------------------------------------------------------------------
(* Keys of different kinds, or of different rows, are different keys.       *)

LEMMA KeysDistinct ==
    /\ \A p, q : TupleKey(p) = TupleKey(q) => p = q
    /\ \A v, w : UniqueKey(v) = UniqueKey(w) => v = w
    /\ \A v, w, p, q : NormalKey(v, p) = NormalKey(w, q) => v = w /\ p = q
    /\ \A p, v : TupleKey(p) # UniqueKey(v)
    /\ \A p, q, v : TupleKey(p) # NormalKey(v, q)
    /\ \A q, v, w : UniqueKey(v) # NormalKey(w, q)
BY DEF TupleKey, UniqueKey, NormalKey

LEMMA KeysInKey ==
    /\ \A p \in Pk : TupleKey(p) \in Key
    /\ \A v \in UVal : UniqueKey(v) \in Key
    /\ \A v \in NVal, p \in Pk : NormalKey(v, p) \in Key
BY DEF Key, TupleKeys, UniqueKeys, NormalKeys

LEMMA KeyCases ==
    ASSUME NEW k \in Key
    PROVE  \/ \E p \in Pk : k = TupleKey(p)
           \/ \E v \in UVal : k = UniqueKey(v)
           \/ \E v \in NVal, p \in Pk : k = NormalKey(v, p)
BY DEF Key, TupleKeys, UniqueKeys, NormalKeys

-----------------------------------------------------------------------------
(* A write keeps a map of keys typed when the value fits the key.           *)

LEMMA SetTyped ==
    ASSUME NEW f, NEW A, NEW k \in Key, NEW v, IsKV(f, A),
           \/ \E p \in Pk : k = TupleKey(p) /\ v \in Row
           \/ \E x \in UVal : k = UniqueKey(x) /\ v \in Pk
           \/ \E x \in NVal, p \in Pk : k = NormalKey(x, p) /\ v = p
    PROVE  IsKV([f EXCEPT ![k] = v], A)
<1> DEFINE g == [f EXCEPT ![k] = v]
<1>0. f = [x \in Key |-> f[x]]
  BY DEF IsKV
<1>1. g = [x \in Key |-> IF x = k THEN v ELSE f[x]]
  BY <1>0
<1> HIDE DEF g
<1>2. g = [x \in Key |-> g[x]]
  BY <1>1
<1>3. \A x \in Key : g[x] = IF x = k THEN v ELSE f[x]
  BY <1>1
<1>4. ASSUME NEW p \in Pk PROVE g[TupleKey(p)] \in Row \cup A
  BY <1>3, KeysDistinct, KeysInKey DEF IsKV
<1>5. ASSUME NEW x \in UVal PROVE g[UniqueKey(x)] \in Pk \cup A
  BY <1>3, KeysDistinct, KeysInKey DEF IsKV
<1>6. ASSUME NEW x \in NVal, NEW p \in Pk PROVE g[NormalKey(x, p)] \in {p} \cup A
  BY <1>3, KeysDistinct, KeysInKey DEF IsKV
<1>7. IsKV(g, A)
  BY <1>2, <1>4, <1>5, <1>6 DEF IsKV
<1>8. QED
  BY <1>7 DEF g

LEMMA RemoveTyped ==
    ASSUME NEW f, NEW A, NEW K, IsKV(f, A), None \in A
    PROVE  IsKV(Without(f, K), A)
BY KeysInKey DEF IsKV, Without

LEMMA ViewTyped ==
    ASSUME TypeOK, NEW t \in Txn
    PROVE  IsKV(View(t), {None})
<1> DEFINE f == View(t)
<1>1. IsKV(store, {None}) /\ IsKV(ws[t], {None, Unwritten})
  BY ZenonT(30) DEF TypeOK
<1>2. \A k \in Key : f[k] = IF ws[t][k] = Unwritten THEN store[k] ELSE ws[t][k]
  BY DEF View
<1>3. f = [k \in Key |-> f[k]]
  BY DEF View
<1> HIDE DEF f
<1>4. ASSUME NEW p \in Pk PROVE f[TupleKey(p)] \in Row \cup {None}
  BY <1>1, <1>2, KeysInKey DEF IsKV
<1>5. ASSUME NEW x \in UVal PROVE f[UniqueKey(x)] \in Pk \cup {None}
  BY SMTT(20), ZenonT(30), <1>1, <1>2, KeysInKey DEF IsKV
<1>6. ASSUME NEW x \in NVal, NEW p \in Pk PROVE f[NormalKey(x, p)] \in {p} \cup {None}
  BY SMTT(20), ZenonT(30), <1>1, <1>2, KeysInKey DEF IsKV
<1>7. IsKV(f, {None})
  BY <1>3, <1>4, <1>5, <1>6 DEF IsKV
<1>8. QED
  BY <1>7 DEF f

(* The merge of two disjoint batches over a consistent store.               *)
LEMMA MergeConsistent ==
    ASSUME NEW s, NEW f, NEW g, NEW m, NEW W1, NEW W2,
           IsKV(s, {None}), IsKV(f, {None}), IsKV(g, {None}),
           Consistent(s), Consistent(f), Consistent(g),
           W1 \cap W2 = {},
           \A k \in Key : k \notin W1 => f[k] = s[k],
           \A k \in Key : k \notin W2 => g[k] = s[k],
           \A k \in Key : m[k] = IF k \in W1 THEN f[k] ELSE g[k]
    PROVE  Consistent(m)
<1> USE KeysInKey, NoneAssumption
<1>1. ASSUME NEW pk \in Pk, m[TupleKey(pk)] # None
      PROVE  /\ m[UniqueKey(m[TupleKey(pk)].u)] = pk
             /\ m[NormalKey(m[TupleKey(pk)].n, pk)] = pk
  <2>1. m[TupleKey(pk)] \in Row
    BY <1>1 DEF IsKV
  <2>2. m[TupleKey(pk)].u \in UVal /\ m[TupleKey(pk)].n \in NVal
    BY SMTT(20), ZenonT(30), <2>1 DEF Row
  <2>3. CASE TupleKey(pk) \in W1
    BY SMTT(20), ZenonT(30), <1>1, <2>2, <2>3 DEF Consistent
  <2>4. CASE TupleKey(pk) \notin W1
    BY <1>1, <2>2, <2>4 DEF Consistent
  <2>5. QED
    BY <2>3, <2>4
<1>2. ASSUME NEW v \in UVal, m[UniqueKey(v)] # None
      PROVE  /\ m[TupleKey(m[UniqueKey(v)])] # None
             /\ m[TupleKey(m[UniqueKey(v)])].u = v
  <2>1. m[UniqueKey(v)] \in Pk
    BY SMTT(20), ZenonT(30), <1>2 DEF IsKV
  <2>2. CASE UniqueKey(v) \in W1
    BY SMTT(20), ZenonT(30), <1>2, <2>1, <2>2 DEF Consistent
  <2>3. CASE UniqueKey(v) \notin W1
    BY <1>2, <2>1, <2>3 DEF Consistent
  <2>4. QED
    BY <2>2, <2>3
<1>3. ASSUME NEW v \in NVal, NEW pk \in Pk, m[NormalKey(v, pk)] # None
      PROVE  /\ m[TupleKey(pk)] # None
             /\ m[TupleKey(pk)].n = v
  <2>1. CASE NormalKey(v, pk) \in W1
    BY SMTT(20), ZenonT(30), <1>3, <2>1 DEF Consistent, IsKV
  <2>2. CASE NormalKey(v, pk) \notin W1
    BY SMTT(20), ZenonT(30), <1>3, <2>2 DEF Consistent, IsKV
  <2>3. QED
    BY SMTT(20), ZenonT(30), <2>1, <2>2
<1>4. QED
  BY <1>1, <1>2, <1>3 DEF Consistent

-----------------------------------------------------------------------------
(* What the storage calls of one row do to consistency.                     *)

LEMMA WithoutTyped ==
    ASSUME NEW f, NEW K, IsKV(f, {None})
    PROVE  IsKV(Without(f, K), {None})
BY RemoveTyped

(* del_index on the unique index: the row's tuple and normal entry are now  *)
(* all that is left of it.                                                  *)
LEMMA UniqueEntryRemoved ==
    ASSUME NEW f, IsKV(f, {None}), Consistent(f),
           NEW p \in Pk, NEW r \in Row, NEW A \in SUBSET Row,
           f[TupleKey(p)] = r, r \in A,
           \A s \in A : s = r \/ f[UniqueKey(s.u)] = None
    PROVE  Consistent(Without(Without(f, {UniqueKey(s.u) : s \in A}),
                              {TupleKey(p), NormalKey(r.n, p)}))
<1> DEFINE h == Without(Without(f, {UniqueKey(s.u) : s \in A}),
                        {TupleKey(p), NormalKey(r.n, p)})
<1> USE KeysInKey, KeysDistinct, NoneAssumption
<1>1. ASSUME NEW q \in Pk
      PROVE  h[TupleKey(q)] = IF q = p THEN None ELSE f[TupleKey(q)]
  BY DEF Without
<1>2. ASSUME NEW v \in UVal
      PROVE  h[UniqueKey(v)] = IF v = r.u THEN None ELSE f[UniqueKey(v)]
  BY DEF Without
<1>3. ASSUME NEW v \in NVal, NEW q \in Pk
      PROVE  h[NormalKey(v, q)] = IF v = r.n /\ q = p THEN None ELSE f[NormalKey(v, q)]
  BY DEF Without
<1> HIDE DEF h
<1>4. f[UniqueKey(r.u)] = p /\ f[NormalKey(r.n, p)] = p /\ r.u \in UVal /\ r.n \in NVal
  BY SMTT(20), ZenonT(30) DEF Consistent, Row
<1>5. ASSUME NEW q \in Pk, h[TupleKey(q)] # None
      PROVE  h[UniqueKey(h[TupleKey(q)].u)] = q /\ h[NormalKey(h[TupleKey(q)].n, q)] = q
  <2>1. q # p /\ h[TupleKey(q)] = f[TupleKey(q)] /\ f[TupleKey(q)] \in Row
    BY <1>1, <1>5 DEF IsKV
  <2>2. f[TupleKey(q)].u \in UVal /\ f[TupleKey(q)].n \in NVal
    BY SMTT(20), ZenonT(30), <2>1 DEF Row
  <2>3. QED
    BY <1>2, <1>3, <1>4, <1>5, <2>1, <2>2 DEF Consistent
<1>6. ASSUME NEW v \in UVal, h[UniqueKey(v)] # None
      PROVE  h[TupleKey(h[UniqueKey(v)])] # None /\ h[TupleKey(h[UniqueKey(v)])].u = v
  BY SMTT(20), ZenonT(30), <1>1, <1>2, <1>4, <1>6 DEF Consistent, IsKV
<1>7. ASSUME NEW v \in NVal, NEW q \in Pk, h[NormalKey(v, q)] # None
      PROVE  h[TupleKey(q)] # None /\ h[TupleKey(q)].n = v
  BY <1>1, <1>3, <1>4, <1>7 DEF Consistent
<1>8. Consistent(h)
  BY <1>5, <1>6, <1>7 DEF Consistent
<1>9. QED
  BY <1>8 DEF h

(* del_index on the normal index.                                           *)
LEMMA NormalEntryRemoved ==
    ASSUME NEW f, IsKV(f, {None}),
           NEW p \in Pk, NEW r \in Row, NEW A \in SUBSET Row, r \in A,
           Consistent(Without(f, {TupleKey(p), NormalKey(r.n, p)}))
    PROVE  Consistent(Without(Without(f, {NormalKey(s.n, p) : s \in A}), {TupleKey(p)}))
<1> DEFINE g == Without(f, {TupleKey(p), NormalKey(r.n, p)})
           h == Without(Without(f, {NormalKey(s.n, p) : s \in A}), {TupleKey(p)})
<1>1. g[TupleKey(p)] = None
  BY SMTT(20), ZenonT(30), KeysInKey DEF Without
<1>2. \A v \in NVal : g[NormalKey(v, p)] = None
  BY <1>1 DEF Consistent
<1>3. ASSUME NEW k \in Key PROVE g[k] = h[k]
  <2>1. CASE k \in {NormalKey(s.n, p) : s \in A}
    BY <1>2, <2>1 DEF Without, Row
  <2>2. CASE k \notin {NormalKey(s.n, p) : s \in A}
    BY <2>2 DEF Without
  <2>3. QED
    BY <2>1, <2>2
<1>4. g = h
  BY SMTT(20), ZenonT(30), <1>3 DEF Without
<1>5. QED
  BY <1>4

(* add_index and append_tuple put all three keys of a row that was absent.  *)
LEMMA RowAdded ==
    ASSUME NEW h, NEW m, IsKV(h, {None}), Consistent(h),
           NEW p \in Pk, NEW r \in Row,
           h[TupleKey(p)] = None, h[UniqueKey(r.u)] = None,
           \A k \in Key : m[k] = IF k = TupleKey(p) THEN r
                                 ELSE IF k \in {UniqueKey(r.u), NormalKey(r.n, p)} THEN p
                                 ELSE h[k]
    PROVE  Consistent(m)
<1> USE KeysInKey, KeysDistinct, NoneAssumption
<1>0. r.u \in UVal /\ r.n \in NVal
  BY DEF Row
<1>1. \A q \in Pk : m[TupleKey(q)] = IF q = p THEN r ELSE h[TupleKey(q)]
  OBVIOUS
<1>2. \A v \in UVal : m[UniqueKey(v)] = IF v = r.u THEN p ELSE h[UniqueKey(v)]
  OBVIOUS
<1>3. \A v \in NVal, q \in Pk :
        m[NormalKey(v, q)] = IF v = r.n /\ q = p THEN p ELSE h[NormalKey(v, q)]
  BY SMTT(20), ZenonT(30)
<1>5. ASSUME NEW q \in Pk, m[TupleKey(q)] # None
      PROVE  m[UniqueKey(m[TupleKey(q)].u)] = q /\ m[NormalKey(m[TupleKey(q)].n, q)] = q
  <2>1. CASE q = p
    BY SMTT(20), ZenonT(30), <1>0, <1>1, <1>2, <1>3, <2>1
  <2>2. CASE q # p
    <3>1. m[TupleKey(q)] = h[TupleKey(q)] /\ h[TupleKey(q)] \in Row
      BY <1>1, <1>5, <2>2 DEF IsKV
    <3>2. h[TupleKey(q)].u \in UVal /\ h[TupleKey(q)].n \in NVal
      BY SMTT(20), ZenonT(30), <3>1 DEF Row
    <3>3. QED
      BY SMTT(20), ZenonT(30), <1>2, <1>3, <1>5, <2>2, <3>1, <3>2 DEF Consistent
  <2>3. QED
    BY SMTT(20), ZenonT(30), <2>1, <2>2
<1>6. ASSUME NEW v \in UVal, m[UniqueKey(v)] # None
      PROVE  m[TupleKey(m[UniqueKey(v)])] # None /\ m[TupleKey(m[UniqueKey(v)])].u = v
  BY SMTT(20), ZenonT(30), <1>0, <1>1, <1>2, <1>6 DEF Consistent, IsKV
<1>7. ASSUME NEW v \in NVal, NEW q \in Pk, m[NormalKey(v, q)] # None
      PROVE  m[TupleKey(q)] # None /\ m[TupleKey(q)].n = v
  BY <1>0, <1>1, <1>3, <1>7 DEF Consistent
<1>8. QED
  BY SMTT(20), ZenonT(30), <1>5, <1>6, <1>7 DEF Consistent

-----------------------------------------------------------------------------
(* Type correctness.  The registers are typed together with the variables:  *)
(* the rows an executor writes come from them.                              *)

TypedState == TypeOK /\ \A t \in Txn : RegistersOK(t)

LEMMA EmptyTyped ==
    /\ IsKV([k \in Key |-> None], {None})
    /\ IsKV(EmptyBatch, {None, Unwritten})
    /\ NoTuples \in [Pk -> Row \cup {None}]
    /\ NoRow \in Registers
BY KeysInKey DEF IsKV, EmptyBatch, NoTuples, NoRow, RowDone, Reg, Registers

LEMMA RegTyped ==
    ASSUME NEW op \in {"none", "insert", "overwrite", "update", "delete"},
           NEW pk \in Pk \cup {None}, NEW row \in Row \cup {None},
           NEW npk \in Pk \cup {None}, NEW nrow \in Row \cup {None}
    PROVE  Reg(op, pk, row, npk, nrow) \in Registers
BY DEF Reg, Registers

LEMMA CurTyped ==
    ASSUME TypeOK, NEW t \in Txn, NEW r \in Registers,
           cur' = [cur EXCEPT ![t] = r]
    PROVE  cur' \in [Txn -> Registers]
BY DEF TypeOK

LEMMA InitTyped == Init => TypedState
<1> SUFFICES ASSUME Init PROVE TypedState
  OBVIOUS
<1>1. TypeOK
  BY SMTT(20), ZenonT(30), EmptyTyped DEF Init, TypeOK, PC, Taints
<1>2. ASSUME NEW t \in Txn PROVE RegistersOK(t)
  BY DEF Init, RegistersOK
<1>3. QED
  BY <1>1, <1>2 DEF TypedState

LEMMA CloseTyped ==
    ASSUME TypeOK, NEW t \in Txn, Close(t)
    PROVE  /\ ws' = [x \in Txn |-> ws'[x]]
           /\ \A x \in Txn : IsKV(ws'[x], {None, Unwritten})
           /\ mode' \in [Txn -> {"closed", "auto", "explicit"}]
           /\ stmts' \in [Txn -> Nat]
           /\ pc' \in [Txn -> PC]
           /\ cur' \in [Txn -> Registers]
           /\ todo' \in [Txn -> SUBSET Pk]
           /\ snap' \in [Txn -> [Pk -> Row \cup {None}]]
           /\ acc' \in [Txn -> SUBSET Row]
           /\ inserted' \in [Txn -> SUBSET Pk]
BY ZenonT(30), EmptyTyped DEF TypeOK, Close, PC

LEMMA AbandonTyped ==
    ASSUME TypeOK, NEW t \in Txn, Abandon(t)
    PROVE  TypeOK'
BY ZenonT(30), CloseTyped DEF TypeOK, Abandon

LEMMA SetWS ==
    ASSUME TypeOK, NEW t \in Txn, NEW k \in Key, NEW v, Set(t, k, v),
           \/ \E p \in Pk : k = TupleKey(p) /\ v \in Row
           \/ \E x \in UVal : k = UniqueKey(x) /\ v \in Pk
           \/ \E x \in NVal, p \in Pk : k = NormalKey(x, p) /\ v = p
    PROVE  /\ ws' = [x \in Txn |-> ws'[x]]
           /\ \A x \in Txn : IsKV(ws'[x], {None, Unwritten})
<1>1. IsKV([ws[t] EXCEPT ![k] = v], {None, Unwritten})
  BY ZenonT(30), SetTyped DEF TypeOK
<1>2. ws' = [x \in Txn |-> IF x = t THEN [ws[t] EXCEPT ![k] = v] ELSE ws[x]]
  BY ZenonT(30) DEF Set, TypeOK
<1>3. QED
  BY ZenonT(30), <1>1, <1>2 DEF TypeOK

LEMMA RemoveWS ==
    ASSUME TypeOK, NEW t \in Txn, NEW K, Remove(t, K)
    PROVE  /\ ws' = [x \in Txn |-> ws'[x]]
           /\ \A x \in Txn : IsKV(ws'[x], {None, Unwritten})
<1>0. IsKV(ws[t], {None, Unwritten}) /\ None \in {None, Unwritten}
  BY ZenonT(30) DEF TypeOK
<1>1. IsKV(Without(ws[t], K), {None, Unwritten})
  BY <1>0, RemoveTyped
<1>2. ws' = [x \in Txn |-> IF x = t THEN Without(ws[t], K) ELSE ws[x]]
  BY SMTT(20), ZenonT(30) DEF Remove, TypeOK
<1>3. QED
  BY ZenonT(30), <1>1, <1>2 DEF TypeOK

LEMMA FinishTyped ==
    ASSUME TypeOK, NEW t \in Txn, NEW label \in PC, Finish(t, label)
    PROVE  /\ pc' \in [Txn -> PC]
           /\ cur' \in [Txn -> Registers]
           /\ todo' \in [Txn -> SUBSET Pk]
           /\ snap' \in [Txn -> [Pk -> Row \cup {None}]]
           /\ acc' \in [Txn -> SUBSET Row]
BY EmptyTyped DEF TypeOK, Finish, Goto

LEMMA FailTyped ==
    ASSUME TypeOK, NEW t \in Txn, NEW touched \in BOOLEAN, Fail(t, touched)
    PROVE  TypeOK'
<1>1. CASE Abandon(t)
  BY <1>1, AbandonTyped
<1>2. CASE /\ Finish(t, RestLabel(t))
           /\ taint' = [taint EXCEPT ![t] = @ \cup (IF touched THEN {"torn"} ELSE {})]
           /\ UNCHANGED <<store, ws, stale, txnVars, hazard, inserted>>
  <2>1. RestLabel(t) \in PC
    BY DEF RestLabel, PC
  <2>2. taint' \in [Txn -> SUBSET Taints]
    BY <1>2 DEF TypeOK, Taints
  <2>3. QED
    BY ZenonT(30), <1>2, <2>1, <2>2, FinishTyped DEF TypeOK, txnVars
<1>3. QED
  BY <1>1, <1>2 DEF Fail

LEMMA StepTyped ==
    ASSUME TypedState, NEW t \in Txn, TxnStep(t)
    PROVE  TypeOK'
<1> USE DEF TypedState
<1>1. CASE Begin(t)
  <2>1. PICK m \in Modes :
          /\ mode' = [mode EXCEPT ![t] = m]
          /\ stmts' = [stmts EXCEPT ![t] = IF m = "auto" THEN 1 ELSE MaxStmts]
    BY ZenonT(30), <1>1 DEF Begin
  <2>2. mode' \in [Txn -> {"closed", "auto", "explicit"}] /\ stmts' \in [Txn -> Nat]
    BY <2>1, ModesAssumption, MaxStmtsAssumption DEF TypeOK
  <2>3. QED
    BY ZenonT(30), <1>1, <2>2 DEF TypeOK, Begin, execVars, ghosts
<1>2. CASE Commit(t)
  <2>1. IsKV(store', {None})
    BY ZenonT(30), <1>2, ViewTyped DEF Commit
  <2>2. stale' \in [Txn -> SUBSET Key]
    BY <1>2 DEF Commit, TypeOK, Written
  <2>3. taint' \in [Txn -> SUBSET Taints] /\ hazard' \in SUBSET Taints
    BY <1>2 DEF Commit, TypeOK, Taints
  <2>4. QED
    BY ZenonT(30), <1>2, <2>1, <2>2, <2>3, CloseTyped DEF Commit, TypeOK
<1>3. CASE CommitFails(t) \/ Rollback(t)
  BY SMTT(20), ZenonT(30), <1>3, AbandonTyped DEF CommitFails, Rollback
<1>4. CASE StartStatement(t)
  <2>1. PICK op \in Ops, selected \in SUBSET Pk :
          /\ cur' = [cur EXCEPT ![t] = RowDone(op)]
          /\ todo' = [todo EXCEPT ![t] = selected]
    BY ZenonT(30), <1>4 DEF StartStatement
  <2>2. cur' \in [Txn -> Registers]
    BY ZenonT(30), <2>1, RegTyped, CurTyped, OpsAssumption DEF RowDone
  <2>3. todo' \in [Txn -> SUBSET Pk]
    BY <2>1 DEF TypeOK
  <2>4. stmts' \in [Txn -> Nat]
    BY <1>4 DEF StartStatement, TypeOK
  <2>5. Tuples(store) \in [Pk -> Row \cup {None}]
    BY DEF TypeOK, IsKV, Tuples
  <2>6. snap' \in [Txn -> [Pk -> Row \cup {None}]] /\ pc' \in [Txn -> PC]
    BY SMTT(20), ZenonT(30), <1>4, <2>5 DEF StartStatement, Goto, PC, TypeOK
  <2>7. QED
    BY ZenonT(30), <1>4, <2>2, <2>3, <2>4, <2>6 DEF TypeOK, StartStatement, ghosts
<1>5. CASE EndStatement(t)
  <2>1. RestLabel(t) \in PC
    BY DEF RestLabel, PC
  <2>2. QED
    BY ZenonT(30), <1>5, <2>1, FinishTyped DEF EndStatement, TypeOK, txnVars, ghosts
<1>6. CASE NextFails(t) \/ EvalFails(t)
  BY ZenonT(30), <1>6, FailTyped DEF NextFails, EvalFails
<1>7. CASE NextInserted(t)
  <2>1. PICK pk \in todo[t], row \in Row :
          /\ cur' = [cur EXCEPT ![t] = Reg(cur[t].op, None, None, pk, row)]
          /\ \/ todo' = [todo EXCEPT ![t] = @ \ {pk}]
             \/ UNCHANGED todo
    BY ZenonT(30), <1>7 DEF NextInserted
  <2>2. pk \in Pk
    BY <2>1 DEF TypeOK
  <2>3. todo' \in [Txn -> SUBSET Pk]
    <3>1. CASE todo' = [todo EXCEPT ![t] = @ \ {pk}]
      BY SMTT(20), ZenonT(30), <3>1 DEF TypeOK
    <3>2. QED
      BY <2>1, <3>1 DEF TypeOK
  <2>4. cur' \in [Txn -> Registers]
    BY ZenonT(30), <1>7, <2>1, <2>2, RegTyped, CurTyped DEF NextInserted
  <2>5. QED
    BY ZenonT(30), <1>7, <2>3, <2>4 DEF TypeOK, NextInserted, Goto, PC, Calls, txnVars, ghosts
<1>8. CASE NextScanned(t)
  <2> DEFINE row(pk) == IF ws[t][TupleKey(pk)] = Unwritten
                        THEN snap[t][pk] ELSE ws[t][TupleKey(pk)]
  <2>1. PICK pk \in todo[t] :
          /\ todo' = [todo EXCEPT ![t] = @ \ {pk}]
          /\ IF row(pk) = None
             THEN UNCHANGED <<cur, pc, acc>>
             ELSE /\ cur' = [cur EXCEPT ![t] = Reg(cur[t].op, pk, row(pk), None, None)]
                  /\ acc' = [acc EXCEPT ![t] =
                       IF cur[t].op = "delete" THEN @ \cup {row(pk)} ELSE {row(pk)}]
                  /\ Goto(t, "delU")
    BY ZenonT(30), <1>8 DEF NextScanned
  <2>2. pk \in Pk /\ todo' \in [Txn -> SUBSET Pk]
    BY <2>1 DEF TypeOK
  <2>3. row(pk) \in Row \cup {None}
    BY <2>2 DEF TypeOK, IsKV
  <2> HIDE DEF row
  <2>4. cur' \in [Txn -> Registers]
    BY ZenonT(30), <1>8, <2>1, <2>2, <2>3, RegTyped, CurTyped DEF NextScanned, TypeOK
  <2>5. acc' \in [Txn -> SUBSET Row] /\ pc' \in [Txn -> PC]
    <3>1. CASE row(pk) = None
      BY <2>1, <3>1 DEF TypeOK
    <3>2. CASE row(pk) # None
      <4>1. pc' = [pc EXCEPT ![t] = "delU"]
        BY <2>1, <3>2 DEF Goto
      <4>2. PICK A \in SUBSET Row : acc' = [acc EXCEPT ![t] = A]
        BY SMTT(20), ZenonT(30), <2>1, <2>3, <3>2 DEF TypeOK
      <4>3. QED
        BY <4>1, <4>2 DEF TypeOK, PC, Calls
    <3>3. QED
      BY <3>1, <3>2
  <2>6. QED
    BY ZenonT(30), <1>8, <2>2, <2>4, <2>5 DEF TypeOK, NextScanned, txnVars, ghosts
<1>9. CASE DelUnique(t)
  BY ZenonT(30), <1>9, RemoveWS DEF TypeOK, DelUnique, Goto, PC, Calls, txnVars, ghosts
<1>10. CASE DelNormal(t)
  BY ZenonT(30), <1>10, RemoveWS DEF TypeOK, DelNormal, Goto, PC, Calls, txnVars, ghosts
<1>11. CASE Eval(t)
  <2>1. PICK npk \in Pk, nrow \in Row :
          /\ cur' = [cur EXCEPT ![t] = Reg("update", cur[t].pk, cur[t].row, npk, nrow)]
          /\ Goto(t, IF npk = cur[t].pk THEN "getU" ELSE "remove")
    BY ZenonT(30), <1>11 DEF Eval
  <2>2. cur[t].pk \in Pk /\ cur[t].row \in Row
    BY ZenonT(30), <1>11 DEF Eval, RegistersOK
  <2>3. cur' \in [Txn -> Registers]
    BY ZenonT(30), <2>1, <2>2, RegTyped, CurTyped
  <2>4. QED
    BY ZenonT(30), <1>11, <2>1, <2>3 DEF TypeOK, Eval, Goto, PC, Calls, txnVars, ghosts
<1>12. CASE RemoveTuple(t)
  <2>1. cur' \in [Txn -> Registers]
    BY ZenonT(30), <1>12, RegTyped, CurTyped DEF RemoveTuple, RowDone, TypeOK
  <2>2. pc' \in [Txn -> PC]
    <3>1. \E l \in PC : pc' = [pc EXCEPT ![t] = l]
      BY <1>12 DEF RemoveTuple, Goto, PC, Calls
    <3>2. QED
      BY <3>1 DEF TypeOK
  <2>3. QED
    BY ZenonT(30), <1>12, <2>1, <2>2, RemoveWS DEF TypeOK, RemoveTuple, txnVars, ghosts
<1>13. CASE GetUnique(t)
  BY ZenonT(30), <1>13, FailTyped DEF TypeOK, GetUnique, Goto, PC, Calls, txnVars, ghosts
<1>14. CASE PutUnique(t)
  BY ZenonT(30), <1>14, SetWS, KeysInKey
  DEF TypeOK, PutUnique, RegistersOK, Row, Goto, PC, Calls, txnVars, ghosts
<1>15. CASE PutNormal(t)
  BY ZenonT(30), <1>15, SetWS, KeysInKey
  DEF TypeOK, PutNormal, RegistersOK, Row, Goto, PC, Calls, txnVars, ghosts
<1>16. CASE GetTuple(t)
  <2>1. CASE Fail(t, TRUE)
    BY ZenonT(30), <2>1, FailTyped
  <2>2. CASE /\ inserted' = [inserted EXCEPT ![t] =
                    IF ws[t][TupleKey(cur[t].npk)] = Unwritten
                    THEN @ \cup {cur[t].npk} ELSE @]
             /\ Goto(t, "putT")
             /\ UNCHANGED <<store, ws, stale, txnVars, cur, todo, snap, acc,
                            taint, hazard>>
    <3>1. cur[t].npk \in Pk
      BY <1>16 DEF GetTuple, RegistersOK
    <3>2. QED
      BY ZenonT(30), <2>2, <3>1 DEF TypeOK, Goto, PC, Calls, txnVars
  <2>3. QED
    BY ZenonT(30), <1>16, <2>1, <2>2 DEF GetTuple
<1>17. CASE PutTuple(t)
  <2>1. cur[t].npk \in Pk /\ cur[t].nrow \in Row /\
        cur[t].op \in {"insert", "overwrite", "update"}
    BY <1>17 DEF PutTuple, RegistersOK
  <2>2. cur' \in [Txn -> Registers]
    BY ZenonT(30), <1>17, <2>1, RegTyped, CurTyped DEF PutTuple, RowDone
  <2>3. /\ ws' = [x \in Txn |-> ws'[x]]
        /\ \A x \in Txn : IsKV(ws'[x], {None, Unwritten})
    BY ZenonT(30), <1>17, <2>1, SetWS, KeysInKey DEF PutTuple
  <2>4. taint' \in [Txn -> SUBSET Taints]
    BY <1>17 DEF PutTuple, TypeOK, Taints
  <2>5. todo' \in [Txn -> SUBSET Pk]
    <3>1. todo' = todo \/ todo' = [todo EXCEPT ![t] = @ \ {cur[t].npk}]
      BY ZenonT(30), <1>17 DEF PutTuple
    <3>2. QED
      BY SMTT(20), ZenonT(30), <3>1 DEF TypeOK
  <2>6. pc' = [pc EXCEPT ![t] = "next"]
    BY <1>17 DEF PutTuple, Goto
  <2>7. pc' \in [Txn -> PC]
    BY SMTT(20), ZenonT(30), <2>6 DEF TypeOK, PC
  <2>8. QED
    BY ZenonT(30), <1>17, <2>2, <2>3, <2>4, <2>5, <2>7 DEF TypeOK, PutTuple, txnVars
<1>18. QED
  BY <1>1, <1>2, <1>3, <1>4, <1>5, <1>6, <1>7, <1>8, <1>9, <1>10, <1>11,
     <1>12, <1>13, <1>14, <1>15, <1>16, <1>17 DEF TxnStep

-----------------------------------------------------------------------------
(* Every step but a commit is private to its transaction.                   *)

Private(t) ==
    /\ store' = store
    /\ hazard' = hazard
    /\ \A x \in Txn \ {t} :
        /\ ws'[x] = ws[x] /\ stale'[x] = stale[x] /\ taint'[x] = taint[x]
        /\ pc'[x] = pc[x] /\ cur'[x] = cur[x] /\ snap'[x] = snap[x]
        /\ acc'[x] = acc[x] /\ inserted'[x] = inserted[x]

LEMMA AbandonPrivate ==
    ASSUME TypeOK, NEW t \in Txn, Abandon(t)
    PROVE  Private(t)
BY SMTT(20), ZenonT(30) DEF Abandon, Close, Private, TypeOK

LEMMA FailPrivate ==
    ASSUME TypeOK, NEW t \in Txn, NEW touched, Fail(t, touched)
    PROVE  Private(t)
BY ZenonT(30), AbandonPrivate DEF Fail, Finish, Goto, Private, TypeOK

LEMMA StepPrivate ==
    ASSUME TypeOK, NEW t \in Txn, TxnStep(t), ~Commit(t)
    PROVE  Private(t)
<1>1. CASE Begin(t)
  BY <1>1 DEF Begin, execVars, ghosts, Private, TypeOK
<1>2. CASE CommitFails(t) \/ Rollback(t)
  BY <1>2, AbandonPrivate DEF CommitFails, Rollback
<1>3. CASE NextFails(t) \/ EvalFails(t)
  BY ZenonT(30), <1>3, FailPrivate DEF NextFails, EvalFails
<1>4. CASE StartStatement(t)
  BY SMTT(20), ZenonT(30), <1>4 DEF StartStatement, Goto, ghosts, Private, TypeOK
<1>5. CASE EndStatement(t)
  BY SMTT(20), ZenonT(30), <1>5 DEF EndStatement, Finish, Goto, ghosts, Private, TypeOK
<1>6. CASE NextInserted(t)
  BY SMTT(20), ZenonT(30), <1>6 DEF NextInserted, Goto, ghosts, Private, TypeOK
<1>7. CASE NextScanned(t)
  BY SMTT(20), ZenonT(30), <1>7 DEF NextScanned, Goto, ghosts, Private, TypeOK
<1>8. CASE DelUnique(t)
  BY SMTT(20), ZenonT(30), <1>8 DEF DelUnique, Remove, Goto, ghosts, Private, TypeOK
<1>9. CASE DelNormal(t)
  BY SMTT(20), ZenonT(30), <1>9 DEF DelNormal, Remove, Goto, ghosts, Private, TypeOK
<1>10. CASE Eval(t)
  BY SMTT(20), ZenonT(30), <1>10 DEF Eval, Goto, ghosts, Private, TypeOK
<1>11. CASE RemoveTuple(t)
  BY SMTT(20), ZenonT(30), <1>11 DEF RemoveTuple, Remove, Goto, ghosts, Private, TypeOK
<1>12. CASE GetUnique(t)
  BY ZenonT(30), <1>12, FailPrivate DEF GetUnique, Goto, ghosts, Private, TypeOK
<1>13. CASE PutUnique(t)
  BY <1>13 DEF PutUnique, Set, Goto, ghosts, Private, TypeOK
<1>14. CASE PutNormal(t)
  BY <1>14 DEF PutNormal, Set, Goto, ghosts, Private, TypeOK
<1>15. CASE GetTuple(t)
  BY ZenonT(30), <1>15, FailPrivate DEF GetTuple, Goto, Private, TypeOK
<1>16. CASE PutTuple(t)
  BY <1>16 DEF PutTuple, Set, Goto, Private, TypeOK
<1>17. QED
  BY <1>1, <1>2, <1>3, <1>4, <1>5, <1>6, <1>7, <1>8, <1>9, <1>10, <1>11,
     <1>12, <1>13, <1>14, <1>15, <1>16 DEF TxnStep

LEMMA OthersKeepRegisters ==
    ASSUME NEW t \in Txn, NEW x \in Txn \ {t}, Private(t), RegistersOK(x)
    PROVE  RegistersOK(x)'
BY DEF Private, RegistersOK, Get, IsOverwrite

(* What a write does to the view of the transaction that makes it.          *)
LEMMA ViewAfterSet ==
    ASSUME TypeOK, NEW t \in Txn, NEW k \in Key, NEW v,
           Set(t, k, v), store' = store, v # Unwritten
    PROVE  \A j \in Key : View(t)'[j] = IF j = k THEN v ELSE View(t)[j]
<1>1. IsKV(ws[t], {None, Unwritten})
  BY ZenonT(30) DEF TypeOK
<1>2. ws'[t] = [ws[t] EXCEPT ![k] = v]
  BY DEF Set, TypeOK
<1>3. \A j \in Key : ws'[t][j] = IF j = k THEN v ELSE ws[t][j]
  BY <1>1, <1>2 DEF IsKV
<1>4. QED
  BY <1>3 DEF View

LEMMA ViewAfterRemove ==
    ASSUME TypeOK, NEW t \in Txn, NEW K, Remove(t, K), store' = store
    PROVE  View(t)' = Without(View(t), K)
<1>1. ws'[t] = Without(ws[t], K)
  BY DEF Remove, TypeOK
<1>2. ASSUME NEW j \in Key PROVE View(t)'[j] = Without(View(t), K)[j]
  BY <1>1, UnwrittenAssumption DEF View, Without
<1>3. QED
  BY <1>2 DEF View, Without

LEMMA ViewKept ==
    ASSUME NEW t \in Txn, ws'[t] = ws[t], store' = store
    PROVE  View(t)' = View(t)
BY DEF View

LEMMA ViewAfterAbandon ==
    ASSUME TypeOK, NEW t \in Txn, Abandon(t)
    PROVE  View(t)' = store
<1>1. ws'[t] = EmptyBatch /\ store' = store
  BY DEF Abandon, Close, TypeOK
<1>2. IsKV(store, {None})
  BY DEF TypeOK
<1>3. View(t)' = [k \in Key |-> store[k]]
  BY SMTT(20), ZenonT(30), <1>1 DEF View, EmptyBatch
<1>4. QED
  BY SMTT(20), ZenonT(30), <1>2, <1>3 DEF IsKV

-----------------------------------------------------------------------------
(* The registers an executor fills are those its next call needs.           *)

LEMMA AtRestRegisters ==
    ASSUME NEW t \in Txn, pc[t] \in {"idle", "done"}, acc[t] = {}
    PROVE  RegistersOK(t)
BY SMTT(20), ZenonT(30) DEF RegistersOK

LEMMA AbandonRegisters ==
    ASSUME TypeOK, NEW t \in Txn, Abandon(t)
    PROVE  RegistersOK(t)'
BY DEF TypeOK, Abandon, Close, RegistersOK

LEMMA FailRegisters ==
    ASSUME TypeOK, NEW t \in Txn, NEW touched, Fail(t, touched)
    PROVE  RegistersOK(t)'
<1>1. CASE Abandon(t)
  BY SMTT(20), ZenonT(30), <1>1, AbandonRegisters
<1>2. CASE Finish(t, RestLabel(t))
  BY SMTT(20), ZenonT(30), <1>2 DEF TypeOK, Finish, Goto, RestLabel, RegistersOK
<1>3. QED
  BY <1>1, <1>2 DEF Fail

LEMMA StepRegisters ==
    ASSUME TypedState, NEW t \in Txn, TxnStep(t), ~Commit(t)
    PROVE  RegistersOK(t)'
<1>0. TypeOK /\ RegistersOK(t)
  BY SMTT(20), ZenonT(30) DEF TypedState
<1>1. CASE Begin(t)
  BY SMTT(20), ZenonT(30), <1>0, <1>1 DEF Begin, execVars, ghosts, RegistersOK, Get, IsOverwrite
<1>2. CASE CommitFails(t) \/ Rollback(t)
  BY <1>0, <1>2, AbandonRegisters DEF CommitFails, Rollback
<1>3. CASE NextFails(t) \/ EvalFails(t)
  BY ZenonT(30), <1>0, <1>3, FailRegisters DEF NextFails, EvalFails
<1>4. CASE StartStatement(t)
  BY <1>0, <1>4 DEF StartStatement, Goto, ghosts, RegistersOK, TypeOK
<1>5. CASE EndStatement(t)
  BY <1>0, <1>5 DEF EndStatement, Finish, Goto, RestLabel, ghosts, RegistersOK, TypeOK
<1>6. CASE NextInserted(t)
  <2>1. PICK pk \in todo[t], row \in Row :
          cur' = [cur EXCEPT ![t] = Reg(cur[t].op, None, None, pk, row)]
    BY ZenonT(30), <1>6 DEF NextInserted
  <2>2. pc'[t] = "getU" /\ cur'[t] = Reg(cur[t].op, None, None, pk, row) /\ pk \in Pk
    BY <1>0, <1>6, <2>1 DEF NextInserted, Goto, TypeOK
  <2>3. QED
    BY SMTT(20), ZenonT(30), <1>6, <2>2 DEF NextInserted, Reg, RegistersOK
<1>7. CASE NextScanned(t)
  <2> DEFINE row(pk) == IF ws[t][TupleKey(pk)] = Unwritten
                        THEN snap[t][pk] ELSE ws[t][TupleKey(pk)]
  <2>1. PICK pk \in todo[t] :
          IF row(pk) = None
          THEN UNCHANGED <<cur, pc, acc>>
          ELSE /\ cur' = [cur EXCEPT ![t] = Reg(cur[t].op, pk, row(pk), None, None)]
               /\ acc' = [acc EXCEPT ![t] =
                    IF cur[t].op = "delete" THEN @ \cup {row(pk)} ELSE {row(pk)}]
               /\ Goto(t, "delU")
    BY <1>7 DEF NextScanned
  <2>2. pk \in Pk /\ row(pk) \in Row \cup {None}
    BY SMTT(20), ZenonT(30), <1>0, <2>1 DEF TypeOK, IsKV
  <2> HIDE DEF row
  <2>3. CASE row(pk) = None
    BY ZenonT(30), <1>7, <2>1, <2>3 DEF NextScanned, RegistersOK
  <2>4. CASE row(pk) # None
    <3>1. /\ pc'[t] = "delU" /\ cur'[t] = Reg(cur[t].op, pk, row(pk), None, None)
          /\ row(pk) \in acc'[t]
      BY SMTT(20), ZenonT(30), <1>0, <2>1, <2>4 DEF Goto, TypeOK
    <3>2. QED
      BY SMTT(20), ZenonT(30), <1>7, <2>2, <2>4, <3>1 DEF NextScanned, Reg, RegistersOK
  <2>5. QED
    BY <2>3, <2>4
<1>8. CASE DelUnique(t)
  BY SMTT(20), ZenonT(30), <1>0, <1>8 DEF DelUnique, Goto, ghosts, RegistersOK, TypeOK
<1>9. CASE DelNormal(t)
  BY SMTT(20), ZenonT(30), <1>0, <1>9 DEF DelNormal, Goto, ghosts, RegistersOK, TypeOK
<1>10. CASE Eval(t)
  <2>1. PICK npk \in Pk, nrow \in Row :
          /\ cur' = [cur EXCEPT ![t] = Reg("update", cur[t].pk, cur[t].row, npk, nrow)]
          /\ Goto(t, IF npk = cur[t].pk THEN "getU" ELSE "remove")
    BY ZenonT(30), <1>10 DEF Eval
  <2>2. /\ pc'[t] = IF npk = cur[t].pk THEN "getU" ELSE "remove"
        /\ cur'[t] = Reg("update", cur[t].pk, cur[t].row, npk, nrow)
    BY <1>0, <2>1 DEF Goto, TypeOK
  <2>3. QED
    BY SMTT(20), ZenonT(30), <1>0, <1>10, <2>2 DEF Eval, Reg, RegistersOK
<1>11. CASE RemoveTuple(t)
  BY SMTT(20), ZenonT(30), <1>0, <1>11 DEF RemoveTuple, Goto, RowDone, Reg, ghosts, RegistersOK, TypeOK
<1>12. CASE GetUnique(t)
  BY ZenonT(30), <1>0, <1>12, FailRegisters DEF GetUnique, Goto, ghosts, RegistersOK, TypeOK
<1>13. CASE PutUnique(t)
  BY <1>0, <1>13 DEF PutUnique, Goto, ghosts, RegistersOK, TypeOK
<1>14. CASE PutNormal(t)
  BY SMTT(20), ZenonT(30), <1>0, <1>14 DEF PutNormal, IsOverwrite, Goto, ghosts, RegistersOK, TypeOK
<1>15. CASE GetTuple(t)
  <2>1. CASE Fail(t, TRUE)
    BY ZenonT(30), <1>0, <2>1, FailRegisters
  <2>2. CASE /\ Get(t, TupleKey(cur[t].npk)) = None
             /\ Goto(t, "putT")
             /\ UNCHANGED <<store, ws, cur, acc, taint>>
    BY ZenonT(30), <1>0, <1>15, <2>2 DEF GetTuple, Goto, Get, RegistersOK, TypeOK
  <2>3. QED
    BY ZenonT(30), <1>15, <2>1, <2>2 DEF GetTuple
<1>16. CASE PutTuple(t)
  BY <1>0, <1>16 DEF PutTuple, RowDone, Reg, Goto, RegistersOK, TypeOK
<1>17. QED
  BY SMTT(20), ZenonT(30), <1>1, <1>2, <1>3, <1>4, <1>5, <1>6, <1>7, <1>8, <1>9, <1>10, <1>11,
     <1>12, <1>13, <1>14, <1>15, <1>16 DEF TxnStep

(* A commit resets its own registers and marks the executors it overtakes.  *)
LEMMA CommitRegisters ==
    ASSUME TypedState, NEW t \in Txn, Commit(t), NEW x \in Txn
    PROVE  RegistersOK(x)'
<1>0. TypeOK /\ RegistersOK(x)
  BY SMTT(20), ZenonT(30) DEF TypedState
<1>1. CASE x = t
  BY <1>0, <1>1 DEF Commit, Close, RegistersOK, TypeOK
<1>2. CASE x # t
  <2>1. /\ pc'[x] = pc[x] /\ cur'[x] = cur[x] /\ acc'[x] = acc[x] /\ ws'[x] = ws[x]
    BY SMTT(20), ZenonT(30), <1>0, <1>2 DEF Commit, Close, TypeOK
  <2>2. CASE Written(t) = {}
    <3>1. \A k \in Key : store'[k] = store[k]
      BY SMTT(20), ZenonT(30), <2>2 DEF Commit, View, Written
    <3>2. taint'[x] = taint[x]
      BY SMTT(20), ZenonT(30), <1>0, <1>2, <2>2 DEF Commit, TypeOK
    <3>3. QED
      BY ZenonT(30), <1>0, <2>1, <3>1, <3>2, KeysInKey DEF RegistersOK, Get, IsOverwrite
  <2>3. CASE Written(t) # {}
    <3>1. MidStatement(x) => "race" \in taint'[x]
      BY <1>0, <1>2, <2>3 DEF Commit, TypeOK
    <3>2. QED
      BY ZenonT(30), <1>0, <2>1, <3>1 DEF RegistersOK, MidStatement, Calls, IsOverwrite
  <2>4. QED
    BY SMTT(20), ZenonT(30), <2>2, <2>3
<1>3. QED
  BY <1>1, <1>2

(* Every variable keeps its type, in every execution.                       *)
LEMMA NextTyped == TypedState /\ [Next]_vars => TypedState'
<1> SUFFICES ASSUME TypedState, [Next]_vars PROVE TypedState'
  BY SMTT(20), ZenonT(30)
<1>1. CASE UNCHANGED vars
  BY ZenonT(30), <1>1 DEF TypedState, TypeOK, vars, RegistersOK, Get, IsOverwrite
<1>2. CASE Crash
  <2>1. TypeOK'
    BY <1>2, EmptyTyped DEF Crash, TypedState, TypeOK, PC
  <2>2. ASSUME NEW x \in Txn PROVE RegistersOK(x)'
    BY ZenonT(30), <1>2 DEF Crash, RegistersOK
  <2>3. QED
    BY <2>1, <2>2 DEF TypedState
<1>3. CASE \E t \in Txn : TxnStep(t)
  <2>1. PICK t \in Txn : TxnStep(t)
    BY <1>3
  <2>2. TypeOK'
    BY <2>1, StepTyped
  <2>3. ASSUME NEW x \in Txn PROVE RegistersOK(x)'
    <3>1. CASE Commit(t)
      BY <3>1, CommitRegisters
    <3>2. CASE ~Commit(t) /\ x = t
      BY <2>1, <3>2, StepRegisters
    <3>3. CASE ~Commit(t) /\ x # t
      BY <2>1, <3>3, StepPrivate, OthersKeepRegisters DEF TypedState
    <3>4. QED
      BY <3>1, <3>2, <3>3
  <2>4. QED
    BY <2>2, <2>3 DEF TypedState
<1>4. QED
  BY <1>1, <1>2, <1>3 DEF Next

(* Type correctness: the stored rows, the write batches and the executors'  *)
(* registers (storage/mod.rs, execution/dml) are always well typed.         *)
THEOREM TypeCorrect == Spec => []TypeOK
<1>1. TypedState => TypeOK
  BY SMTT(20), ZenonT(30) DEF TypedState
<1>2. QED
  BY <1>1, InitTyped, NextTyped, PTL DEF Spec

-----------------------------------------------------------------------------
(* The executors: each storage call takes the view of its transaction from  *)
(* what RowInProgress says before it to what it says after it.              *)

LEMMA OthersKeepView ==
    ASSUME NEW t \in Txn, NEW x \in Txn \ {t}, Private(t), RowInProgress(x)
    PROVE  RowInProgress(x)'
<1>1. /\ View(x)' = View(x) /\ Base(x)' = Base(x) /\ Tuples(store)' = Tuples(store)
      /\ MidStatement(x)' = MidStatement(x)
  BY ZenonT(30) DEF Private, View, Base, Tuples, MidStatement
<1>2. pc'[x] = pc[x] /\ cur'[x] = cur[x] /\ acc'[x] = acc[x] /\ snap'[x] = snap[x]
  BY ZenonT(30) DEF Private
<1>3. QED
  BY ZenonT(30), <1>1, <1>2 DEF RowInProgress

LEMMA AtRestView ==
    ASSUME NEW t \in Txn, pc[t] \in {"idle", "done"}, Consistent(View(t))
    PROVE  RowInProgress(t)
BY ZenonT(30) DEF RowInProgress, MidStatement, Calls

Untouched(t) == taint[t] = {} /\ stale[t] = {}

LEMMA AbandonRow ==
    ASSUME TypeOK, NEW t \in Txn, Abandon(t), Consistent(store)
    PROVE  RowInProgress(t)'
<1>1. pc'[t] = "idle"
  BY DEF Abandon, Close, TypeOK
<1>2. Consistent(View(t)')
  BY SMTT(20), ZenonT(30), ViewAfterAbandon
<1>3. QED
  BY SMTT(20), ZenonT(30), <1>1, <1>2 DEF RowInProgress, MidStatement, Calls

LEMMA FailRow ==
    ASSUME TypeOK, NEW t \in Txn, NEW touched \in BOOLEAN, Fail(t, touched),
           Consistent(store), Untouched(t)', touched \/ Consistent(View(t))
    PROVE  RowInProgress(t)'
<1>1. CASE Abandon(t)
  BY SMTT(20), ZenonT(30), <1>1, AbandonRow
<1>2. CASE /\ Finish(t, RestLabel(t))
           /\ taint' = [taint EXCEPT ![t] = @ \cup (IF touched THEN {"torn"} ELSE {})]
           /\ UNCHANGED <<store, ws, stale, txnVars, hazard, inserted>>
  <2>1. ~touched
    BY SMTT(20), ZenonT(30), <1>2 DEF Untouched, TypeOK
  <2>2. pc'[t] \in {"idle", "done"}
    BY SMTT(20), ZenonT(30), <1>2 DEF Finish, Goto, RestLabel, TypeOK
  <2>3. View(t)' = View(t)
    BY SMTT(20), ZenonT(30), <1>2, ViewKept
  <2>4. QED
    BY ZenonT(30), <2>1, <2>2, <2>3 DEF RowInProgress, MidStatement, Calls
<1>3. QED
  BY <1>1, <1>2 DEF Fail

LEMMA StartRow ==
    ASSUME TypedState, NEW t \in Txn, RowInProgress(t), StartStatement(t)
    PROVE  RowInProgress(t)'
<1>1. TypeOK /\ RegistersOK(t)
  BY SMTT(20), ZenonT(30) DEF TypedState
<1>2. /\ pc[t] = "idle" /\ pc'[t] = "next" /\ acc'[t] = {}
      /\ View(t)' = View(t) /\ snap'[t] = Tuples(store) /\ Tuples(store)' = Tuples(store)
  BY SMTT(20), ZenonT(30), <1>1, ViewKept DEF StartStatement, Goto, TypeOK, RegistersOK
<1>3. QED
  BY ZenonT(30), <1>2 DEF RowInProgress

LEMMA EndRow ==
    ASSUME TypedState, NEW t \in Txn, RowInProgress(t), EndStatement(t)
    PROVE  RowInProgress(t)'
<1>1. pc[t] = "next" /\ pc'[t] \in {"idle", "done"} /\ View(t)' = View(t)
  BY SMTT(20), ZenonT(30), ViewKept DEF EndStatement, Finish, Goto, RestLabel, TypedState, TypeOK
<1>2. QED
  BY ZenonT(30), <1>1 DEF RowInProgress, MidStatement, Calls

LEMMA NextInsertedRow ==
    ASSUME TypedState, NEW t \in Txn, RowInProgress(t), NextInserted(t)
    PROVE  RowInProgress(t)'
<1>1. PICK pk \in todo[t], row \in Row :
        cur' = [cur EXCEPT ![t] = Reg(cur[t].op, None, None, pk, row)]
  BY ZenonT(30) DEF NextInserted
<1>2. /\ pc[t] = "next" /\ pc'[t] = "getU" /\ View(t)' = View(t)
      /\ cur'[t].op # "update" /\ snap'[t] = snap[t] /\ Tuples(store)' = Tuples(store)
  BY <1>1, ViewKept DEF NextInserted, Goto, TypedState, TypeOK, Reg
<1>3. Base(t)' = View(t)'
  BY ZenonT(30), <1>2 DEF Base
<1>4. QED
  BY ZenonT(30), <1>2, <1>3 DEF RowInProgress, MidStatement

LEMMA NextScannedRow ==
    ASSUME TypedState, NEW t \in Txn, RowInProgress(t), NextScanned(t)
    PROVE  RowInProgress(t)'
<1> DEFINE row(pk) == IF ws[t][TupleKey(pk)] = Unwritten
                      THEN snap[t][pk] ELSE ws[t][TupleKey(pk)]
<1>1. PICK pk \in todo[t] :
        IF row(pk) = None
        THEN UNCHANGED <<cur, pc, acc>>
        ELSE /\ cur' = [cur EXCEPT ![t] = Reg(cur[t].op, pk, row(pk), None, None)]
             /\ acc' = [acc EXCEPT ![t] =
                  IF cur[t].op = "delete" THEN @ \cup {row(pk)} ELSE {row(pk)}]
             /\ Goto(t, "delU")
  BY ZenonT(30) DEF NextScanned
<1>2. pk \in Pk
  BY SMTT(20), ZenonT(30), <1>1 DEF TypedState, TypeOK
<1>3. /\ pc[t] = "next" /\ View(t)' = View(t) /\ snap'[t] = snap[t]
      /\ Tuples(store)' = Tuples(store) /\ snap[t] = Tuples(store)
  BY ZenonT(30), ViewKept DEF NextScanned, RowInProgress, MidStatement
<1>4. row(pk) = View(t)[TupleKey(pk)]
  BY SMTT(20), ZenonT(30), <1>2, <1>3, KeysInKey DEF Tuples, View
<1> HIDE DEF row
<1>5. CASE row(pk) = None
  <2>1. cur'[t] = cur[t] /\ pc'[t] = pc[t] /\ acc'[t] = acc[t]
    BY ZenonT(30), <1>1, <1>5
  <2>2. QED
    BY ZenonT(30), <1>3, <2>1 DEF RowInProgress, MidStatement
<1>6. CASE row(pk) # None
  <2>1. /\ pc'[t] = "delU"
        /\ cur'[t] = Reg(cur[t].op, pk, row(pk), None, None)
        /\ acc'[t] = IF cur[t].op = "delete" THEN acc[t] \cup {row(pk)} ELSE {row(pk)}
    BY SMTT(20), ZenonT(30), <1>1, <1>6 DEF Goto, TypedState, TypeOK
  <2>2. cur'[t].pk = pk /\ cur'[t].row = row(pk)
    BY SMTT(20), ZenonT(30), <2>1 DEF Reg
  <2>3. \A r \in acc'[t] : r = row(pk) \/ View(t)[UniqueKey(r.u)] = None
    <3>1. cur[t].op = "delete" => \A r \in acc[t] : View(t)[UniqueKey(r.u)] = None
      BY <1>3, ZenonT(30) DEF RowInProgress
    <3>2. QED
      <4>1. SUFFICES ASSUME NEW r \in acc'[t], r # row(pk)
                     PROVE  View(t)[UniqueKey(r.u)] = None
        OBVIOUS
      <4>2. cur[t].op = "delete" /\ r \in acc[t]
        BY <2>1, <4>1
      <4>3. QED
        BY <3>1, <4>2, ZenonT(30)
  <2>4. Consistent(View(t)) /\ View(t)[TupleKey(pk)] = cur'[t].row
    BY ZenonT(30), <1>3, <1>4, <2>2 DEF RowInProgress, MidStatement, Calls
  <2>5. QED
    BY ZenonT(30), <1>3, <2>1, <2>2, <2>3, <2>4 DEF RowInProgress, MidStatement, Calls
<1>7. QED
  BY SMTT(20), ZenonT(30), <1>5, <1>6

LEMMA DelUniqueRow ==
    ASSUME TypedState, NEW t \in Txn, RowInProgress(t), DelUnique(t)
    PROVE  RowInProgress(t)'
<1> DEFINE f == View(t)
           c == cur[t]
           K == {UniqueKey(r.u) : r \in acc[t]}
<1>1. /\ TypeOK /\ RegistersOK(t) /\ IsKV(f, {None}) /\ acc[t] \in SUBSET Row
  BY ZenonT(30), ViewTyped DEF TypedState, TypeOK
<1>2. /\ pc[t] = "delU" /\ pc'[t] = "delN" /\ cur'[t] = c /\ acc'[t] = acc[t]
      /\ snap'[t] = snap[t] /\ Tuples(store)' = Tuples(store)
  BY <1>1 DEF DelUnique, Goto, TypeOK
<1>3. View(t)' = Without(f, K)
  BY <1>1, ViewAfterRemove DEF DelUnique
<1>4. c.pk \in Pk /\ c.row \in Row /\ c.row \in acc[t]
  BY <1>1, <1>2 DEF RegistersOK
<1>5. /\ Consistent(f) /\ f[TupleKey(c.pk)] = c.row
      /\ \A r \in acc[t] : r = c.row \/ f[UniqueKey(r.u)] = None
      /\ snap[t] = Tuples(store)
  BY ZenonT(30), <1>2 DEF RowInProgress, MidStatement, Calls
<1>6. Consistent(Without(Without(f, K), {TupleKey(c.pk), NormalKey(c.row.n, c.pk)}))
  BY ZenonT(30), <1>1, <1>4, <1>5, UniqueEntryRemoved
<1>7. \A r \in acc[t] : Without(f, K)[UniqueKey(r.u)] = None
  BY SMTT(20), ZenonT(30), <1>1, KeysInKey DEF Without, Row
<1> HIDE DEF f, K
<1>8. QED
  BY ZenonT(30), <1>2, <1>3, <1>5, <1>6, <1>7 DEF RowInProgress, MidStatement, Calls

LEMMA DelNormalRow ==
    ASSUME TypedState, NEW t \in Txn, RowInProgress(t), DelNormal(t)
    PROVE  RowInProgress(t)'
<1> DEFINE f == View(t)
           c == cur[t]
           K == {NormalKey(r.n, c.pk) : r \in acc[t]}
<1>1. /\ TypeOK /\ RegistersOK(t) /\ IsKV(f, {None}) /\ acc[t] \in SUBSET Row
  BY ViewTyped, SMTT(20), ZenonT(30) DEF TypedState, TypeOK
<1>2. /\ pc[t] = "delN" /\ pc'[t] \in {"remove", "eval"} /\ cur'[t] = c
      /\ acc'[t] = acc[t] /\ snap'[t] = snap[t] /\ Tuples(store)' = Tuples(store)
  BY SMTT(20), ZenonT(30), <1>1 DEF DelNormal, Goto, TypeOK
<1>3. View(t)' = Without(f, K)
  BY ZenonT(30), <1>1, ViewAfterRemove DEF DelNormal
<1>4. c.pk \in Pk /\ c.row \in Row /\ c.row \in acc[t]
  BY ZenonT(30), <1>1, <1>2 DEF RegistersOK
<1>5. /\ Consistent(Without(f, {TupleKey(c.pk), NormalKey(c.row.n, c.pk)}))
      /\ c.op = "delete" => \A r \in acc[t] : f[UniqueKey(r.u)] = None
      /\ snap[t] = Tuples(store)
  BY ZenonT(30), <1>2 DEF RowInProgress, MidStatement, Calls
<1>6. Consistent(Without(Without(f, K), {TupleKey(c.pk)}))
  BY SMTT(20), ZenonT(30), <1>1, <1>4, <1>5, NormalEntryRemoved
<1>7. c.op = "delete" => \A r \in acc[t] : Without(f, K)[UniqueKey(r.u)] = None
  BY SMTT(20), ZenonT(30), <1>1, <1>5, KeysInKey DEF Without, Row
<1> HIDE DEF f, K
<1>8. QED
  BY ZenonT(30), <1>2, <1>3, <1>5, <1>6, <1>7 DEF RowInProgress, MidStatement, Calls

LEMMA EvalRow ==
    ASSUME TypedState, NEW t \in Txn, RowInProgress(t), Eval(t)
    PROVE  RowInProgress(t)'
<1>1. PICK npk \in Pk, nrow \in Row :
        /\ cur' = [cur EXCEPT ![t] = Reg("update", cur[t].pk, cur[t].row, npk, nrow)]
        /\ Goto(t, IF npk = cur[t].pk THEN "getU" ELSE "remove")
  BY ZenonT(30) DEF Eval
<1>2. /\ pc[t] = "eval" /\ pc'[t] = IF npk = cur[t].pk THEN "getU" ELSE "remove"
      /\ cur'[t] = Reg("update", cur[t].pk, cur[t].row, npk, nrow)
      /\ View(t)' = View(t) /\ snap'[t] = snap[t] /\ Tuples(store)' = Tuples(store)
  BY <1>1, ViewKept DEF Eval, Goto, TypedState, TypeOK
<1>3. cur'[t].op = "update" /\ cur'[t].pk = cur[t].pk /\ cur'[t].npk = npk
  <2> DEFINE r == Reg("update", cur[t].pk, cur[t].row, npk, nrow)
  <2>1. r.op = "update" /\ r.pk = cur[t].pk /\ r.npk = npk
    BY DEF Reg
  <2>2. cur'[t] = r
    BY <1>2
  <2> HIDE DEF r
  <2>3. QED
    BY <2>1, <2>2, ZenonT(30)
<1>4. Consistent(Without(View(t), {TupleKey(cur[t].pk)})) /\ snap[t] = Tuples(store)
  BY ZenonT(30), <1>2 DEF RowInProgress, MidStatement, Calls
<1>5. npk = cur[t].pk => Base(t)' = Without(View(t), {TupleKey(cur[t].pk)})
  BY <1>2, <1>3 DEF Base
<1>6. QED
  BY ZenonT(30), <1>2, <1>3, <1>4, <1>5 DEF RowInProgress, MidStatement, Calls

LEMMA RemoveRow ==
    ASSUME TypedState, NEW t \in Txn, RowInProgress(t), RemoveTuple(t)
    PROVE  RowInProgress(t)'
<1> DEFINE f == View(t)
           c == cur[t]
<1>1. /\ TypeOK /\ RegistersOK(t)
  BY SMTT(20), ZenonT(30) DEF TypedState
<1>2. pc[t] = "remove" /\ acc'[t] = acc[t] /\ snap'[t] = snap[t]
      /\ Tuples(store)' = Tuples(store)
  BY ZenonT(30) DEF RemoveTuple
<1>3. View(t)' = Without(f, {TupleKey(c.pk)})
  BY SMTT(20), ZenonT(30), <1>1, ViewAfterRemove DEF RemoveTuple
<1>4. /\ Consistent(Without(f, {TupleKey(c.pk)})) /\ snap[t] = Tuples(store)
      /\ c.op = "delete" => \A r \in acc[t] : f[UniqueKey(r.u)] = None
  BY ZenonT(30), <1>2 DEF RowInProgress, MidStatement, Calls
<1>5. CASE c.op = "delete"
  <2>1. pc'[t] = "next"
    BY SMTT(20), ZenonT(30), <1>1, <1>5 DEF RemoveTuple, Goto, TypeOK
  <2>2. \A r \in acc[t] : Without(f, {TupleKey(c.pk)})[UniqueKey(r.u)] = None
    BY SMTT(20), ZenonT(30), <1>1, <1>4, <1>5, KeysInKey DEF Without, Row, TypeOK
  <2> HIDE DEF f
  <2>3. QED
    BY ZenonT(30), <1>2, <1>3, <1>4, <2>1, <2>2 DEF RowInProgress, MidStatement
<1>6. CASE c.op # "delete"
  <2>1. pc'[t] = "getU" /\ cur'[t] = c
    BY SMTT(20), ZenonT(30), <1>1, <1>6 DEF RemoveTuple, Goto, TypeOK
  <2>2. c.npk # c.pk
    BY SMTT(20), ZenonT(30), <1>1, <1>2, <1>6 DEF RegistersOK
  <2>3. Base(t)' = View(t)'
    BY SMTT(20), ZenonT(30), <2>1, <2>2 DEF Base
  <2> HIDE DEF f
  <2>4. QED
    BY ZenonT(30), <1>2, <1>3, <1>4, <2>1, <2>3 DEF RowInProgress, MidStatement, Calls
<1>7. QED
  BY <1>5, <1>6

(* The base view: typed, and equal to the view at every index key.          *)
LEMMA BaseFacts ==
    ASSUME TypedState, NEW t \in Txn
    PROVE  /\ IsKV(Base(t), {None})
           /\ \A v \in UVal : Base(t)[UniqueKey(v)] = View(t)[UniqueKey(v)]
           /\ \A v \in NVal, p \in Pk : Base(t)[NormalKey(v, p)] = View(t)[NormalKey(v, p)]
<1>1. IsKV(View(t), {None})
  BY ViewTyped DEF TypedState
<1>2. IsKV(Without(View(t), {TupleKey(cur[t].npk)}), {None})
  BY SMTT(20), ZenonT(30), <1>1, WithoutTyped
<1>3. QED
  BY ZenonT(30), <1>1, <1>2, KeysInKey, KeysDistinct DEF Base, Without

LEMMA BaseKept ==
    ASSUME NEW t \in Txn, View(t)' = View(t), cur'[t] = cur[t]
    PROVE  Base(t)' = Base(t)
BY SMTT(20), ZenonT(30) DEF Base

LEMMA GetUniqueRow ==
    ASSUME TypedState, NEW t \in Txn, RowInProgress(t), GetUnique(t),
           Consistent(store), Untouched(t)'
    PROVE  RowInProgress(t)'
<1> DEFINE c == cur[t]
           found == Get(t, UniqueKey(c.nrow.u))
<1>1. TypeOK /\ RegistersOK(t) /\ pc[t] = "getU"
  BY ZenonT(30) DEF TypedState, GetUnique
<1>2. c.npk \in Pk /\ c.nrow.u \in UVal /\ c.nrow.n \in NVal
      /\ c.op \in {"insert", "overwrite", "update"}
  BY ZenonT(30), <1>1 DEF RegistersOK, Row
<1>3. found = View(t)[UniqueKey(c.nrow.u)] /\ found = Base(t)[UniqueKey(c.nrow.u)]
  BY ZenonT(30), <1>2, BaseFacts, KeysInKey DEF Get, View
<1>4. Consistent(Base(t)) /\ snap[t] = Tuples(store)
  BY ZenonT(30), <1>1 DEF RowInProgress, MidStatement, Calls
<1>5. CASE /\ found \in {None, c.npk}
           /\ Goto(t, IF found = None THEN "putU" ELSE "putN")
           /\ UNCHANGED <<store, ws, stale, txnVars, cur, todo, snap, acc, ghosts>>
  <2>1. /\ View(t)' = View(t) /\ cur'[t] = c /\ snap'[t] = snap[t]
        /\ Tuples(store)' = Tuples(store)
    BY SMTT(20), ZenonT(30), <1>5, ViewKept
  <2>2. Base(t)' = Base(t)
    BY SMTT(20), ZenonT(30), <2>1, BaseKept
  <2>3. CASE found = None
    <3>1. pc'[t] = "putU"
      BY SMTT(20), ZenonT(30), <1>1, <1>5, <2>3 DEF Goto, TypeOK
    <3>2. QED
      BY ZenonT(30), <1>3, <1>4, <2>1, <2>2, <2>3, <3>1 DEF RowInProgress, MidStatement, Calls
  <2>4. CASE found # None
    <3>1. pc'[t] = "putN" /\ found = c.npk
      BY SMTT(20), ZenonT(30), <1>1, <1>5, <2>4 DEF Goto, TypeOK
    <3>2. Base(t)[TupleKey(c.npk)] # None
      <4>1. Base(t)[UniqueKey(c.nrow.u)] = c.npk /\ c.npk # None
        BY ZenonT(30), <1>3, <2>4, <3>1
      <4>2. QED
        <5>1. \A v \in UVal : Base(t)[UniqueKey(v)] # None
                 => Base(t)[TupleKey(Base(t)[UniqueKey(v)])] # None
          BY <1>4, ZenonT(30) DEF Consistent
        <5>2. QED
          BY <1>2, <4>1, <5>1, ZenonT(30)
    <3>3. QED
      BY ZenonT(30), <1>3, <1>4, <2>1, <2>2, <3>1, <3>2 DEF RowInProgress, MidStatement, Calls
  <2>5. QED
    BY SMTT(20), ZenonT(30), <2>3, <2>4
<1>6. CASE Fail(t, c.op = "update")
  <2>1. c.op # "update" => Base(t) = View(t)
    BY DEF Base
  <2>2. (c.op = "update") \in BOOLEAN
    OBVIOUS
  <2>3. QED
    BY ZenonT(30), <1>1, <1>4, <1>6, <2>1, <2>2, FailRow
<1>7. QED
  BY SMTT(20), ZenonT(30), <1>5, <1>6 DEF GetUnique

LEMMA PutUniqueRow ==
    ASSUME TypedState, NEW t \in Txn, RowInProgress(t), PutUnique(t)
    PROVE  RowInProgress(t)'
<1> DEFINE c == cur[t]
           k == UniqueKey(c.nrow.u)
           E == {UniqueKey(c.nrow.u), NormalKey(c.nrow.n, c.npk)}
<1>1. TypeOK /\ RegistersOK(t) /\ pc[t] = "putU" /\ pc'[t] = "putN" /\ cur'[t] = c
      /\ snap'[t] = snap[t] /\ Tuples(store)' = Tuples(store)
  BY ZenonT(30) DEF TypedState, TypeOK, PutUnique, Goto
<1>2. c.npk \in Pk /\ c.nrow \in Row /\ c.nrow.u \in UVal /\ c.nrow.n \in NVal
      /\ c.npk # Unwritten /\ c.npk # None
  BY <1>1, NoneAssumption, UnwrittenAssumption DEF RegistersOK, Row
<1>3. k \in Key /\ \A p : k # TupleKey(p)
  BY <1>2, KeysInKey, KeysDistinct
<1>4. \A j \in Key : View(t)'[j] = IF j = k THEN c.npk ELSE View(t)[j]
  <2>1. Set(t, k, c.npk) /\ store' = store
    BY SMTT(20), ZenonT(30) DEF PutUnique
  <2>2. TypeOK /\ k \in Key /\ c.npk # Unwritten
    BY <1>1, <1>2, <1>3, ZenonT(30)
  <2> HIDE DEF c, k
  <2>3. QED
    BY <2>1, <2>2, ViewAfterSet, ZenonT(30)
<1>5. \A j \in Key : Base(t)'[j] = IF j = k THEN c.npk ELSE Base(t)[j]
  <2>1. cur'[t] = cur[t]
    BY ZenonT(30), <1>1
  <2> HIDE DEF c, k
  <2>2. QED
    BY <1>3, <1>4, <2>1, SMTT(60) DEF Base, Without
<1>6. /\ Consistent(Base(t)) /\ View(t)[k] = None /\ Base(t)[k] = None
      /\ snap[t] = Tuples(store)
  BY ZenonT(30), <1>1, <1>2, BaseFacts DEF RowInProgress, MidStatement, Calls
<1>7. Base(t)'[TupleKey(c.npk)] = Base(t)[TupleKey(c.npk)]
  BY ZenonT(30), <1>2, <1>3, <1>5, KeysInKey
<1>8. Base(t)'[TupleKey(c.npk)] # c.nrow
  BY ZenonT(30), <1>2, <1>6, <1>7, NoneAssumption DEF Consistent
<1>9. ASSUME Base(t)'[TupleKey(c.npk)] = None
      PROVE  Consistent(Without(Base(t)', E))
  <2>1. Base(t)[NormalKey(c.nrow.n, c.npk)] = None
    BY ZenonT(30), <1>2, <1>6, <1>7, <1>9 DEF Consistent
  <2>2. ASSUME NEW j \in Key PROVE Without(Base(t)', E)[j] = Base(t)[j]
    BY ZenonT(30), <1>5, <1>6, <2>1 DEF Without
  <2>3. IsKV(Base(t), {None})
    BY SMTT(20), ZenonT(30), BaseFacts
  <2>4. Without(Base(t)', E) = Base(t)
    BY SMTT(20), ZenonT(30), <2>2, <2>3 DEF Without, IsKV
  <2>5. QED
    BY ZenonT(30), <1>6, <2>4
<1>10. View(t)'[k] = c.npk
  BY SMTT(20), ZenonT(30), <1>3, <1>4
<1>11. QED
  BY ZenonT(30), <1>1, <1>6, <1>8, <1>9, <1>10 DEF RowInProgress, MidStatement, Calls

LEMMA PutNormalRow ==
    ASSUME TypedState, NEW t \in Txn, RowInProgress(t), PutNormal(t)
    PROVE  RowInProgress(t)'
<1> DEFINE c == cur[t]
           k == NormalKey(c.nrow.n, c.npk)
           E == {UniqueKey(c.nrow.u), NormalKey(c.nrow.n, c.npk)}
<1>1. TypeOK /\ RegistersOK(t) /\ pc[t] = "putN" /\ pc'[t] \in {"getT", "putT"}
      /\ cur'[t] = c /\ snap'[t] = snap[t] /\ Tuples(store)' = Tuples(store)
  BY ZenonT(30) DEF TypedState, TypeOK, PutNormal, Goto
<1>2. c.npk \in Pk /\ c.nrow \in Row /\ c.nrow.u \in UVal /\ c.nrow.n \in NVal
      /\ c.npk # Unwritten /\ c.npk # None
  BY ZenonT(30), <1>1, NoneAssumption, UnwrittenAssumption DEF RegistersOK, Row
<1>3. k \in Key /\ \A p : k # TupleKey(p)
  BY SMTT(20), ZenonT(30), <1>2, KeysInKey, KeysDistinct
<1>4. \A j \in Key : View(t)'[j] = IF j = k THEN c.npk ELSE View(t)[j]
  <2>1. Set(t, k, c.npk) /\ store' = store
    BY ZenonT(30) DEF PutNormal
  <2>2. TypeOK /\ k \in Key /\ c.npk # Unwritten
    BY <1>1, <1>2, <1>3, ZenonT(30)
  <2> HIDE DEF c, k
  <2>3. QED
    BY <2>1, <2>2, ViewAfterSet, ZenonT(30)
<1>5. \A j \in Key : Base(t)'[j] = IF j = k THEN c.npk ELSE Base(t)[j]
  <2>1. cur'[t] = cur[t]
    BY SMTT(20), ZenonT(30), <1>1
  <2> HIDE DEF c, k
  <2>2. QED
    BY <1>3, <1>4, <2>1, SMTT(60) DEF Base, Without
<1>6. /\ View(t)[UniqueKey(c.nrow.u)] = c.npk
      /\ Base(t)[TupleKey(c.npk)] = None => Consistent(Without(Base(t), E))
      /\ Base(t)[TupleKey(c.npk)] = c.nrow => Consistent(Base(t))
      /\ snap[t] = Tuples(store)
  BY ZenonT(30), <1>1 DEF RowInProgress, MidStatement, Calls
<1>7. Base(t)'[TupleKey(c.npk)] = Base(t)[TupleKey(c.npk)]
  BY SMTT(20), ZenonT(30), <1>2, <1>3, <1>5, KeysInKey
<1>8. Without(Base(t)', E) = Without(Base(t), E)
  BY ZenonT(30), <1>5 DEF Without
<1>9. ASSUME Base(t)'[TupleKey(c.npk)] = c.nrow
      PROVE  Consistent(Base(t)')
  <2>1. Base(t)[k] = c.npk
    <3>1. Base(t)[TupleKey(c.npk)] = c.nrow /\ c.nrow # None /\ Consistent(Base(t))
      BY SMTT(20), ZenonT(30), <1>2, <1>6, <1>7, <1>9, NoneAssumption
    <3>2. QED
      BY SMTT(20), ZenonT(30), <1>2, <3>1 DEF Consistent
  <2>2. \A j \in Key : Base(t)'[j] = Base(t)[j]
    BY ZenonT(30), <1>5, <2>1
  <2>3. IsKV(Base(t), {None}) /\ Base(t)' = [j \in Key |-> Base(t)'[j]]
    BY ZenonT(30), BaseFacts DEF Base, View, Without
  <2>4. Base(t)' = Base(t)
    BY SMTT(20), ZenonT(30), <2>2, <2>3 DEF IsKV
  <2>5. QED
    BY SMTT(20), ZenonT(30), <1>6, <1>7, <1>9, <2>4
<1>10. View(t)'[k] = c.npk /\ View(t)'[UniqueKey(c.nrow.u)] = c.npk
  BY ZenonT(30), <1>2, <1>3, <1>4, <1>6, KeysInKey, KeysDistinct
<1>11. QED
  BY ZenonT(30), <1>1, <1>6, <1>7, <1>8, <1>9, <1>10 DEF RowInProgress, MidStatement, Calls

LEMMA GetTupleRow ==
    ASSUME TypedState, NEW t \in Txn, RowInProgress(t), GetTuple(t),
           Consistent(store), Untouched(t)'
    PROVE  RowInProgress(t)'
<1>1. TypeOK /\ RegistersOK(t) /\ pc[t] = "getT"
  BY SMTT(20), ZenonT(30) DEF TypedState, GetTuple
<1>2. CASE Fail(t, TRUE)
  BY ZenonT(30), <1>1, <1>2, FailRow
<1>3. CASE Goto(t, "putT") /\ UNCHANGED <<store, ws, cur, snap, acc>>
  <2>1. /\ View(t)' = View(t) /\ cur'[t] = cur[t] /\ snap'[t] = snap[t]
        /\ Tuples(store)' = Tuples(store)
    BY SMTT(20), ZenonT(30), <1>3, ViewKept
  <2>2. Base(t)' = Base(t) /\ pc'[t] = "putT"
    BY SMTT(20), ZenonT(30), <1>1, <1>3, <2>1, BaseKept DEF Goto, TypeOK
  <2>3. QED
    BY ZenonT(30), <1>1, <2>1, <2>2 DEF RowInProgress, MidStatement, Calls
<1>4. QED
  BY ZenonT(30), <1>2, <1>3 DEF GetTuple

LEMMA PutTupleRow ==
    ASSUME TypedState, NEW t \in Txn, RowInProgress(t), PutTuple(t),
           Untouched(t), Untouched(t)'
    PROVE  RowInProgress(t)'
<1> DEFINE c == cur[t]
           k == TupleKey(c.npk)
           E == {UniqueKey(c.nrow.u), NormalKey(c.nrow.n, c.npk)}
<1>1. TypeOK /\ RegistersOK(t) /\ pc[t] = "putT" /\ pc'[t] = "next"
      /\ cur'[t] = RowDone(c.op) /\ snap'[t] = snap[t] /\ Tuples(store)' = Tuples(store)
  BY ZenonT(30) DEF TypedState, TypeOK, PutTuple, Goto
<1>2. c.npk \in Pk /\ c.nrow \in Row /\ c.nrow.u \in UVal /\ c.nrow.n \in NVal
      /\ c.nrow # Unwritten /\ c.nrow # None /\ c.op \in {"insert", "overwrite", "update"}
  BY ZenonT(30), <1>1, NoneAssumption, UnwrittenAssumption DEF RegistersOK, Row
<1>3. k \in Key /\ cur'[t].op = c.op
  <2>1. k \in Key
    BY <1>2, KeysInKey
  <2>2. QED
    <3>1. RowDone(c.op).op = c.op
      BY DEF RowDone, Reg
    <3> HIDE DEF c
    <3>2. cur'[t].op = c.op
      BY <1>1, <3>1, ZenonT(30)
    <3>3. QED
      BY <2>1, <3>2
<1>4. \A j \in Key : View(t)'[j] = IF j = k THEN c.nrow ELSE View(t)[j]
  <2>1. Set(t, k, c.nrow) /\ store' = store
    BY ZenonT(30) DEF PutTuple
  <2>2. TypeOK /\ k \in Key /\ c.nrow # Unwritten
    BY <1>1, <1>2, <1>3, ZenonT(30)
  <2> HIDE DEF c, k
  <2>3. QED
    BY <2>1, <2>2, ViewAfterSet, ZenonT(30)
<1>5. /\ View(t)[UniqueKey(c.nrow.u)] = c.npk /\ View(t)[NormalKey(c.nrow.n, c.npk)] = c.npk
      /\ Base(t)[k] = None => Consistent(Without(Base(t), E))
      /\ Base(t)[k] = c.nrow => Consistent(Base(t))
      /\ snap[t] = Tuples(store)
  BY ZenonT(30), <1>1 DEF RowInProgress, MidStatement, Calls
<1>6. \A j \in Key : j # k => Base(t)[j] = View(t)[j]
  BY SMTT(20), ZenonT(30) DEF Base, Without
<1>7. Base(t)[k] \in {None, c.nrow}
  <2>1. CASE c.op = "overwrite"
    <3>1. Get(t, k) \in {None, c.nrow}
      BY SMTT(20), ZenonT(30), <1>1, <2>1 DEF PutTuple, Untouched, TypeOK
    <3>2. QED
      BY SMTT(20), ZenonT(30), <1>3, <2>1, <3>1 DEF Base, Get, View
  <2>2. CASE c.op = "update" /\ c.npk = c.pk
    BY ZenonT(30), <1>3, <2>2 DEF Base, Without
  <2>3. CASE ~IsOverwrite(t)
    <3>1. Get(t, k) = None
      BY ZenonT(30), <1>1, <2>3 DEF RegistersOK, Untouched
    <3>2. QED
      BY SMTT(20), ZenonT(30), <1>3, <2>3, <3>1 DEF Base, Get, View, IsOverwrite
  <2>4. QED
    BY SMTT(20), ZenonT(30), <2>1, <2>2, <2>3 DEF IsOverwrite
<1>8. Consistent(View(t)')
  <2>1. CASE Base(t)[k] = None
    <3> DEFINE h == Without(Base(t), E)
    <3>1. IsKV(h, {None}) /\ Consistent(h)
      BY ZenonT(30), <1>5, <2>1, BaseFacts, WithoutTyped
    <3>2. h[k] = None /\ h[UniqueKey(c.nrow.u)] = None
      BY ZenonT(30), <1>2, <1>3, <2>1, KeysInKey DEF Without
    <3>3. \A j \in Key : View(t)'[j] = IF j = k THEN c.nrow
                                       ELSE IF j \in E THEN c.npk ELSE h[j]
      BY ZenonT(30), <1>4, <1>5, <1>6 DEF Without
    <3> HIDE DEF h
    <3>4. QED
      BY ZenonT(30), <1>2, <3>1, <3>2, <3>3, RowAdded
  <2>2. CASE Base(t)[k] = c.nrow
    <3>1. \A j \in Key : View(t)'[j] = Base(t)[j]
      BY SMTT(20), ZenonT(30), <1>4, <1>6, <2>2
    <3>2. IsKV(Base(t), {None}) /\ View(t)' = [j \in Key |-> View(t)'[j]]
      BY ZenonT(30), BaseFacts DEF View
    <3>3. View(t)' = Base(t)
      BY <3>1, <3>2 DEF IsKV
    <3>4. QED
      BY ZenonT(30), <1>5, <2>2, <3>3
  <2>3. QED
    BY ZenonT(30), <1>7, <2>1, <2>2
<1>9. QED
  BY ZenonT(30), <1>1, <1>2, <1>3, <1>5, <1>8 DEF RowInProgress, MidStatement

-----------------------------------------------------------------------------
(* A commit.  The transactions it meets between statements keep a           *)
(* consistent view because their batches are disjoint from the committed    *)
(* one: MergeConsistent.                                                    *)

LEMMA CommitRow ==
    ASSUME TypedState, ExecutorsConsistent, NEW t \in Txn, Commit(t), hazard' = {},
           NEW x \in Txn, Untouched(x)'
    PROVE  Consistent(store') /\ RowInProgress(x)'
<1>1. TypeOK /\ hazard = {} /\ taint[t] = {} /\ stale[t] = {}
  BY ZenonT(30) DEF TypedState, Commit, TypeOK
<1>2. Consistent(store) /\ RowInProgress(t)
  BY ZenonT(30), <1>1 DEF ExecutorsConsistent
<1>3. pc[t] \in {"idle", "done"}
  BY SMTT(20), ZenonT(30) DEF Commit, AtRest
<1>4. Consistent(View(t)) /\ store' = View(t)
  BY ZenonT(30), <1>2, <1>3 DEF RowInProgress, Commit
<1>5. IsKV(store, {None}) /\ IsKV(View(t), {None}) /\ IsKV(View(x), {None})
  BY ZenonT(30), <1>1, ViewTyped DEF TypeOK
<1>6. CASE x = t
  <2>1. pc'[x] = "idle" /\ ws'[x] = EmptyBatch
    BY SMTT(20), ZenonT(30), <1>1, <1>6 DEF Commit, Close, TypeOK
  <2>2. View(x)' = [k \in Key |-> store'[k]]
    BY ZenonT(30), <2>1 DEF View, EmptyBatch
  <2>3. View(x)' = store'
    BY SMTT(20), ZenonT(30), <1>4, <1>5, <2>2 DEF IsKV
  <2>4. QED
    BY ZenonT(30), <1>4, <2>1, <2>3 DEF RowInProgress, MidStatement, Calls
<1>7. CASE x # t
  <2>1. /\ pc'[x] = pc[x] /\ cur'[x] = cur[x] /\ acc'[x] = acc[x] /\ ws'[x] = ws[x]
        /\ snap'[x] = snap[x]
    BY SMTT(20), ZenonT(30), <1>1, <1>7 DEF Commit, Close, TypeOK
  <2>2. /\ taint[x] = {} /\ stale[x] = {} /\ Written(x) \cap Written(t) = {}
        /\ Written(t) # {} => ~MidStatement(x)
    BY ZenonT(30), <1>1, <1>7 DEF Commit, Untouched, TypeOK
  <2>3. RowInProgress(x)
    BY ZenonT(30), <1>1, <2>2 DEF ExecutorsConsistent
  <2>4. CASE Written(t) = {}
    <3>1. \A k \in Key : store'[k] = store[k]
      BY ZenonT(30), <1>4, <2>4 DEF View, Written
    <3>2. store' = store
      BY SMTT(20), ZenonT(30), <1>4, <1>5, <3>1 DEF IsKV
    <3>3. /\ View(x)' = View(x) /\ Base(x)' = Base(x) /\ Tuples(store)' = Tuples(store)
          /\ MidStatement(x)' = MidStatement(x)
      BY ZenonT(30), <2>1, <3>2 DEF View, Base, Tuples, MidStatement
    <3>4. QED
      BY ZenonT(30), <1>4, <2>1, <2>3, <3>3 DEF RowInProgress
  <2>5. CASE Written(t) # {}
    <3>1. pc[x] \in {"idle", "done"}
      BY SMTT(20), ZenonT(30), <1>1, <2>2, <2>5 DEF TypeOK, PC, MidStatement
    <3>2. Consistent(View(x))
      BY ZenonT(30), <2>3, <3>1 DEF RowInProgress
    <3>3. \A k \in Key : k \notin Written(x) => View(x)[k] = store[k]
      BY SMTT(20), ZenonT(30) DEF Written, View
    <3>4. \A k \in Key : k \notin Written(t) => View(t)[k] = store[k]
      BY SMTT(20), ZenonT(30) DEF Written, View
    <3>5. \A k \in Key : View(x)'[k] = IF k \in Written(x) THEN View(x)[k] ELSE View(t)[k]
      BY SMTT(20), ZenonT(30), <1>4, <2>1 DEF View, Written
    <3>6. Consistent(View(x)')
      <4>1. Consistent(store) /\ Consistent(View(t)) /\ Written(x) \cap Written(t) = {}
        BY <1>2, <1>4, <2>2, ZenonT(30)
      <4>2. QED
        BY <1>5, <3>2, <3>3, <3>4, <3>5, <4>1, MergeConsistent, SMTT(60), ZenonT(60)
    <3>7. QED
      BY ZenonT(30), <1>4, <2>1, <3>1, <3>6 DEF RowInProgress, MidStatement, Calls
  <2>6. QED
    BY SMTT(20), ZenonT(30), <2>4, <2>5
<1>8. QED
  BY SMTT(20), ZenonT(30), <1>6, <1>7

LEMMA StepRow ==
    ASSUME TypedState, ExecutorsConsistent, NEW t \in Txn, TxnStep(t), ~Commit(t),
           hazard' = {}, Untouched(t)'
    PROVE  RowInProgress(t)'
<1>1. TypeOK /\ Private(t)
  BY StepPrivate DEF TypedState
<1>2. hazard = {} /\ Consistent(store)
  BY <1>1 DEF Private, ExecutorsConsistent
<1>3. CASE CommitFails(t) \/ Rollback(t)
  BY SMTT(20), ZenonT(30), <1>1, <1>2, <1>3, AbandonRow DEF CommitFails, Rollback
<1>4. CASE Untouched(t)
  <2>1. RowInProgress(t)
    BY ZenonT(30), <1>2, <1>4 DEF ExecutorsConsistent, Untouched
  <2>2. CASE Begin(t)
    <3>1. /\ View(t)' = View(t) /\ Base(t)' = Base(t) /\ Tuples(store)' = Tuples(store)
          /\ MidStatement(t)' = MidStatement(t) /\ UNCHANGED <<pc, cur, acc, snap>>
      BY ZenonT(30), <2>2 DEF Begin, execVars, View, Base, Tuples, MidStatement
    <3>2. QED
      BY ZenonT(30), <2>1, <3>1 DEF RowInProgress
  <2>3. CASE NextFails(t)
    <3>1. Consistent(View(t))
      BY ZenonT(30), <2>1, <2>3 DEF NextFails, RowInProgress
    <3>2. QED
      BY ZenonT(30), <1>1, <1>2, <2>3, <3>1, FailRow DEF NextFails
  <2>4. CASE EvalFails(t)
    BY ZenonT(30), <1>1, <1>2, <2>4, FailRow DEF EvalFails
  <2>5. QED
    BY SMTT(20), ZenonT(30), <1>2, <1>3, <1>4, <2>1, <2>2, <2>3, <2>4, StartRow, EndRow, NextInsertedRow,
       NextScannedRow, DelUniqueRow, DelNormalRow, EvalRow, RemoveRow, GetUniqueRow,
       PutUniqueRow, PutNormalRow, GetTupleRow, PutTupleRow DEF TxnStep
<1>5. CASE ~Untouched(t) /\ ~CommitFails(t) /\ ~Rollback(t)
  (* Only dropping the transaction clears its taint or its stale keys.       *)
  <2>1. ASSUME NEW touched, Fail(t, touched), ~Abandon(t) PROVE FALSE
    BY <1>1, <1>5, <2>1 DEF Fail, Untouched, TypeOK
  <2>2. Abandon(t) \/ (taint[t] \subseteq taint'[t] /\ stale'[t] = stale[t])
    <3>1. CASE NextFails(t) \/ EvalFails(t)
      BY ZenonT(30), <2>1, <3>1 DEF NextFails, EvalFails
    <3>2. CASE GetUnique(t)
      BY ZenonT(30), <2>1, <3>2 DEF GetUnique, ghosts
    <3>3. CASE GetTuple(t)
      BY ZenonT(30), <2>1, <3>3 DEF GetTuple
    <3>4. CASE PutTuple(t)
      BY <1>1, <3>4 DEF PutTuple, TypeOK
    <3>5. CASE Begin(t) \/ StartStatement(t) \/ EndStatement(t)
      BY ZenonT(30), <3>5 DEF Begin, StartStatement, EndStatement, ghosts
    <3>6. CASE NextInserted(t) \/ NextScanned(t) \/ DelUnique(t) \/ DelNormal(t)
      BY ZenonT(30), <3>6 DEF NextInserted, NextScanned, DelUnique, DelNormal, ghosts
    <3>7. CASE Eval(t) \/ RemoveTuple(t) \/ PutUnique(t) \/ PutNormal(t)
      BY ZenonT(30), <3>7 DEF Eval, RemoveTuple, PutUnique, PutNormal, ghosts
    <3>8. QED
      BY ZenonT(30), <1>5, <3>1, <3>2, <3>3, <3>4, <3>5, <3>6, <3>7 DEF TxnStep
  <2>3. Abandon(t)
    BY ZenonT(30), <1>5, <2>2 DEF Untouched
  <2>4. QED
    BY <1>1, <1>2, <2>3, AbandonRow
<1>6. QED
  BY <1>3, <1>4, <1>5

LEMMA NextConsistent == TypedState /\ ExecutorsConsistent /\ [Next]_vars
                            => ExecutorsConsistent'
<1> SUFFICES ASSUME TypedState, ExecutorsConsistent, [Next]_vars
             PROVE  ExecutorsConsistent'
  OBVIOUS
<1>0. \A t \in Txn : RegistersOK(t)'
  BY SMTT(20), ZenonT(30), NextTyped DEF TypedState
<1> SUFFICES ASSUME hazard' = {}
             PROVE  /\ Consistent(store')
                    /\ \A x \in Txn : Untouched(x)' => RowInProgress(x)'
  BY ZenonT(30), <1>0 DEF ExecutorsConsistent, Untouched
<1>1. CASE UNCHANGED vars
  <2>1. Consistent(store')
    BY SMTT(20), ZenonT(30), <1>1 DEF vars, ExecutorsConsistent
  <2>2. ASSUME NEW x \in Txn, Untouched(x)' PROVE RowInProgress(x)'
    <3>1. /\ View(x)' = View(x) /\ Base(x)' = Base(x) /\ Tuples(store)' = Tuples(store)
          /\ MidStatement(x)' = MidStatement(x) /\ UNCHANGED <<pc, cur, acc, snap>>
      BY SMTT(20), ZenonT(30), <1>1 DEF vars, View, Base, Tuples, MidStatement
    <3>2. RowInProgress(x)
      BY <1>1, <2>2 DEF vars, ExecutorsConsistent, Untouched
    <3>3. QED
      BY ZenonT(30), <3>1, <3>2 DEF RowInProgress
  <2>3. QED
    BY SMTT(20), ZenonT(30), <2>1, <2>2
<1>2. CASE Crash
  <2>1. Consistent(store')
    BY SMTT(20), ZenonT(30), <1>2 DEF Crash, ExecutorsConsistent
  <2>2. ASSUME NEW x \in Txn PROVE RowInProgress(x)'
    <3>1. pc'[x] = "idle" /\ ws'[x] = EmptyBatch /\ store' = store
      BY SMTT(20), ZenonT(30), <1>2 DEF Crash
    <3>2. IsKV(store, {None}) /\ View(x)' = [k \in Key |-> store[k]]
      BY SMTT(20), ZenonT(30), <3>1 DEF View, EmptyBatch, TypedState, TypeOK
    <3>3. View(x)' = store'
      BY SMTT(20), ZenonT(30), <3>1, <3>2 DEF IsKV
    <3>4. QED
      BY ZenonT(30), <2>1, <3>1, <3>3 DEF RowInProgress, MidStatement, Calls
  <2>3. QED
    BY SMTT(20), ZenonT(30), <2>1, <2>2
<1>3. CASE \E t \in Txn : TxnStep(t)
  <2>1. PICK t \in Txn : TxnStep(t)
    BY <1>3
  <2>2. CASE Commit(t)
    <3>1. Untouched(t)'
      BY <2>2 DEF Commit, Untouched
    <3>2. QED
      BY SMTT(20), ZenonT(30), <2>2, <3>1, CommitRow
  <2>3. CASE ~Commit(t)
    <3>1. Private(t)
      BY SMTT(20), ZenonT(30), <2>1, <2>3, StepPrivate DEF TypedState
    <3>2. Consistent(store')
      BY <3>1 DEF Private, ExecutorsConsistent
    <3>3. ASSUME NEW x \in Txn, Untouched(x)' PROVE RowInProgress(x)'
      <4>1. CASE x = t
        BY SMTT(20), ZenonT(30), <2>1, <2>3, <3>3, <4>1, StepRow
      <4>2. CASE x # t
        <5>1. RowInProgress(x)
          BY SMTT(20), ZenonT(30), <3>1, <3>3, <4>2 DEF Private, Untouched, ExecutorsConsistent
        <5>2. QED
          BY SMTT(20), ZenonT(30), <3>1, <4>2, <5>1, OthersKeepView
      <4>3. QED
        BY <4>1, <4>2
    <3>4. QED
      BY <3>2, <3>3
  <2>4. QED
    BY <2>2, <2>3
<1>4. QED
  BY <1>1, <1>2, <1>3 DEF Next

LEMMA EmptyConsistent == Consistent([k \in Key |-> None])
<1>1. \A p \in Pk : [k \in Key |-> None][TupleKey(p)] = None
  BY KeysInKey
<1>2. \A v \in UVal : [k \in Key |-> None][UniqueKey(v)] = None
  BY KeysInKey
<1>3. \A v \in NVal, p \in Pk : [k \in Key |-> None][NormalKey(v, p)] = None
  BY SMTT(20), ZenonT(30), KeysInKey
<1>4. QED
  BY SMTT(20), ZenonT(30), <1>1, <1>2, <1>3 DEF Consistent

LEMMA InitConsistent == Init => ExecutorsConsistent
<1> SUFFICES ASSUME Init PROVE ExecutorsConsistent
  OBVIOUS
<1>1. Consistent(store)
  BY SMTT(20), ZenonT(30), EmptyConsistent DEF Init
<1>2. ASSUME NEW t \in Txn PROVE RowInProgress(t)
  <2>1. pc[t] = "idle" /\ View(t) = store
    BY DEF Init, View, EmptyBatch
  <2>2. QED
    BY SMTT(20), ZenonT(30), <1>1, <2>1, AtRestView
<1>3. QED
  BY SMTT(20), ZenonT(30), <1>1, <1>2, InitTyped DEF TypedState, ExecutorsConsistent

(* Between any two storage calls, an executor that no commit has overtaken  *)
(* is off a consistent view by the calls of its current row only.           *)
THEOREM ExecutorsCorrect == Spec => []ExecutorsConsistent
BY InitTyped, NextTyped, InitConsistent, NextConsistent, PTL DEF Spec

(* The committed tuples and the two indexes describe the same rows, however *)
(* many transactions overlap, until a commit brings in a hazard: a          *)
(* statement overtaken by a commit, a torn row, or an INSERT OVERWRITE      *)
(* (execution/dml/insert.rs, update.rs, delete.rs over rocksdb.rs).         *)
THEOREM IndexesCorrect == Spec => []IndexConsistent
<1>1. ExecutorsConsistent => IndexConsistent
  BY DEF ExecutorsConsistent, IndexConsistent
<1>2. QED
  BY <1>1, ExecutorsCorrect, PTL

(* A transaction reads consistent tuples and index entries between its      *)
(* statements, until a commit overtakes one of its writes (rocksdb.rs get). *)
THEOREM ReadsCorrect == Spec => []ReadsConsistent
<1>1. TypedState /\ ExecutorsConsistent => ReadsConsistent
  <2> SUFFICES ASSUME TypedState, ExecutorsConsistent, NEW t \in Txn, hazard = {},
                      taint[t] = {}, stale[t] = {}, ~MidStatement(t)
               PROVE  Consistent(View(t))
    BY ZenonT(30) DEF ReadsConsistent
  <2>1. pc[t] \in {"idle", "done"}
    BY SMTT(20), ZenonT(30) DEF TypedState, TypeOK, PC, MidStatement
  <2>2. QED
    BY ZenonT(30), <2>1 DEF ExecutorsConsistent, RowInProgress
<1>2. QED
  BY <1>1, InitTyped, NextTyped, InitConsistent, NextConsistent, PTL DEF Spec

(* add_index raises DuplicateUniqueValue only when a tuple with the value   *)
(* is really there.                                                         *)
THEOREM DuplicateErrorsCorrect == Spec => []DuplicateUniqueIsReal
<1>1. TypedState /\ ExecutorsConsistent => DuplicateUniqueIsReal
  <2> SUFFICES ASSUME TypedState, ExecutorsConsistent, NEW t \in Txn, hazard = {},
                      taint[t] = {}, stale[t] = {}, pc[t] = "getU",
                      Get(t, UniqueKey(cur[t].nrow.u)) \notin {None, cur[t].npk}
               PROVE  \E pk \in Pk : /\ Get(t, TupleKey(pk)) # None
                                     /\ Get(t, TupleKey(pk)).u = cur[t].nrow.u
    BY SMTT(20), ZenonT(30) DEF DuplicateUniqueIsReal, DuplicateIsReal
  <2> DEFINE v == cur[t].nrow.u
             p == Base(t)[UniqueKey(v)]
  <2>1. v \in UVal
    BY ZenonT(30) DEF TypedState, RegistersOK, Row
  <2>2. p = Get(t, UniqueKey(v)) /\ p # None
    BY ZenonT(30), <2>1, BaseFacts, KeysInKey DEF Get, View
  <2>3. p \in Pk
    BY SMTT(20), ZenonT(30), <2>1, <2>2, BaseFacts DEF IsKV
  <2>4. Consistent(Base(t))
    BY ZenonT(30) DEF ExecutorsConsistent, RowInProgress
  <2>5. Base(t)[TupleKey(p)] # None /\ Base(t)[TupleKey(p)].u = v
    BY ZenonT(30), <2>1, <2>2, <2>4 DEF Consistent
  <2>6. Base(t)[TupleKey(p)] = Get(t, TupleKey(p))
    BY ZenonT(30), <2>3, <2>5, KeysInKey DEF Base, Without, View, Get
  <2>7. QED
    BY ZenonT(30), <2>3, <2>5, <2>6
<1>2. QED
  BY <1>1, InitTyped, NextTyped, InitConsistent, NextConsistent, PTL DEF Spec

-----------------------------------------------------------------------------
(* Inserts.                                                                 *)

(* A key of the batch stays in the batch.                                   *)
LEMMA SetKeepsWritten ==
    ASSUME TypeOK, NEW t \in Txn, NEW k \in Key, NEW v, Set(t, k, v), v # Unwritten,
           NEW j \in Key, ws[t][j] # Unwritten
    PROVE  ws'[t][j] # Unwritten
BY SMTT(20), ZenonT(30) DEF Set, TypeOK, IsKV

LEMMA RemoveKeepsWritten ==
    ASSUME TypeOK, NEW t \in Txn, NEW K, Remove(t, K),
           NEW j \in Key, ws[t][j] # Unwritten
    PROVE  ws'[t][j] # Unwritten
BY SMTT(20), ZenonT(30), UnwrittenAssumption DEF Remove, TypeOK, Without

LEMMA StepInserts ==
    ASSUME TypedState, InsertsTracked, NEW t \in Txn, TxnStep(t), ~Commit(t),
           "race" \notin taint'[t], NEW pk \in inserted'[t]
    PROVE  /\ store'[TupleKey(pk)] = None \/ TupleKey(pk) \in stale'[t]
           /\ ws'[t][TupleKey(pk)] # Unwritten \/ (pc'[t] = "putT" /\ cur'[t].npk = pk)
<1> DEFINE Tracked == /\ store[TupleKey(pk)] = None \/ TupleKey(pk) \in stale[t]
                      /\ ws[t][TupleKey(pk)] # Unwritten
                            \/ (pc[t] = "putT" /\ cur[t].npk = pk)
<1>0. TypeOK /\ RegistersOK(t) /\ Private(t)
  BY SMTT(20), ZenonT(30), StepPrivate DEF TypedState
<1>1. CASE Abandon(t)
  BY SMTT(20), ZenonT(30), <1>0, <1>1 DEF Abandon, Close, TypeOK
<1>2. ASSUME ~Abandon(t), "race" \notin taint[t], pk \in inserted[t] PROVE Tracked
  BY SMTT(20), ZenonT(30), <1>2 DEF InsertsTracked
<1> HIDE DEF Tracked
<1>3. CASE GetTuple(t) /\ ~Abandon(t)
  <2>1. CASE Fail(t, TRUE)
    <3>1. /\ taint'[t] = taint[t] \cup {"torn"}
          /\ UNCHANGED <<store, ws, stale, inserted>>
      BY SMTT(20), ZenonT(30), <1>0, <1>3, <2>1 DEF Fail, TypeOK
    <3>2. Tracked /\ pc[t] # "putT"
      BY ZenonT(30), <1>2, <1>3, <3>1 DEF GetTuple
    <3>3. QED
      BY ZenonT(30), <3>1, <3>2 DEF Tracked
  <2>2. CASE /\ Get(t, TupleKey(cur[t].npk)) = None
             /\ inserted' = [inserted EXCEPT ![t] =
                    IF ws[t][TupleKey(cur[t].npk)] = Unwritten
                    THEN @ \cup {cur[t].npk} ELSE @]
             /\ Goto(t, "putT")
             /\ UNCHANGED <<store, ws, stale, cur, taint>>
    <3>1. pc'[t] = "putT" /\ pc[t] = "getT"
      BY SMTT(20), ZenonT(30), <1>0, <1>3, <2>2 DEF GetTuple, Goto, TypeOK
    <3>2. CASE pk \in inserted[t]
      BY ZenonT(30), <1>2, <1>3, <2>2, <3>1, <3>2 DEF Tracked
    <3>3. CASE pk \notin inserted[t]
      <4>1. pk = cur[t].npk /\ ws[t][TupleKey(pk)] = Unwritten
        BY SMTT(20), ZenonT(30), <1>0, <2>2, <3>3 DEF TypeOK
      <4>2. QED
        BY ZenonT(30), <2>2, <3>1, <4>1 DEF Get
    <3>4. QED
      BY SMTT(20), ZenonT(30), <3>2, <3>3
  <2>3. QED
    BY ZenonT(30), <1>3, <2>1, <2>2 DEF GetTuple
<1>4. CASE PutTuple(t) /\ ~Abandon(t)
  <2>1. /\ cur[t].npk \in Pk /\ cur[t].nrow \in Row /\ "race" \notin taint[t]
        /\ inserted' = inserted /\ store' = store /\ stale' = stale /\ pk \in Pk
    BY SMTT(20), ZenonT(30), <1>0, <1>4 DEF PutTuple, RegistersOK, TypeOK
  <2>2. \A j \in Key : ws'[t][j] = IF j = TupleKey(cur[t].npk) THEN cur[t].nrow ELSE ws[t][j]
    BY SMTT(20), ZenonT(30), <1>0, <1>4 DEF PutTuple, Set, TypeOK, IsKV
  <2>3. Tracked
    BY SMTT(20), ZenonT(30), <1>2, <1>4, <2>1
  <2>4. QED
    BY ZenonT(30), <2>1, <2>2, <2>3, KeysInKey, UnwrittenAssumption DEF Tracked
<1>5. CASE Begin(t) /\ ~Abandon(t)
  <2>1. UNCHANGED <<store, ws, stale, pc, cur, taint, inserted>>
    BY ZenonT(30), <1>5 DEF Begin, execVars, ghosts
  <2>2. QED
    BY SMTT(20), ZenonT(30), <1>2, <1>5, <2>1 DEF Tracked
<1>6. CASE ~GetTuple(t) /\ ~PutTuple(t) /\ ~Begin(t) /\ ~Abandon(t)
  <2> DEFINE Kept == /\ inserted'[t] = inserted[t] /\ taint[t] \subseteq taint'[t]
                     /\ stale'[t] = stale[t] /\ pc[t] # "putT"
             BatchKept == ws[t][TupleKey(pk)] # Unwritten => ws'[t][TupleKey(pk)] # Unwritten
  <2>1. Kept
    <3>1. ASSUME NEW touched, Fail(t, touched)
          PROVE  /\ inserted'[t] = inserted[t] /\ taint[t] \subseteq taint'[t]
                 /\ stale'[t] = stale[t]
      BY SMTT(20), ZenonT(30), <1>0, <1>6, <3>1 DEF Fail, TypeOK
    <3>2. CASE CommitFails(t) \/ Rollback(t)
      BY SMTT(20), ZenonT(30), <1>6, <3>2 DEF CommitFails, Rollback
    <3>3. CASE NextFails(t) \/ EvalFails(t)
      BY ZenonT(30), <3>1, <3>3 DEF NextFails, EvalFails
    <3>4. CASE GetUnique(t)
      BY ZenonT(30), <3>1, <3>4 DEF GetUnique, ghosts
    <3>5. CASE StartStatement(t) \/ EndStatement(t)
      BY ZenonT(30), <3>5 DEF StartStatement, EndStatement, ghosts
    <3>6. CASE NextInserted(t) \/ NextScanned(t) \/ DelUnique(t) \/ DelNormal(t)
      BY ZenonT(30), <3>6 DEF NextInserted, NextScanned, DelUnique, DelNormal, ghosts
    <3>7. CASE Eval(t) \/ RemoveTuple(t) \/ PutUnique(t) \/ PutNormal(t)
      BY ZenonT(30), <3>7 DEF Eval, RemoveTuple, PutUnique, PutNormal, ghosts
    <3>8. QED
      BY ZenonT(30), <1>6, <3>2, <3>3, <3>4, <3>5, <3>6, <3>7 DEF TxnStep
  <2>2. "race" \notin taint[t] /\ pk \in inserted[t] /\ pk \in Pk
    BY SMTT(20), ZenonT(30), <1>0, <2>1 DEF TypeOK
  <2>3. Tracked
    BY SMTT(20), ZenonT(30), <1>2, <1>6, <2>2
  <2>4. TupleKey(pk) \in Key
    BY SMTT(20), ZenonT(30), <2>2, KeysInKey
  <2>5. BatchKept
    <3>1. ASSUME NEW touched, Fail(t, touched) PROVE ws' = ws
      BY ZenonT(30), <1>6, <3>1 DEF Fail
    <3>2. CASE CommitFails(t) \/ Rollback(t)
      BY ZenonT(30), <1>6, <3>2 DEF CommitFails, Rollback
    <3>3. CASE NextFails(t) \/ EvalFails(t) \/ GetUnique(t)
      BY ZenonT(30), <3>1, <3>3 DEF NextFails, EvalFails, GetUnique
    <3>4. CASE DelUnique(t) \/ DelNormal(t) \/ RemoveTuple(t)
      BY ZenonT(30), <1>0, <2>4, <3>4, RemoveKeepsWritten DEF DelUnique, DelNormal, RemoveTuple
    <3>5. CASE PutUnique(t)
      <4>1. cur[t].nrow.u \in UVal /\ cur[t].npk \in Pk
        BY ZenonT(30), <1>0, <3>5 DEF PutUnique, RegistersOK, Row
      <4>2. UniqueKey(cur[t].nrow.u) \in Key /\ cur[t].npk # Unwritten
        BY ZenonT(30), <4>1, KeysInKey, UnwrittenAssumption
      <4>3. QED
        BY ZenonT(30), <1>0, <2>4, <3>5, <4>2, SetKeepsWritten DEF PutUnique
    <3>6. CASE PutNormal(t)
      <4>1. cur[t].nrow.n \in NVal /\ cur[t].npk \in Pk
        BY ZenonT(30), <1>0, <3>6 DEF PutNormal, RegistersOK, Row
      <4>2. NormalKey(cur[t].nrow.n, cur[t].npk) \in Key /\ cur[t].npk # Unwritten
        BY ZenonT(30), <4>1, KeysInKey, UnwrittenAssumption
      <4>3. QED
        BY ZenonT(30), <1>0, <2>4, <3>6, <4>2, SetKeepsWritten DEF PutNormal
    <3>7. CASE StartStatement(t) \/ EndStatement(t) \/ NextInserted(t) \/ NextScanned(t)
               \/ Eval(t)
      BY ZenonT(30), <3>7 DEF StartStatement, EndStatement, NextInserted, NextScanned, Eval
    <3>8. QED
      BY ZenonT(30), <1>6, <3>2, <3>3, <3>4, <3>5, <3>6, <3>7 DEF TxnStep
  <2>6. QED
    BY ZenonT(30), <1>0, <2>1, <2>3, <2>5 DEF Tracked, Private
<1>7. QED
  BY ZenonT(30), <1>1, <1>3, <1>4, <1>5, <1>6

LEMMA CommitInserts ==
    ASSUME TypedState, InsertsTracked, NEW t \in Txn, Commit(t),
           NEW x \in Txn, "race" \notin taint'[x], NEW pk \in inserted'[x]
    PROVE  /\ store'[TupleKey(pk)] = None \/ TupleKey(pk) \in stale'[x]
           /\ ws'[x][TupleKey(pk)] # Unwritten \/ (pc'[x] = "putT" /\ cur'[x].npk = pk)
<1>1. x # t /\ pk \in inserted[x] /\ pk \in Pk
  BY SMTT(20), ZenonT(30) DEF Commit, Close, TypedState, TypeOK
<1>2. ws'[x] = ws[x] /\ pc'[x] = pc[x] /\ cur'[x] = cur[x]
  BY SMTT(20), ZenonT(30), <1>1 DEF Commit, Close, TypedState, TypeOK
<1>3. /\ "race" \notin taint[x]
      /\ MidStatement(x) => Written(t) = {}
      /\ stale'[x] = stale[x] \cup (Written(x) \cap Written(t))
  BY SMTT(20), ZenonT(30), <1>1 DEF Commit
<1>4. /\ store[TupleKey(pk)] = None \/ TupleKey(pk) \in stale[x]
      /\ ws[x][TupleKey(pk)] # Unwritten \/ (pc[x] = "putT" /\ cur[x].npk = pk)
  BY ZenonT(30), <1>1, <1>3 DEF InsertsTracked
<1>5. TupleKey(pk) \in Key
  BY SMTT(20), ZenonT(30), <1>1, KeysInKey
<1>6. TupleKey(pk) \notin Written(t) => store'[TupleKey(pk)] = store[TupleKey(pk)]
  BY SMTT(20), ZenonT(30), <1>5 DEF Commit, View, Written
<1>7. CASE TupleKey(pk) \in Written(t)
  <2>1. ws[x][TupleKey(pk)] # Unwritten
    BY ZenonT(30), <1>3, <1>4, <1>7 DEF MidStatement, Calls
  <2>2. QED
    BY SMTT(20), ZenonT(30), <1>2, <1>3, <1>5, <1>7, <2>1 DEF Written
<1>8. QED
  BY ZenonT(30), <1>2, <1>3, <1>4, <1>6, <1>7

LEMMA NextInserts == TypedState /\ InsertsTracked /\ [Next]_vars => InsertsTracked'
<1> SUFFICES ASSUME TypedState, InsertsTracked, [Next]_vars PROVE InsertsTracked'
  OBVIOUS
<1>1. CASE Crash
  BY ZenonT(30), <1>1 DEF Crash, InsertsTracked
<1>2. ASSUME NEW t \in Txn, Commit(t) PROVE InsertsTracked'
  BY ZenonT(30), <1>2, CommitInserts DEF InsertsTracked
<1>3. ASSUME NEW t \in Txn, TxnStep(t), ~Commit(t) PROVE InsertsTracked'
  <2>1. Private(t)
    BY SMTT(20), ZenonT(30), <1>3, StepPrivate DEF TypedState
  <2>2. SUFFICES ASSUME NEW x \in Txn, "race" \notin taint'[x], NEW pk \in inserted'[x]
                 PROVE  /\ store'[TupleKey(pk)] = None \/ TupleKey(pk) \in stale'[x]
                        /\ ws'[x][TupleKey(pk)] # Unwritten
                              \/ (pc'[x] = "putT" /\ cur'[x].npk = pk)
    BY ZenonT(30) DEF InsertsTracked
  <2>3. CASE x = t
    BY SMTT(20), ZenonT(30), <1>3, <2>2, <2>3, StepInserts
  <2>4. CASE x # t
    <3>1. /\ store' = store /\ ws'[x] = ws[x] /\ stale'[x] = stale[x] /\ taint'[x] = taint[x]
          /\ pc'[x] = pc[x] /\ cur'[x] = cur[x] /\ inserted'[x] = inserted[x]
      BY <2>1, <2>4, ZenonT(30) DEF Private
    <3>2. "race" \notin taint[x] /\ pk \in inserted[x]
      BY <2>2, <3>1, ZenonT(30)
    <3>3. QED
      BY <3>1, <3>2, ZenonT(30) DEF InsertsTracked
  <2>5. QED
    BY ZenonT(30), <2>3, <2>4
<1>4. CASE UNCHANGED vars
  BY ZenonT(30), <1>4 DEF vars, InsertsTracked
<1>5. QED
  BY SMTT(20), ZenonT(30), <1>1, <1>2, <1>3, <1>4 DEF Next

(* A key an INSERT found absent stays tracked until its transaction ends:   *)
(* it is in the write batch (append_tuple's set), and a commit of the same  *)
(* key by another transaction has marked it, so that rocksdb.rs refuses the *)
(* commit.                                                                  *)
THEOREM InsertsAlwaysTracked == Spec => []InsertsTracked
<1>1. Init => InsertsTracked
  BY SMTT(20), ZenonT(30) DEF Init, InsertsTracked
<1>2. QED
  BY <1>1, InitTyped, NextTyped, NextInserts, PTL DEF Spec

(* An INSERT whose check found the key absent replaces no tuple when its    *)
(* transaction commits, unless a commit overtook the statement              *)
(* (append_tuple's get, then its set, then rocksdb.rs commit).              *)
THEOREM InsertsCorrect == Spec => InsertNeverReplaces
<1>1. TypedState /\ InsertsTracked /\ [Next]_vars
        => [\A t \in Txn : (Commit(t) /\ "race" \notin taint[t]) =>
               \A pk \in inserted[t] : store[TupleKey(pk)] = None]_vars
  BY ZenonT(30) DEF InsertsTracked, Commit
<1>2. QED
  BY <1>1, InitTyped, NextTyped, InsertsAlwaysTracked, PTL DEF Spec, InsertNeverReplaces
=============================================================================
