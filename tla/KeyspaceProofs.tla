--------------------------- MODULE KeyspaceProofs ---------------------------
(***************************************************************************)
(* The handlers and replayCommand agree: ReplayRestores holds of Keyspace  *)
(* for any set of keys, fields and values and any bounds.                  *)
(*                                                                         *)
(* The argument is about two databases s and t that are in step outside a  *)
(* set E of keys.  A command touches only its own keys; of a key outside E *)
(* it reads the same in both, and that key has no deadline, so that        *)
(* expireIfNeeded leaves it alone on the live side as well.                *)
(***************************************************************************)
EXTENDS Keyspace, Extrema, TLAPS

\* A database has its five maps, with an entry for each key.
IsDB(s) ==
  /\ s = [Store |-> s.Store, Lists |-> s.Lists, Sets |-> s.Sets,
          Hashes |-> s.Hashes, Expires |-> s.Expires]
  /\ s.Store   = [k \in Keys |-> s.Store[k]]
  /\ s.Lists   = [k \in Keys |-> s.Lists[k]]
  /\ s.Sets    = [k \in Keys |-> s.Sets[k]]
  /\ s.Hashes  = [k \in Keys |-> s.Hashes[k]]
  /\ s.Expires = [k \in Keys |-> s.Expires[k]]

\* The inductive invariant: the two databases have the same in every key
\* outside E, which has no deadline, and the replayed one has no deadlines.
InStep(s, t, E) ==
  /\ IsDB(s)
  /\ IsDB(t)
  /\ \A k \in Keys \ E : Same(s, t, k) /\ s.Expires[k] = "none"
  /\ \A k \in Keys : t.Expires[k] = "none"

KInv == InStep(db, copy, excused)

\* From s to u only key k is touched.
Untouched(s, u, k) == Same(s, u, k) /\ u.Expires[k] = s.Expires[k]
Local(s, u, k) == IsDB(u) /\ \A j \in Keys \ {k} : Untouched(s, u, j)

-----------------------------------------------------------------------------
(* Reading and writing one map of a database.                              *)

\* A record of five maps on Keys is a database.
LEMMA MakeDB ==
  ASSUME NEW s, NEW a, NEW b, NEW c, NEW d, NEW e,
         a = [k \in Keys |-> a[k]], b = [k \in Keys |-> b[k]], c = [k \in Keys |-> c[k]],
         d = [k \in Keys |-> d[k]], e = [k \in Keys |-> e[k]],
         s = [Store |-> a, Lists |-> b, Sets |-> c, Hashes |-> d, Expires |-> e]
  PROVE  /\ IsDB(s)
         /\ s.Store = a /\ s.Lists = b /\ s.Sets = c /\ s.Hashes = d /\ s.Expires = e
<1>1. s.Store = a /\ s.Lists = b /\ s.Sets = c /\ s.Hashes = d /\ s.Expires = e
  OBVIOUS
<1> QED BY <1>1 DEF IsDB

\* What EraseAll leaves in each key.
LEMMA EraseAllKeys ==
  ASSUME NEW s, NEW K
  PROVE  /\ IsDB(EraseAll(s, K))
         /\ \A k \in Keys \ K : Untouched(s, EraseAll(s, K), k)
         /\ \A k \in Keys \cap K : Same(Empty, EraseAll(s, K), k) /\ EraseAll(s, K).Expires[k] = "none"
<1> DEFINE a == [k \in Keys |-> IF k \in K THEN Nil ELSE s.Store[k]]
           b == [k \in Keys |-> IF k \in K THEN << >> ELSE s.Lists[k]]
           c == [k \in Keys |-> IF k \in K THEN {} ELSE s.Sets[k]]
           d == [k \in Keys |-> IF k \in K THEN NoFields ELSE s.Hashes[k]]
           e == [k \in Keys |-> IF k \in K THEN "none" ELSE s.Expires[k]]
           u == EraseAll(s, K)
<1>1. u = [Store |-> a, Lists |-> b, Sets |-> c, Hashes |-> d, Expires |-> e]
  BY DEF EraseAll
<1>2. /\ a = [k \in Keys |-> a[k]] /\ b = [k \in Keys |-> b[k]] /\ c = [k \in Keys |-> c[k]]
      /\ d = [k \in Keys |-> d[k]] /\ e = [k \in Keys |-> e[k]]
  OBVIOUS
<1>3. \A k \in Keys \ K : /\ a[k] = s.Store[k] /\ b[k] = s.Lists[k] /\ c[k] = s.Sets[k]
                          /\ d[k] = s.Hashes[k] /\ e[k] = s.Expires[k]
  OBVIOUS
<1>4. \A k \in Keys \cap K : /\ a[k] = Nil /\ b[k] = << >> /\ c[k] = {}
                             /\ d[k] = NoFields /\ e[k] = "none"
  OBVIOUS
<1>5. \A k \in Keys : /\ Empty.Store[k] = Nil /\ Empty.Lists[k] = << >> /\ Empty.Sets[k] = {}
                      /\ Empty.Hashes[k] = NoFields
  BY DEF Empty
<1> HIDE DEF a, b, c, d, e, u
<1>6. /\ IsDB(u) /\ u.Store = a /\ u.Lists = b /\ u.Sets = c /\ u.Hashes = d /\ u.Expires = e
  BY <1>1, <1>2, MakeDB
<1>7. IsDB(u) /\ (\A k \in Keys \ K : Untouched(s, u, k))
        /\ (\A k \in Keys \cap K : Same(Empty, u, k) /\ u.Expires[k] = "none")
  BY <1>3, <1>4, <1>5, <1>6 DEF Untouched, Same
<1> QED BY <1>7 DEF u

\* Nothing to erase.
LEMMA EraseNone ==
  ASSUME NEW s, IsDB(s), NEW K, K \cap Keys = {}
  PROVE  EraseAll(s, K) = s
<1>1. /\ [k \in Keys |-> IF k \in K THEN Nil ELSE s.Store[k]] = [k \in Keys |-> s.Store[k]]
      /\ [k \in Keys |-> IF k \in K THEN << >> ELSE s.Lists[k]] = [k \in Keys |-> s.Lists[k]]
      /\ [k \in Keys |-> IF k \in K THEN {} ELSE s.Sets[k]] = [k \in Keys |-> s.Sets[k]]
      /\ [k \in Keys |-> IF k \in K THEN NoFields ELSE s.Hashes[k]] = [k \in Keys |-> s.Hashes[k]]
      /\ [k \in Keys |-> IF k \in K THEN "none" ELSE s.Expires[k]] = [k \in Keys |-> s.Expires[k]]
  OBVIOUS
<1> QED BY <1>1 DEF EraseAll, IsDB

\* expireIfNeeded touches its key only, and not even that if it is not due.
LEMMA ExpireKey ==
  ASSUME NEW s, IsDB(s), NEW k \in Keys
  PROVE  /\ Local(s, expireIfNeeded(s, k), k)
         /\ s.Expires[k] # "due" => expireIfNeeded(s, k) = s
         /\ expireIfNeeded(s, k).Expires[k] \in {"none", s.Expires[k]}
<1> DEFINE K == {k} \cap Due(s)
<1>1. expireIfNeeded(s, k) = EraseAll(s, K)
  BY DEF expireIfNeeded
<1>2. K \subseteq {k} /\ (s.Expires[k] # "due" => K \cap Keys = {})
  BY DEF Due
<1> HIDE DEF K
<1>3. /\ IsDB(EraseAll(s, K))
      /\ \A j \in Keys \ K : Untouched(s, EraseAll(s, K), j)
      /\ \A j \in Keys \cap K : EraseAll(s, K).Expires[j] = "none"
  BY EraseAllKeys
<1>4. Local(s, EraseAll(s, K), k)
  BY <1>2, <1>3 DEF Local
<1>5. s.Expires[k] # "due" => EraseAll(s, K) = s
  BY <1>2, EraseNone
<1>6. EraseAll(s, K).Expires[k] \in {"none", s.Expires[k]}
  <2>1. CASE k \in K
    BY <1>3, <2>1
  <2>2. CASE k \notin K
    BY <1>3, <2>2 DEF Untouched
  <2> QED BY <2>1, <2>2
<1> QED BY <1>1, <1>4, <1>5, <1>6

\* Steps that touch the same key compose.
LEMMA LocalTrans ==
  ASSUME NEW s, NEW u, NEW w, NEW k, Local(s, u, k), Local(u, w, k)
  PROVE  Local(s, w, k)
BY DEF Local, Untouched, Same

\* No step touches nothing.
LEMMA LocalSelf ==
  ASSUME NEW s, IsDB(s), NEW k
  PROVE  Local(s, s, k)
BY DEF Local, Untouched, Same

\* A write to one entry of one map.
WithStore(s, k, v) == [s EXCEPT !.Store[k] = v]
WithLists(s, k, v) == [s EXCEPT !.Lists[k] = v]
WithSets(s, k, v) == [s EXCEPT !.Sets[k] = v]
WithHashes(s, k, v) == [s EXCEPT !.Hashes[k] = v]
WithExpires(s, k, v) == [s EXCEPT !.Expires[k] = v]

\* A write of a string is local to its key and leaves the other maps alone.
LEMMA WriteStore ==
  ASSUME NEW s, IsDB(s), NEW k \in Keys, NEW v, NEW u, u = WithStore(s, k, v)
  PROVE  /\ Local(s, u, k)
         /\ u.Store[k] = v /\ u.Lists[k] = s.Lists[k] /\ u.Sets[k] = s.Sets[k]
         /\ u.Hashes[k] = s.Hashes[k] /\ u.Expires[k] = s.Expires[k]
<1> DEFINE a == [s.Store EXCEPT ![k] = v]
<1>1. u = [Store |-> a, Lists |-> s.Lists, Sets |-> s.Sets, Hashes |-> s.Hashes, Expires |-> s.Expires]
  BY DEF IsDB, WithStore
<1>2. a = [j \in Keys |-> a[j]] /\ a[k] = v /\ \A j \in Keys \ {k} : a[j] = s.Store[j]
  BY DEF IsDB
<1> HIDE DEF a
<1>3. /\ IsDB(u) /\ u.Store = a /\ u.Lists = s.Lists /\ u.Sets = s.Sets
      /\ u.Hashes = s.Hashes /\ u.Expires = s.Expires
  <2>1. /\ s.Lists = [j \in Keys |-> s.Lists[j]] /\ s.Sets = [j \in Keys |-> s.Sets[j]]
        /\ s.Hashes = [j \in Keys |-> s.Hashes[j]] /\ s.Expires = [j \in Keys |-> s.Expires[j]]
    BY DEF IsDB
  <2> QED BY <1>1, <1>2, <2>1, MakeDB
<1>4. Local(s, u, k)
  BY <1>2, <1>3 DEF Local, Untouched, Same
<1> QED BY <1>2, <1>3, <1>4

\* The same of a write of a list,
LEMMA WriteLists ==
  ASSUME NEW s, IsDB(s), NEW k \in Keys, NEW v, NEW u, u = WithLists(s, k, v)
  PROVE  /\ Local(s, u, k)
         /\ u.Lists[k] = v /\ u.Store[k] = s.Store[k] /\ u.Sets[k] = s.Sets[k]
         /\ u.Hashes[k] = s.Hashes[k] /\ u.Expires[k] = s.Expires[k]
<1> DEFINE a == [s.Lists EXCEPT ![k] = v]
<1>1. u = [Store |-> s.Store, Lists |-> a, Sets |-> s.Sets, Hashes |-> s.Hashes, Expires |-> s.Expires]
  BY DEF IsDB, WithLists
<1>2. a = [j \in Keys |-> a[j]] /\ a[k] = v /\ \A j \in Keys \ {k} : a[j] = s.Lists[j]
  BY DEF IsDB
<1> HIDE DEF a
<1>3. /\ IsDB(u) /\ u.Store = s.Store /\ u.Lists = a /\ u.Sets = s.Sets
      /\ u.Hashes = s.Hashes /\ u.Expires = s.Expires
  <2>1. /\ s.Store = [j \in Keys |-> s.Store[j]] /\ s.Sets = [j \in Keys |-> s.Sets[j]]
        /\ s.Hashes = [j \in Keys |-> s.Hashes[j]] /\ s.Expires = [j \in Keys |-> s.Expires[j]]
    BY DEF IsDB
  <2> QED BY <1>1, <1>2, <2>1, MakeDB
<1>4. Local(s, u, k)
  BY <1>2, <1>3 DEF Local, Untouched, Same
<1> QED BY <1>2, <1>3, <1>4

\* of a set,
LEMMA WriteSets ==
  ASSUME NEW s, IsDB(s), NEW k \in Keys, NEW v, NEW u, u = WithSets(s, k, v)
  PROVE  /\ Local(s, u, k)
         /\ u.Sets[k] = v /\ u.Store[k] = s.Store[k] /\ u.Lists[k] = s.Lists[k]
         /\ u.Hashes[k] = s.Hashes[k] /\ u.Expires[k] = s.Expires[k]
<1> DEFINE a == [s.Sets EXCEPT ![k] = v]
<1>1. u = [Store |-> s.Store, Lists |-> s.Lists, Sets |-> a, Hashes |-> s.Hashes, Expires |-> s.Expires]
  BY DEF IsDB, WithSets
<1>2. a = [j \in Keys |-> a[j]] /\ a[k] = v /\ \A j \in Keys \ {k} : a[j] = s.Sets[j]
  BY DEF IsDB
<1> HIDE DEF a
<1>3. /\ IsDB(u) /\ u.Store = s.Store /\ u.Lists = s.Lists /\ u.Sets = a
      /\ u.Hashes = s.Hashes /\ u.Expires = s.Expires
  <2>1. /\ s.Store = [j \in Keys |-> s.Store[j]] /\ s.Lists = [j \in Keys |-> s.Lists[j]]
        /\ s.Hashes = [j \in Keys |-> s.Hashes[j]] /\ s.Expires = [j \in Keys |-> s.Expires[j]]
    BY DEF IsDB
  <2> QED BY <1>1, <1>2, <2>1, MakeDB
<1>4. Local(s, u, k)
  BY <1>2, <1>3 DEF Local, Untouched, Same
<1> QED BY <1>2, <1>3, <1>4

\* of a hash
LEMMA WriteHashes ==
  ASSUME NEW s, IsDB(s), NEW k \in Keys, NEW v, NEW u, u = WithHashes(s, k, v)
  PROVE  /\ Local(s, u, k)
         /\ u.Hashes[k] = v /\ u.Store[k] = s.Store[k] /\ u.Lists[k] = s.Lists[k]
         /\ u.Sets[k] = s.Sets[k] /\ u.Expires[k] = s.Expires[k]
<1> DEFINE a == [s.Hashes EXCEPT ![k] = v]
<1>1. u = [Store |-> s.Store, Lists |-> s.Lists, Sets |-> s.Sets, Hashes |-> a, Expires |-> s.Expires]
  BY DEF IsDB, WithHashes
<1>2. a = [j \in Keys |-> a[j]] /\ a[k] = v /\ \A j \in Keys \ {k} : a[j] = s.Hashes[j]
  BY DEF IsDB
<1> HIDE DEF a
<1>3. /\ IsDB(u) /\ u.Store = s.Store /\ u.Lists = s.Lists /\ u.Sets = s.Sets
      /\ u.Hashes = a /\ u.Expires = s.Expires
  <2>1. /\ s.Store = [j \in Keys |-> s.Store[j]] /\ s.Lists = [j \in Keys |-> s.Lists[j]]
        /\ s.Sets = [j \in Keys |-> s.Sets[j]] /\ s.Expires = [j \in Keys |-> s.Expires[j]]
    BY DEF IsDB
  <2> QED BY <1>1, <1>2, <2>1, MakeDB
<1>4. Local(s, u, k)
  BY <1>2, <1>3 DEF Local, Untouched, Same
<1> QED BY <1>2, <1>3, <1>4

\* and of a deadline.
LEMMA WriteExpires ==
  ASSUME NEW s, IsDB(s), NEW k \in Keys, NEW v, NEW u, u = WithExpires(s, k, v)
  PROVE  /\ Local(s, u, k)
         /\ u.Expires[k] = v /\ u.Store[k] = s.Store[k] /\ u.Lists[k] = s.Lists[k]
         /\ u.Sets[k] = s.Sets[k] /\ u.Hashes[k] = s.Hashes[k]
<1> DEFINE a == [s.Expires EXCEPT ![k] = v]
<1>1. u = [Store |-> s.Store, Lists |-> s.Lists, Sets |-> s.Sets, Hashes |-> s.Hashes, Expires |-> a]
  BY DEF IsDB, WithExpires
<1>2. a = [j \in Keys |-> a[j]] /\ a[k] = v /\ \A j \in Keys \ {k} : a[j] = s.Expires[j]
  BY DEF IsDB
<1> HIDE DEF a
<1>3. /\ IsDB(u) /\ u.Store = s.Store /\ u.Lists = s.Lists /\ u.Sets = s.Sets
      /\ u.Hashes = s.Hashes /\ u.Expires = a
  <2>1. /\ s.Store = [j \in Keys |-> s.Store[j]] /\ s.Lists = [j \in Keys |-> s.Lists[j]]
        /\ s.Sets = [j \in Keys |-> s.Sets[j]] /\ s.Hashes = [j \in Keys |-> s.Hashes[j]]
    BY DEF IsDB
  <2> QED BY <1>1, <1>2, <2>1, MakeDB
<1>4. Local(s, u, k)
  BY <1>2, <1>3 DEF Local, Untouched, Same
<1> QED BY <1>2, <1>3, <1>4

-----------------------------------------------------------------------------
(* Two databases in step.                                                  *)

\* Both sides touch key k only: it is enough to look at k.
LEMMA OneKey ==
  ASSUME NEW s, NEW t, NEW E, InStep(s, t, E), NEW k \in Keys,
         NEW u, NEW w, Local(s, u, k), Local(t, w, k),
         w.Expires[k] = "none",
         k \notin E => Same(u, w, k) /\ u.Expires[k] = "none"
  PROVE  InStep(u, w, E)
<1>1. \A j \in Keys \ {k} : Untouched(s, u, j) /\ Untouched(t, w, j)
  BY DEF Local
<1>2. \A j \in Keys \ E : Same(u, w, j) /\ u.Expires[j] = "none"
  <2> TAKE j \in Keys \ E
  <2>1. CASE j = k
    BY <2>1
  <2>2. CASE j # k
    BY <1>1, <2>2 DEF InStep, Untouched, Same
  <2> QED BY <2>1, <2>2
<1>3. \A j \in Keys : w.Expires[j] = "none"
  <2> TAKE j \in Keys
  <2>1. CASE j = k
    BY <2>1
  <2>2. CASE j # k
    BY <1>1, <2>2 DEF InStep, Untouched
  <2> QED BY <2>1, <2>2
<1> QED BY <1>2, <1>3 DEF InStep, Local

\* The key of a command before it is touched: neither side expires it if it
\* is outside E, and the replayed side never does.
LEMMA Fetched ==
  ASSUME NEW s, NEW t, NEW E, InStep(s, t, E), NEW k \in Keys
  PROVE  /\ IsDB(s) /\ IsDB(t)
         /\ Local(s, expireIfNeeded(s, k), k) /\ IsDB(expireIfNeeded(s, k))
         /\ expireIfNeeded(t, k) = t /\ t.Expires[k] = "none"
         /\ k \notin E => /\ expireIfNeeded(s, k) = s /\ s.Expires[k] = "none"
                          /\ Same(s, t, k)
<1>1. IsDB(s) /\ IsDB(t) /\ t.Expires[k] = "none" /\ "none" # "due"
  BY DEF InStep
<1>2. Local(s, expireIfNeeded(s, k), k) /\ expireIfNeeded(t, k) = t
  BY <1>1, ExpireKey
<1>3. IsDB(expireIfNeeded(s, k))
  BY <1>2 DEF Local
<1>4. ASSUME k \notin E
      PROVE  expireIfNeeded(s, k) = s /\ s.Expires[k] = "none" /\ Same(s, t, k)
  <2>1. s.Expires[k] = "none" /\ Same(s, t, k)
    BY <1>4 DEF InStep
  <2> QED BY <1>1, <2>1, ExpireKey
<1> QED BY <1>1, <1>2, <1>3, <1>4

\* The same written to one entry on both sides, after expireIfNeeded on the
\* live one.
LEMMA WriteStoreBoth ==
  ASSUME NEW s, NEW t, NEW E, InStep(s, t, E), NEW k \in Keys, NEW x, NEW y, k \notin E => x = y
  PROVE  InStep(WithStore(expireIfNeeded(s, k), k, x), WithStore(t, k, y), E)
<1> DEFINE e == expireIfNeeded(s, k)
           u == WithStore(e, k, x)
           w == WithStore(t, k, y)
<1>1. /\ IsDB(t) /\ IsDB(e) /\ Local(s, e, k) /\ t.Expires[k] = "none"
      /\ k \notin E => e = s /\ s.Expires[k] = "none" /\ Same(s, t, k)
  BY Fetched
<1> HIDE DEF e
<1>2. u = WithStore(e, k, x) /\ w = WithStore(t, k, y)
  OBVIOUS
<1> HIDE DEF u, w
<1>3. /\ Local(e, u, k) /\ u.Store[k] = x /\ u.Lists[k] = e.Lists[k]
      /\ u.Sets[k] = e.Sets[k] /\ u.Hashes[k] = e.Hashes[k] /\ u.Expires[k] = e.Expires[k]
  BY <1>1, <1>2, WriteStore
<1>4. /\ Local(t, w, k) /\ w.Store[k] = y /\ w.Lists[k] = t.Lists[k]
      /\ w.Sets[k] = t.Sets[k] /\ w.Hashes[k] = t.Hashes[k] /\ w.Expires[k] = t.Expires[k]
  BY <1>1, <1>2, WriteStore
<1>5. Local(s, u, k)
  BY ONLY <1>1, <1>3, LocalTrans
<1>6. k \notin E => Same(u, w, k) /\ u.Expires[k] = "none"
  BY <1>1, <1>3, <1>4 DEF Same
<1>7. InStep(u, w, E)
  BY ONLY InStep(s, t, E), k \in Keys, <1>1, <1>4, <1>5, <1>6, OneKey
<1> QED BY <1>7 DEF e, u, w

\* The same of lists,
LEMMA WriteListsBoth ==
  ASSUME NEW s, NEW t, NEW E, InStep(s, t, E), NEW k \in Keys, NEW x, NEW y, k \notin E => x = y
  PROVE  InStep(WithLists(expireIfNeeded(s, k), k, x), WithLists(t, k, y), E)
<1> DEFINE e == expireIfNeeded(s, k)
           u == WithLists(e, k, x)
           w == WithLists(t, k, y)
<1>1. /\ IsDB(t) /\ IsDB(e) /\ Local(s, e, k) /\ t.Expires[k] = "none"
      /\ k \notin E => e = s /\ s.Expires[k] = "none" /\ Same(s, t, k)
  BY Fetched
<1> HIDE DEF e
<1>2. u = WithLists(e, k, x) /\ w = WithLists(t, k, y)
  OBVIOUS
<1> HIDE DEF u, w
<1>3. /\ Local(e, u, k) /\ u.Lists[k] = x /\ u.Store[k] = e.Store[k]
      /\ u.Sets[k] = e.Sets[k] /\ u.Hashes[k] = e.Hashes[k] /\ u.Expires[k] = e.Expires[k]
  BY <1>1, <1>2, WriteLists
<1>4. /\ Local(t, w, k) /\ w.Lists[k] = y /\ w.Store[k] = t.Store[k]
      /\ w.Sets[k] = t.Sets[k] /\ w.Hashes[k] = t.Hashes[k] /\ w.Expires[k] = t.Expires[k]
  BY <1>1, <1>2, WriteLists
<1>5. Local(s, u, k)
  BY ONLY <1>1, <1>3, LocalTrans
<1>6. k \notin E => Same(u, w, k) /\ u.Expires[k] = "none"
  BY <1>1, <1>3, <1>4 DEF Same
<1>7. InStep(u, w, E)
  BY ONLY InStep(s, t, E), k \in Keys, <1>1, <1>4, <1>5, <1>6, OneKey
<1> QED BY <1>7 DEF e, u, w

\* of sets
LEMMA WriteSetsBoth ==
  ASSUME NEW s, NEW t, NEW E, InStep(s, t, E), NEW k \in Keys, NEW x, NEW y, k \notin E => x = y
  PROVE  InStep(WithSets(expireIfNeeded(s, k), k, x), WithSets(t, k, y), E)
<1> DEFINE e == expireIfNeeded(s, k)
           u == WithSets(e, k, x)
           w == WithSets(t, k, y)
<1>1. /\ IsDB(t) /\ IsDB(e) /\ Local(s, e, k) /\ t.Expires[k] = "none"
      /\ k \notin E => e = s /\ s.Expires[k] = "none" /\ Same(s, t, k)
  BY Fetched
<1> HIDE DEF e
<1>2. u = WithSets(e, k, x) /\ w = WithSets(t, k, y)
  OBVIOUS
<1> HIDE DEF u, w
<1>3. /\ Local(e, u, k) /\ u.Sets[k] = x /\ u.Store[k] = e.Store[k]
      /\ u.Lists[k] = e.Lists[k] /\ u.Hashes[k] = e.Hashes[k] /\ u.Expires[k] = e.Expires[k]
  BY <1>1, <1>2, WriteSets
<1>4. /\ Local(t, w, k) /\ w.Sets[k] = y /\ w.Store[k] = t.Store[k]
      /\ w.Lists[k] = t.Lists[k] /\ w.Hashes[k] = t.Hashes[k] /\ w.Expires[k] = t.Expires[k]
  BY <1>1, <1>2, WriteSets
<1>5. Local(s, u, k)
  BY ONLY <1>1, <1>3, LocalTrans
<1>6. k \notin E => Same(u, w, k) /\ u.Expires[k] = "none"
  BY <1>1, <1>3, <1>4 DEF Same
<1>7. InStep(u, w, E)
  BY ONLY InStep(s, t, E), k \in Keys, <1>1, <1>4, <1>5, <1>6, OneKey
<1> QED BY <1>7 DEF e, u, w

\* and of hashes.
LEMMA WriteHashesBoth ==
  ASSUME NEW s, NEW t, NEW E, InStep(s, t, E), NEW k \in Keys, NEW x, NEW y, k \notin E => x = y
  PROVE  InStep(WithHashes(expireIfNeeded(s, k), k, x), WithHashes(t, k, y), E)
<1> DEFINE e == expireIfNeeded(s, k)
           u == WithHashes(e, k, x)
           w == WithHashes(t, k, y)
<1>1. /\ IsDB(t) /\ IsDB(e) /\ Local(s, e, k) /\ t.Expires[k] = "none"
      /\ k \notin E => e = s /\ s.Expires[k] = "none" /\ Same(s, t, k)
  BY Fetched
<1> HIDE DEF e
<1>2. u = WithHashes(e, k, x) /\ w = WithHashes(t, k, y)
  OBVIOUS
<1> HIDE DEF u, w
<1>3. /\ Local(e, u, k) /\ u.Hashes[k] = x /\ u.Store[k] = e.Store[k]
      /\ u.Lists[k] = e.Lists[k] /\ u.Sets[k] = e.Sets[k] /\ u.Expires[k] = e.Expires[k]
  BY <1>1, <1>2, WriteHashes
<1>4. /\ Local(t, w, k) /\ w.Hashes[k] = y /\ w.Store[k] = t.Store[k]
      /\ w.Lists[k] = t.Lists[k] /\ w.Sets[k] = t.Sets[k] /\ w.Expires[k] = t.Expires[k]
  BY <1>1, <1>2, WriteHashes
<1>5. Local(s, u, k)
  BY ONLY <1>1, <1>3, LocalTrans
<1>6. k \notin E => Same(u, w, k) /\ u.Expires[k] = "none"
  BY <1>1, <1>3, <1>4 DEF Same
<1>7. InStep(u, w, E)
  BY ONLY InStep(s, t, E), k \in Keys, <1>1, <1>4, <1>5, <1>6, OneKey
<1> QED BY <1>7 DEF e, u, w

-----------------------------------------------------------------------------
(* The handlers with one key.                                              *)

\* LPUSH and RPUSH.
LEMMA PushInStep ==
  ASSUME NEW s, NEW t, NEW E, InStep(s, t, E), NEW c, c.keys[1] \in Keys
  PROVE  InStep(push(s, c).db, push(t, c).db, E)
<1> DEFINE k == c.keys[1]
           e == expireIfNeeded(s, k)
           p(l) == IF c.name = "LPUSH" THEN LPush(l, c.vals) ELSE RPush(l, c.vals)
<1>1. push(s, c).db = WithLists(e, k, p(e.Lists[k]))
  BY DEF push, Result, WithLists
<1>2. expireIfNeeded(t, k) = t /\ (k \notin E => e.Lists[k] = t.Lists[k])
  BY Fetched DEF Same
<1>3. push(t, c).db = WithLists(t, k, p(t.Lists[k]))
  BY <1>2 DEF push, Result, WithLists
<1>4. k \notin E => p(e.Lists[k]) = p(t.Lists[k])
  BY <1>2
<1> HIDE DEF p
<1> QED BY <1>1, <1>3, <1>4, WriteListsBoth

\* LREM.
LEMMA LRemInStep ==
  ASSUME NEW s, NEW t, NEW E, InStep(s, t, E), NEW c, c.keys[1] \in Keys
  PROVE  InStep(lrem(s, c).db, lrem(t, c).db, E)
<1> DEFINE k == c.keys[1]
           e == expireIfNeeded(s, k)
           p(l) == LRem(l, c.num, c.vals[1]).items
<1>1. lrem(s, c).db = WithLists(e, k, p(e.Lists[k]))
  BY DEF lrem, Result, WithLists
<1>2. expireIfNeeded(t, k) = t /\ (k \notin E => e.Lists[k] = t.Lists[k])
  BY Fetched DEF Same
<1>3. lrem(t, c).db = WithLists(t, k, p(t.Lists[k]))
  BY <1>2 DEF lrem, Result, WithLists
<1>4. k \notin E => p(e.Lists[k]) = p(t.Lists[k])
  BY <1>2
<1> HIDE DEF p
<1> QED BY <1>1, <1>3, <1>4, WriteListsBoth

\* SADD and SREM.
LEMMA SAddInStep ==
  ASSUME NEW s, NEW t, NEW E, InStep(s, t, E), NEW c, c.keys[1] \in Keys
  PROVE  /\ InStep(sadd(s, c).db, sadd(t, c).db, E)
         /\ InStep(srem(s, c).db, srem(t, c).db, E)
<1> DEFINE k == c.keys[1]
           e == expireIfNeeded(s, k)
           p(S) == S \cup ToSet(c.vals)
           q(S) == S \ ToSet(c.vals)
<1>1. /\ sadd(s, c).db = WithSets(e, k, p(e.Sets[k]))
      /\ srem(s, c).db = WithSets(e, k, q(e.Sets[k]))
  BY DEF sadd, srem, Result, WithSets
<1>2. expireIfNeeded(t, k) = t /\ (k \notin E => e.Sets[k] = t.Sets[k])
  BY Fetched DEF Same
<1>3. /\ sadd(t, c).db = WithSets(t, k, p(t.Sets[k]))
      /\ srem(t, c).db = WithSets(t, k, q(t.Sets[k]))
  BY <1>2 DEF sadd, srem, Result, WithSets
<1>4. /\ k \notin E => p(e.Sets[k]) = p(t.Sets[k])
      /\ k \notin E => q(e.Sets[k]) = q(t.Sets[k])
  BY <1>2
<1> HIDE DEF p, q
<1> QED BY <1>1, <1>3, <1>4, WriteSetsBoth

\* HSET, HMSET and HDEL.
LEMMA HashInStep ==
  ASSUME NEW s, NEW t, NEW E, InStep(s, t, E), NEW c, c.keys[1] \in Keys
  PROVE  /\ InStep(hmset(s, c).db, hmset(t, c).db, E)
         /\ InStep(hdel(s, c).db, hdel(t, c).db, E)
<1> DEFINE k == c.keys[1]
           e == expireIfNeeded(s, k)
           p(h) == Updated(h, c.fields, c.vals)
           q(h) == [f \in Fields |-> IF f \in ToSet(c.fields) THEN Nil ELSE h[f]]
<1>1. /\ hmset(s, c).db = WithHashes(e, k, p(e.Hashes[k]))
      /\ hdel(s, c).db = WithHashes(e, k, q(e.Hashes[k]))
  BY DEF hmset, hdel, Result, WithHashes
<1>2. expireIfNeeded(t, k) = t /\ (k \notin E => e.Hashes[k] = t.Hashes[k])
  BY Fetched DEF Same
<1>3. /\ hmset(t, c).db = WithHashes(t, k, p(t.Hashes[k]))
      /\ hdel(t, c).db = WithHashes(t, k, q(t.Hashes[k]))
  BY <1>2 DEF hmset, hdel, Result, WithHashes
<1>4. /\ k \notin E => p(e.Hashes[k]) = p(t.Hashes[k])
      /\ k \notin E => q(e.Hashes[k]) = q(t.Hashes[k])
  BY <1>2
<1> HIDE DEF p, q
<1> QED BY <1>1, <1>3, <1>4, WriteHashesBoth

\* A command that failed, or was not logged, has at most expired its key.
LEMMA ExpireInStep ==
  ASSUME NEW s, NEW t, NEW E, InStep(s, t, E), NEW k \in Keys
  PROVE  InStep(expireIfNeeded(s, k), t, E)
<1> DEFINE e == expireIfNeeded(s, k)
<1>1. /\ IsDB(t) /\ Local(s, e, k) /\ t.Expires[k] = "none"
      /\ k \notin E => e = s /\ s.Expires[k] = "none" /\ Same(s, t, k)
  BY Fetched
<1> HIDE DEF e
<1>2. Local(t, t, k)
  BY <1>1, LocalSelf
<1>3. InStep(e, t, E)
  BY <1>1, <1>2, OneKey
<1> QED BY <1>3 DEF e

\* LSET, logged if the index was in range.
LEMMA LSetInStep ==
  ASSUME NEW s, NEW t, NEW E, InStep(s, t, E), NEW c, c.keys[1] \in Keys
  PROVE  /\ lset(s, c).ok => InStep(lset(s, c).db, lset(t, c).db, E)
         /\ ~lset(s, c).ok => InStep(lset(s, c).db, t, E)
<1> DEFINE k == c.keys[1]
           e == expireIfNeeded(s, k)
           p(l) == LSet(l, c.num, c.vals[1])
<1>1. /\ InRange(e.Lists[k], c.num) => /\ lset(s, c).ok
                                       /\ lset(s, c).db = WithLists(e, k, p(e.Lists[k]))
      /\ ~InRange(e.Lists[k], c.num) => ~lset(s, c).ok /\ lset(s, c).db = e
  BY DEF lset, Result, WithLists
<1>2. /\ expireIfNeeded(t, k) = t /\ IsDB(t)
      /\ k \notin E => e = s /\ e.Lists[k] = t.Lists[k]
  BY Fetched DEF Same
<1>3. lset(t, c).db = IF InRange(t.Lists[k], c.num) THEN WithLists(t, k, p(t.Lists[k])) ELSE t
  BY <1>2 DEF lset, Result, WithLists
<1>4. k \notin E => p(e.Lists[k]) = p(t.Lists[k])
  BY <1>2
<1> HIDE DEF p
<1>5. CASE ~InRange(e.Lists[k], c.num)
  BY <1>1, <1>5, ExpireInStep
<1>6. CASE InRange(e.Lists[k], c.num) /\ InRange(t.Lists[k], c.num)
  BY <1>1, <1>3, <1>4, <1>6, WriteListsBoth
<1>7. CASE InRange(e.Lists[k], c.num) /\ ~InRange(t.Lists[k], c.num)
  <2>1. k \in E
    BY <1>2, <1>7
  <2>2. lset(t, c).db = WithLists(t, k, t.Lists[k])
    <3>1. t.Lists = [t.Lists EXCEPT ![k] = t.Lists[k]]
      BY <1>2 DEF IsDB
    <3>2. t = [t EXCEPT !.Lists = t.Lists]
      BY <1>2 DEF IsDB
    <3>3. t = WithLists(t, k, t.Lists[k])
      BY <3>1, <3>2 DEF WithLists
    <3> QED BY <1>3, <1>7, <3>3
  <2> QED BY <1>1, <1>7, <2>1, <2>2, WriteListsBoth
<1> QED BY <1>5, <1>6, <1>7

\* Writing back what is there changes nothing.
LEMMA WriteSame ==
  ASSUME NEW t, IsDB(t), NEW k \in Keys
  PROVE  t = WithStore(t, k, t.Store[k]) /\ t = WithHashes(t, k, t.Hashes[k])
<1>1. /\ t.Store = [t.Store EXCEPT ![k] = t.Store[k]]
      /\ t.Hashes = [t.Hashes EXCEPT ![k] = t.Hashes[k]]
  BY DEF IsDB
<1>2. t = [t EXCEPT !.Store = t.Store] /\ t = [t EXCEPT !.Hashes = t.Hashes]
  BY DEF IsDB
<1> QED BY <1>1, <1>2 DEF WithStore, WithHashes

\* INCRBY and replayIncrement.
LEMMA IncrementInStep ==
  ASSUME NEW s, NEW t, NEW E, InStep(s, t, E), NEW c, c.keys[1] \in Keys
  PROVE  /\ increment(s, c).ok => InStep(increment(s, c).db, replayIncrement(t, c.keys[1], c.num), E)
         /\ ~increment(s, c).ok => InStep(increment(s, c).db, t, E)
<1> DEFINE k == c.keys[1]
           e == expireIfNeeded(s, k)
           m(x) == IF x = Nil THEN 0 ELSE x
           p(x) == m(x) + c.num
<1>1. /\ m(e.Store[k]) # NotInt => /\ increment(s, c).ok
                                   /\ increment(s, c).db = WithStore(e, k, p(e.Store[k]))
      /\ m(e.Store[k]) = NotInt => ~increment(s, c).ok /\ increment(s, c).db = e
  BY DEF increment, Result, WithStore
<1>2. /\ IsDB(t)
      /\ k \notin E => e = s /\ e.Store[k] = t.Store[k]
  BY Fetched DEF Same
<1>3. replayIncrement(t, k, c.num)
        = IF m(t.Store[k]) = NotInt THEN t ELSE WithStore(t, k, p(t.Store[k]))
  BY DEF replayIncrement, WithStore
<1>4. k \notin E => m(e.Store[k]) = m(t.Store[k]) /\ p(e.Store[k]) = p(t.Store[k])
  BY <1>2
<1> HIDE DEF m, p
<1>5. CASE m(e.Store[k]) = NotInt
  BY <1>1, <1>5, ExpireInStep
<1>6. CASE m(e.Store[k]) # NotInt /\ m(t.Store[k]) # NotInt
  BY <1>1, <1>3, <1>4, <1>6, WriteStoreBoth
<1>7. CASE m(e.Store[k]) # NotInt /\ m(t.Store[k]) = NotInt
  <2>1. k \in E
    BY <1>4, <1>7
  <2>2. replayIncrement(t, k, c.num) = WithStore(t, k, t.Store[k])
    BY <1>2, <1>3, <1>7, WriteSame
  <2> QED BY <1>1, <1>7, <2>1, <2>2, WriteStoreBoth
<1> QED BY <1>5, <1>6, <1>7

\* HINCRBY.
LEMMA HIncrByInStep ==
  ASSUME NEW s, NEW t, NEW E, InStep(s, t, E), NEW c, c.keys[1] \in Keys
  PROVE  /\ hincrby(s, c).ok => InStep(hincrby(s, c).db, hincrby(t, c).db, E)
         /\ ~hincrby(s, c).ok => InStep(hincrby(s, c).db, t, E)
<1> DEFINE k == c.keys[1]
           f == c.fields[1]
           e == expireIfNeeded(s, k)
           m(h) == IF h[f] = Nil THEN 0 ELSE h[f]
           p(h) == [h EXCEPT ![f] = m(h) + c.num]
<1>1. /\ m(e.Hashes[k]) # NotInt => /\ hincrby(s, c).ok
                                    /\ hincrby(s, c).db = WithHashes(e, k, p(e.Hashes[k]))
      /\ m(e.Hashes[k]) = NotInt => ~hincrby(s, c).ok /\ hincrby(s, c).db = e
  BY DEF hincrby, Result, WithHashes
<1>2. /\ expireIfNeeded(t, k) = t /\ IsDB(t)
      /\ k \notin E => e = s /\ e.Hashes[k] = t.Hashes[k]
  BY Fetched DEF Same
<1>3. hincrby(t, c).db
        = IF m(t.Hashes[k]) = NotInt THEN t ELSE WithHashes(t, k, p(t.Hashes[k]))
  BY <1>2 DEF hincrby, Result, WithHashes
<1>4. k \notin E => m(e.Hashes[k]) = m(t.Hashes[k]) /\ p(e.Hashes[k]) = p(t.Hashes[k])
  BY <1>2
<1> HIDE DEF m, p
<1>5. CASE m(e.Hashes[k]) = NotInt
  BY <1>1, <1>5, ExpireInStep
<1>6. CASE m(e.Hashes[k]) # NotInt /\ m(t.Hashes[k]) # NotInt
  BY <1>1, <1>3, <1>4, <1>6, WriteHashesBoth
<1>7. CASE m(e.Hashes[k]) # NotInt /\ m(t.Hashes[k]) = NotInt
  <2>1. k \in E
    BY <1>4, <1>7
  <2>2. hincrby(t, c).db = WithHashes(t, k, t.Hashes[k])
    BY <1>2, <1>3, <1>7, WriteSame
  <2> QED BY <1>1, <1>7, <2>1, <2>2, WriteHashesBoth
<1> QED BY <1>5, <1>6, <1>7

\* EXPIRE, which is not logged, sets its key apart when it sets a deadline.
LEMMA SetExpireInStep ==
  ASSUME NEW s, NEW t, NEW E, InStep(s, t, E), NEW c, c.keys[1] \in Keys
  PROVE  InStep(setExpire(s, c).db, t, IF setExpire(s, c).num = 1 THEN E \cup {c.keys[1]} ELSE E)
<1> DEFINE k == c.keys[1]
           e == expireIfNeeded(s, k)
           u == WithExpires(e, k, "future")
<1>1. CASE Exists(e, k)
  <2>1. setExpire(s, c).db = u /\ setExpire(s, c).num = 1
    BY <1>1 DEF setExpire, Result, WithExpires
  <2>2. IsDB(e) /\ Local(s, e, k) /\ IsDB(t) /\ t.Expires[k] = "none"
    BY Fetched
  <2> HIDE DEF e
  <2>3. Local(e, u, k)
    BY <2>2, WriteExpires
  <2> HIDE DEF u
  <2>4. Local(s, u, k) /\ Local(t, t, k)
    BY <2>2, <2>3, LocalTrans, LocalSelf
  <2>5. InStep(s, t, E \cup {k})
    BY DEF InStep
  <2>6. InStep(u, t, E \cup {k})
    BY <2>2, <2>4, <2>5, OneKey
  <2> QED BY <2>1, <2>6
<1>2. CASE ~Exists(e, k)
  <2>1. setExpire(s, c).db = e /\ setExpire(s, c).num # 1
    BY <1>2 DEF setExpire, Result
  <2> QED BY <2>1, ExpireInStep
<1> QED BY <1>1, <1>2

\* PERSIST, which is not logged.
LEMMA PersistInStep ==
  ASSUME NEW s, NEW t, NEW E, InStep(s, t, E), NEW c, c.keys[1] \in Keys
  PROVE  InStep(persist(s, c).db, t, E)
<1> DEFINE k == c.keys[1]
           e == expireIfNeeded(s, k)
           u == WithExpires(e, k, "none")
<1>1. persist(s, c).db = u
  BY DEF persist, Result, WithExpires
<1>2. /\ IsDB(e) /\ Local(s, e, k) /\ IsDB(t) /\ t.Expires[k] = "none"
      /\ k \notin E => e = s /\ Same(s, t, k)
  BY Fetched
<1> HIDE DEF e
<1>3. /\ Local(e, u, k) /\ u.Expires[k] = "none" /\ u.Store[k] = e.Store[k]
      /\ u.Lists[k] = e.Lists[k] /\ u.Sets[k] = e.Sets[k] /\ u.Hashes[k] = e.Hashes[k]
  BY <1>2, WriteExpires
<1> HIDE DEF u
<1>4. Local(s, u, k) /\ Local(t, t, k)
  BY <1>2, <1>3, LocalTrans, LocalSelf
<1>5. k \notin E => Same(u, t, k) /\ u.Expires[k] = "none"
  BY <1>2, <1>3 DEF Same
<1> QED BY <1>1, <1>2, <1>4, <1>5, OneKey

-----------------------------------------------------------------------------
(* The handlers with several keys.                                         *)

\* The entries of Updated depend on the old one only where nothing is written.
LEMMA UpdatedAt ==
  ASSUME NEW g, NEW h, g = [k \in Keys |-> g[k]], h = [k \in Keys |-> h[k]], NEW xs, NEW vs
  PROVE  /\ Updated(g, xs, vs) = [k \in Keys |-> Updated(g, xs, vs)[k]]
         /\ \A k \in Keys : g[k] = h[k] => Updated(g, xs, vs)[k] = Updated(h, xs, vs)[k]
<1> DEFINE V(k) == vs[Max({i \in DOMAIN xs : xs[i] = k})]
           A == ToSet(xs)
<1>1. DOMAIN g = Keys /\ DOMAIN h = Keys
  OBVIOUS
<1>2. /\ Updated(g, xs, vs) = [k \in Keys |-> IF k \in A THEN V(k) ELSE g[k]]
      /\ Updated(h, xs, vs) = [k \in Keys |-> IF k \in A THEN V(k) ELSE h[k]]
  BY <1>1 DEF Updated
<1> HIDE DEF V, A
<1> QED BY <1>2

\* What SET and MSET leave.
LEMMA MSetAt ==
  ASSUME NEW s, IsDB(s), NEW c
  PROVE  /\ IsDB(mset(s, c).db)
         /\ mset(s, c).db.Store = Updated(s.Store, c.keys, c.vals)
         /\ mset(s, c).db.Lists = s.Lists /\ mset(s, c).db.Sets = s.Sets
         /\ mset(s, c).db.Hashes = s.Hashes
         /\ \A k \in Keys : s.Expires[k] = "none" => mset(s, c).db.Expires[k] = "none"
<1> DEFINE u == mset(s, c).db
           a == Updated(s.Store, c.keys, c.vals)
           e == [k \in Keys |-> IF k \in ToSet(c.keys) THEN "none" ELSE s.Expires[k]]
<1>1. u = [Store |-> a, Lists |-> s.Lists, Sets |-> s.Sets, Hashes |-> s.Hashes, Expires |-> e]
  <2>1. u = [s EXCEPT !.Store = a, !.Expires = e]
    BY DEF mset, Result
  <2> HIDE DEF u, a, e
  <2> QED BY <2>1 DEF IsDB
<1>2. a = [k \in Keys |-> a[k]]
  BY UpdatedAt DEF IsDB
<1>3. e = [k \in Keys |-> e[k]] /\ \A k \in Keys : s.Expires[k] = "none" => e[k] = "none"
  OBVIOUS
<1>4. /\ s.Lists = [j \in Keys |-> s.Lists[j]] /\ s.Sets = [j \in Keys |-> s.Sets[j]]
      /\ s.Hashes = [j \in Keys |-> s.Hashes[j]]
  BY DEF IsDB
<1> HIDE DEF u, a, e
<1>5. IsDB(u) /\ u.Store = a /\ u.Lists = s.Lists /\ u.Sets = s.Sets /\ u.Hashes = s.Hashes /\ u.Expires = e
  BY <1>1, <1>2, <1>3, <1>4, MakeDB
<1>6. \A k \in Keys : s.Expires[k] = "none" => u.Expires[k] = "none"
  BY <1>3, <1>5
<1> QED BY <1>5, <1>6 DEF u, a

\* SET and MSET.
LEMMA MSetInStep ==
  ASSUME NEW s, NEW t, NEW E, InStep(s, t, E), NEW c
  PROVE  InStep(mset(s, c).db, mset(t, c).db, E)
<1> DEFINE u == mset(s, c).db
           w == mset(t, c).db
           a == Updated(s.Store, c.keys, c.vals)
           b == Updated(t.Store, c.keys, c.vals)
<1>1. IsDB(s) /\ IsDB(t)
  BY DEF InStep
<1>2. /\ IsDB(u) /\ u.Store = a /\ u.Lists = s.Lists /\ u.Sets = s.Sets /\ u.Hashes = s.Hashes
      /\ \A k \in Keys : s.Expires[k] = "none" => u.Expires[k] = "none"
  BY <1>1, MSetAt
<1>3. /\ IsDB(w) /\ w.Store = b /\ w.Lists = t.Lists /\ w.Sets = t.Sets /\ w.Hashes = t.Hashes
      /\ \A k \in Keys : t.Expires[k] = "none" => w.Expires[k] = "none"
  BY <1>1, MSetAt
<1>4. \A k \in Keys : s.Store[k] = t.Store[k] => a[k] = b[k]
  BY <1>1, UpdatedAt DEF IsDB
<1> HIDE DEF u, w, a, b
<1>5. InStep(u, w, E)
  BY <1>2, <1>3, <1>4 DEF InStep, Same
<1> QED BY <1>5 DEF u, w

\* DEL, after which its keys are no longer set apart.
LEMMA DelInStep ==
  ASSUME NEW s, NEW t, NEW E, InStep(s, t, E), NEW c
  PROVE  InStep(del(s, c).db, del(t, c).db, E \ ToSet(c.keys))
<1> DEFINE K == ToSet(c.keys)
           u == EraseAll(s, K)
           w == EraseAll(t, K)
<1>1. del(s, c).db = u /\ del(t, c).db = w
  BY DEF del, DeleteKeys, Result
<1> HIDE DEF K
<1>2. /\ IsDB(u) /\ IsDB(w)
      /\ \A k \in Keys \ K : Untouched(s, u, k) /\ Untouched(t, w, k)
      /\ \A k \in Keys \cap K : /\ Same(Empty, u, k) /\ u.Expires[k] = "none"
                                /\ Same(Empty, w, k) /\ w.Expires[k] = "none"
  BY EraseAllKeys
<1> HIDE DEF u, w
<1>3. ASSUME NEW k \in Keys \cap K
      PROVE  Same(u, w, k) /\ u.Expires[k] = "none" /\ w.Expires[k] = "none"
  BY <1>2 DEF Same
<1>4. ASSUME NEW k \in Keys \ K
      PROVE  /\ k \notin E => Same(u, w, k) /\ u.Expires[k] = "none"
             /\ w.Expires[k] = "none"
  BY <1>2 DEF InStep, Untouched, Same
<1>5. InStep(u, w, E \ K)
  BY <1>2, <1>3, <1>4 DEF InStep
<1> QED BY <1>1, <1>5 DEF K

\* Expired keys are outside the part that is in step.
LEMMA SweepInStep ==
  ASSUME NEW s, NEW t, NEW E, InStep(s, t, E), NEW K, K \subseteq Due(s)
  PROVE  InStep(EraseAll(s, K), t, E)
<1> DEFINE u == EraseAll(s, K)
<1>1. IsDB(u) /\ \A k \in Keys \ K : Untouched(s, u, k)
  BY EraseAllKeys
<1>2. \A k \in Keys \ E : k \notin K
  BY DEF Due, InStep
<1> HIDE DEF u
<1>3. InStep(u, t, E)
  BY <1>1, <1>2 DEF InStep, Untouched, Same
<1> QED BY <1>3 DEF u

\* More keys may be set apart.
LEMMA Weaken ==
  ASSUME NEW s, NEW t, NEW E, InStep(s, t, E), NEW F, E \subseteq F
  PROVE  InStep(s, t, F)
BY DEF InStep

\* Keys that are set apart may change on both sides.
LEMMA OnlyApart ==
  ASSUME NEW s, NEW t, NEW E, InStep(s, t, E), NEW u, NEW w, IsDB(u), IsDB(w),
         \A j \in Keys \ E : Untouched(s, u, j) /\ Untouched(t, w, j),
         \A j \in Keys : w.Expires[j] = "none"
  PROVE  InStep(u, w, E)
BY DEF InStep, Untouched, Same

\* LPOP, RPOP, BLPOP and BRPOP: if one of the keys is set apart all of them
\* are afterwards, else both sides pop from the same key.
LEMMA PopInStep ==
  ASSUME NEW s, NEW t, NEW E, InStep(s, t, E), NEW c, NEW F, E \subseteq F,
         c.keys \in Seq(Keys),
         ToSet(c.keys) \cap E # {} => ToSet(c.keys) \subseteq F
  PROVE  InStep(pop(s, c).db, replayListPop(t, c.keys, FromLeft(c)), F)
<1> DEFINE ks == c.keys
           live(i) == expireIfNeeded(s, ks[i]).Lists[ks[i]]
           data == {i \in DOMAIN ks : live(i) # << >>}
           withData == {i \in DOMAIN ks : t.Lists[ks[i]] # << >>}
           tried == IF data = {} THEN DOMAIN ks ELSE 1 .. Min(data)
           K == {ks[i] : i \in tried} \cap Due(s)
           e == EraseAll(s, K)
           i0 == Min(data)
           j0 == Min(withData)
<1>1. /\ data = {} => pop(s, c).db = e
      /\ data # {} => pop(s, c).db = WithLists(e, ks[i0], Popped(e.Lists[ks[i0]], FromLeft(c)))
  BY DEF pop, Result, WithLists
<1>2. /\ withData = {} => replayListPop(t, ks, FromLeft(c)) = t
      /\ withData # {} => replayListPop(t, ks, FromLeft(c))
                            = WithLists(t, ks[j0], Popped(t.Lists[ks[j0]], FromLeft(c)))
  BY DEF replayListPop, WithLists
<1>3. \A i \in DOMAIN ks : ks[i] \in Keys /\ i \in Nat
  OBVIOUS
<1>4. data # {} => i0 \in data
  <2> HAVE data # {}
  <2>1. data \in SUBSET Nat
    BY <1>3
  <2> HIDE DEF data
  <2>2. \E x \in data : \A y \in data : x <= y
    BY <2>1, MinExists
  <2> QED BY <2>2 DEF Min
<1>5. withData # {} => j0 \in withData
  <2> HAVE withData # {}
  <2>1. withData \in SUBSET Nat
    BY <1>3
  <2> HIDE DEF withData
  <2>2. \E x \in withData : \A y \in withData : x <= y
    BY <2>1, MinExists
  <2> QED BY <2>2 DEF Min
<1>6. (data # {} => i0 \in DOMAIN ks) /\ (withData # {} => j0 \in DOMAIN ks)
  BY <1>4, <1>5
<1>7. (data # {} => ks[i0] \in Keys /\ ks[i0] \in ToSet(ks))
        /\ (withData # {} => ks[j0] \in Keys /\ ks[j0] \in ToSet(ks))
  BY <1>3, <1>6 DEF ToSet
<1>8. IsDB(s) /\ IsDB(t) /\ \A j \in Keys : t.Expires[j] = "none"
  BY DEF InStep
<1>9. CASE ToSet(ks) \cap E = {}
  <2>1. \A i \in DOMAIN ks : ks[i] \notin E
    BY <1>9 DEF ToSet
  <2>2. K = {}
    <3>1. tried \subseteq DOMAIN ks
      <4>1. DOMAIN ks = 1 .. Len(ks) /\ Len(ks) \in Nat
        OBVIOUS
      <4> HIDE DEF data, ks
      <4>2. data # {} => i0 \in 1 .. Len(ks)
        BY <1>6, <4>1
      <4> QED BY <4>1, <4>2
    <3> HIDE DEF tried, ks
    <3>2. \A i \in tried : ks[i] \in Keys /\ ks[i] \notin E
      BY <1>3, <2>1, <3>1
    <3>3. \A k \in Keys : k \notin E => k \notin Due(s)
      BY DEF Due, InStep
    <3> QED BY <3>2, <3>3
  <2>3. e = s
    BY <2>2, <1>8, EraseNone
  <2>4. \A i \in DOMAIN ks : expireIfNeeded(s, ks[i]) = s /\ s.Lists[ks[i]] = t.Lists[ks[i]]
    BY <2>1, <1>3, Fetched DEF Same
  <2>5. \A i \in DOMAIN ks : live(i) = t.Lists[ks[i]]
    BY <2>4
  <2>6. data = withData
    BY <2>5
  <2> HIDE DEF live, data, withData, e, K, tried
  <2>7. i0 = j0
    BY <2>6
  <2> HIDE DEF i0, j0
  <2>8. CASE data = {}
    BY <2>3, <2>6, <2>8, <1>1, <1>2, Weaken
  <2>9. CASE data # {}
    <3> DEFINE k == ks[i0]
               x == Popped(s.Lists[k], FromLeft(c))
               y == Popped(t.Lists[k], FromLeft(c))
    <3>1. k \in Keys /\ expireIfNeeded(s, k) = s /\ s.Lists[k] = t.Lists[k]
      BY <1>6, <1>7, <2>4, <2>9
    <3>2. pop(s, c).db = WithLists(expireIfNeeded(s, k), k, x)
      BY <1>1, <2>3, <2>9, <3>1
    <3>3. replayListPop(t, ks, FromLeft(c)) = WithLists(t, k, y)
      BY <1>2, <2>6, <2>7, <2>9
    <3>4. x = y
      BY <3>1
    <3> HIDE DEF k, x, y
    <3>5. InStep(pop(s, c).db, replayListPop(t, ks, FromLeft(c)), E)
      BY <3>1, <3>2, <3>3, <3>4, WriteListsBoth
    <3> QED BY <3>5, Weaken
  <2> QED BY <2>8, <2>9
<1>10. CASE ToSet(ks) \cap E # {}
  <2>1. ToSet(ks) \subseteq F
    BY <1>10
  <2>2. K \subseteq Due(s)
    OBVIOUS
  <2>3. InStep(e, t, F)
    <3> HIDE DEF K
    <3> QED BY <2>2, SweepInStep, Weaken
  <2>4. IsDB(e)
    BY <2>3 DEF InStep
  <2> DEFINE u == pop(s, c).db
             w == replayListPop(t, ks, FromLeft(c))
  <2> HIDE DEF live, data, withData, e, K, tried, i0, j0
  <2>5. IsDB(u) /\ \A j \in Keys \ F : Untouched(e, u, j)
    <3>1. CASE data = {}
      BY <1>1, <2>4, <3>1 DEF Untouched, Same
    <3>2. CASE data # {}
      <4> DEFINE k == ks[i0]
                 x == Popped(e.Lists[k], FromLeft(c))
      <4>1. k \in Keys /\ k \in F /\ u = WithLists(e, k, x)
        BY <1>1, <1>7, <2>1, <3>2
      <4> HIDE DEF k, x, u
      <4>2. Local(e, u, k)
        BY <2>4, <4>1, WriteLists
      <4> QED BY <4>1, <4>2 DEF Local
    <3> QED BY <3>1, <3>2
  <2>6. IsDB(w) /\ (\A j \in Keys \ F : Untouched(t, w, j)) /\ \A j \in Keys : w.Expires[j] = "none"
    <3>1. CASE withData = {}
      BY <1>2, <1>8, <3>1 DEF Untouched, Same
    <3>2. CASE withData # {}
      <4> DEFINE k == ks[j0]
                 x == Popped(t.Lists[k], FromLeft(c))
      <4>1. k \in Keys /\ k \in F /\ w = WithLists(t, k, x)
        BY <1>2, <1>7, <2>1, <3>2
      <4> HIDE DEF k, x, w
      <4>2. Local(t, w, k) /\ w.Expires[k] = t.Expires[k]
        BY <1>8, <4>1, WriteLists
      <4> QED BY <1>8, <4>1, <4>2 DEF Local, Untouched
    <3> QED BY <3>1, <3>2
  <2> HIDE DEF u, w
  <2>7. InStep(u, w, F)
    BY <2>3, <2>5, <2>6, OnlyApart
  <2> QED BY <2>7 DEF u, w
<1> QED BY <1>9, <1>10

-----------------------------------------------------------------------------
(* The steps.                                                              *)

\* The names of commands that change data or deadlines.
Names == {"SET", "MSET", "DEL", "INCRBY", "LPUSH", "RPUSH", "LPOP", "RPOP", "BLPOP", "BRPOP",
          "LSET", "LREM", "SADD", "SREM", "HSET", "HMSET", "HDEL", "HINCRBY", "EXPIRE", "PERSIST"}

\* The handler each name has.
LEMMA Dispatch ==
  ASSUME NEW s, NEW c
  PROVE  /\ c.name \in {"SET", "MSET"} => Handle(s, c) = mset(s, c)
         /\ c.name = "DEL" => Handle(s, c) = del(s, c)
         /\ c.name = "INCRBY" => Handle(s, c) = increment(s, c)
         /\ c.name \in {"LPUSH", "RPUSH"} => Handle(s, c) = push(s, c)
         /\ c.name \in {"LPOP", "RPOP", "BLPOP", "BRPOP"} => Handle(s, c) = pop(s, c)
         /\ c.name = "LSET" => Handle(s, c) = lset(s, c)
         /\ c.name = "LREM" => Handle(s, c) = lrem(s, c)
         /\ c.name = "SADD" => Handle(s, c) = sadd(s, c)
         /\ c.name = "SREM" => Handle(s, c) = srem(s, c)
         /\ c.name \in {"HSET", "HMSET"} => Handle(s, c) = hmset(s, c)
         /\ c.name = "HDEL" => Handle(s, c) = hdel(s, c)
         /\ c.name = "HINCRBY" => Handle(s, c) = hincrby(s, c)
         /\ c.name = "EXPIRE" => Handle(s, c) = setExpire(s, c)
         /\ c.name = "PERSIST" => Handle(s, c) = persist(s, c)
BY DEF Handle

\* What replayCommand does for each name is what the handler does to the
\* database, but for INCRBY and the pops.
LEMMA ReplayDispatch ==
  ASSUME NEW s, NEW c
  PROVE  /\ c.name = "INCRBY" => replayCommand(s, c) = replayIncrement(s, c.keys[1], c.num)
         /\ c.name \in {"LPOP", "RPOP", "BLPOP", "BRPOP"} =>
              replayCommand(s, c) = replayListPop(s, c.keys, FromLeft(c))
         /\ c.name \in {"SET", "MSET"} => replayCommand(s, c) = mset(s, c).db
         /\ c.name = "DEL" => replayCommand(s, c) = del(s, c).db
         /\ c.name \in {"LPUSH", "RPUSH"} => replayCommand(s, c) = push(s, c).db
         /\ c.name = "LSET" => replayCommand(s, c) = lset(s, c).db
         /\ c.name = "LREM" => replayCommand(s, c) = lrem(s, c).db
         /\ c.name = "SADD" => replayCommand(s, c) = sadd(s, c).db
         /\ c.name = "SREM" => replayCommand(s, c) = srem(s, c).db
         /\ c.name \in {"HSET", "HMSET"} => replayCommand(s, c) = hmset(s, c).db
         /\ c.name = "HDEL" => replayCommand(s, c) = hdel(s, c).db
         /\ c.name = "HINCRBY" => replayCommand(s, c) = hincrby(s, c).db
<1>1. /\ c.name = "INCRBY" => replayCommand(s, c) = replayIncrement(s, c.keys[1], c.num)
      /\ c.name \in {"LPOP", "RPOP", "BLPOP", "BRPOP"} =>
           replayCommand(s, c) = replayListPop(s, c.keys, FromLeft(c))
  BY DEF replayCommand
<1>2. c.name \in {"SET", "MSET"} => replayCommand(s, c) = mset(s, c).db
  BY DEF replayCommand, mset, Result
<1>3. c.name = "DEL" => replayCommand(s, c) = del(s, c).db
  BY DEF replayCommand, del, DeleteKeys, Result
<1>4. c.name \in {"LPUSH", "RPUSH"} => replayCommand(s, c) = push(s, c).db
  BY DEF replayCommand, push, Result
<1>5. c.name = "LSET" => replayCommand(s, c) = lset(s, c).db
  BY DEF replayCommand, lset, Result
<1>6. c.name = "LREM" => replayCommand(s, c) = lrem(s, c).db
  BY DEF replayCommand, lrem, Result
<1>7. c.name = "SADD" => replayCommand(s, c) = sadd(s, c).db
  BY DEF replayCommand, sadd, Result
<1>8. c.name = "SREM" => replayCommand(s, c) = srem(s, c).db
  BY DEF replayCommand, srem, Result
<1>9. c.name \in {"HSET", "HMSET"} => replayCommand(s, c) = hmset(s, c).db
  BY DEF replayCommand, hmset, Result
<1>10. c.name = "HDEL" => replayCommand(s, c) = hdel(s, c).db
  BY DEF replayCommand, hdel, Result
<1>11. c.name = "HINCRBY" => replayCommand(s, c) = hincrby(s, c).db
  BY DEF replayCommand, hincrby, Result
<1> QED BY <1>1, <1>2, <1>3, <1>4, <1>5, <1>6, <1>7, <1>8, <1>9, <1>10, <1>11

\* Which handlers never reply with an error.
LEMMA NeverFails ==
  ASSUME NEW s, NEW c
  PROVE  mset(s, c).ok /\ del(s, c).ok /\ push(s, c).ok /\ pop(s, c).ok /\ lrem(s, c).ok
           /\ sadd(s, c).ok /\ srem(s, c).ok /\ hmset(s, c).ok /\ hdel(s, c).ok
<1>1. mset(s, c).ok /\ del(s, c).ok /\ push(s, c).ok
  BY DEF mset, del, DeleteKeys, push, Result
<1>2. pop(s, c).ok
  BY DEF pop, Result
<1>3. lrem(s, c).ok /\ sadd(s, c).ok /\ srem(s, c).ok
  BY DEF lrem, sadd, srem, Result
<1>4. hmset(s, c).ok /\ hdel(s, c).ok
  BY DEF hmset, hdel, Result
<1> QED BY <1>1, <1>2, <1>3, <1>4

\* A command leaves the two databases in step.
LEMMA CommandStep ==
  ASSUME KInv, NEW c, processCommand(c),
         c.name \in Names, c.keys \in Seq(Keys), c.keys # << >>,
         c.name \notin {"MSET", "DEL", "BLPOP", "BRPOP"} => c.keys = <<c.keys[1]>>
  PROVE  KInv'
<1> DEFINE r == Handle(db, c)
           K == ToSet(c.keys)
<1>1. /\ db' = r.db
      /\ copy' = IF r.ok /\ shouldPersist(c.name) THEN replayCommand(copy, c) ELSE copy
      /\ excused' = Excused(c, r.num)
  BY DEF processCommand
<1>2. c.keys[1] \in Keys /\ InStep(db, copy, excused)
  BY DEF KInv
<1> SUFFICES InStep(db', copy', excused')
  BY DEF KInv
<1>3. /\ c.name \notin {"EXPIRE", "BLPOP", "BRPOP", "DEL"} => excused' = excused
      /\ c.name = "DEL" => excused' = excused \ K
      /\ c.name = "EXPIRE" => excused' = IF r.num = 1 THEN excused \cup K ELSE excused
      /\ c.name \in {"BLPOP", "BRPOP"} =>
           excused' = IF K \cap excused # {} THEN excused \cup K ELSE excused
  BY <1>1 DEF Excused
<1>4. shouldPersist(c.name) <=> c.name \notin {"EXPIRE", "PERSIST"}
  BY DEF shouldPersist
<1> HIDE DEF r, K
<1>5. CASE c.name \in {"SET", "MSET"}
  <2>1. r = mset(db, c) /\ r.ok /\ copy' = mset(copy, c).db /\ excused' = excused
    BY <1>1, <1>3, <1>4, <1>5, Dispatch, ReplayDispatch, NeverFails DEF r
  <2> QED BY <1>1, <1>2, <2>1, MSetInStep
<1>6. CASE c.name = "DEL"
  <2>1. r = del(db, c) /\ r.ok /\ copy' = del(copy, c).db /\ excused' = excused \ K
    BY <1>1, <1>3, <1>4, <1>6, Dispatch, ReplayDispatch, NeverFails DEF r
  <2>2. InStep(del(db, c).db, del(copy, c).db, excused \ ToSet(c.keys))
    BY <1>2, DelInStep
  <2>3. InStep(del(db, c).db, del(copy, c).db, excused \ K)
    BY <2>2 DEF K
  <2> QED BY <1>1, <2>1, <2>3
<1>7. CASE c.name = "INCRBY"
  <2>1. /\ r = increment(db, c) /\ excused' = excused
        /\ copy' = IF r.ok THEN replayIncrement(copy, c.keys[1], c.num) ELSE copy
    BY <1>1, <1>3, <1>4, <1>7, Dispatch, ReplayDispatch DEF r
  <2> QED BY <1>1, <1>2, <2>1, IncrementInStep
<1>8. CASE c.name \in {"LPUSH", "RPUSH"}
  <2>1. r = push(db, c) /\ r.ok /\ copy' = push(copy, c).db /\ excused' = excused
    BY <1>1, <1>3, <1>4, <1>8, Dispatch, ReplayDispatch, NeverFails DEF r
  <2> QED BY <1>1, <1>2, <2>1, PushInStep
<1>9. CASE c.name \in {"LPOP", "RPOP", "BLPOP", "BRPOP"}
  <2>1. r = pop(db, c) /\ r.ok /\ copy' = replayListPop(copy, c.keys, FromLeft(c))
    BY <1>1, <1>4, <1>9, Dispatch, ReplayDispatch, NeverFails DEF r
  <2>2. excused \subseteq excused' /\ (K \cap excused # {} => K \subseteq excused')
    <3>1. CASE c.name \in {"BLPOP", "BRPOP"}
      BY <1>3, <3>1
    <3>2. CASE c.name \in {"LPOP", "RPOP"}
      <4>1. excused' = excused /\ c.keys = <<c.keys[1]>>
        BY <1>3, <3>2
      <4>2. K = {c.keys[1]}
        <5> DEFINE k == c.keys[1]
        <5>1. c.keys = <<k>>
          BY <4>1
        <5> HIDE DEF k
        <5>2. ToSet(<<k>>) = {k}
          BY DEF ToSet
        <5> QED BY <5>1, <5>2 DEF K, k
      <4> QED BY <4>1, <4>2
    <3> QED BY <1>9, <3>1, <3>2
  <2>3. InStep(pop(db, c).db, replayListPop(copy, c.keys, FromLeft(c)), excused')
    BY <1>2, <2>2, PopInStep DEF K
  <2> QED BY <1>1, <2>1, <2>3
<1>10. CASE c.name = "LSET"
  <2>1. /\ r = lset(db, c) /\ excused' = excused
        /\ copy' = IF r.ok THEN lset(copy, c).db ELSE copy
    BY <1>1, <1>3, <1>4, <1>10, Dispatch, ReplayDispatch DEF r
  <2> QED BY <1>1, <1>2, <2>1, LSetInStep
<1>11. CASE c.name = "LREM"
  <2>1. r = lrem(db, c) /\ r.ok /\ copy' = lrem(copy, c).db /\ excused' = excused
    BY <1>1, <1>3, <1>4, <1>11, Dispatch, ReplayDispatch, NeverFails DEF r
  <2> QED BY <1>1, <1>2, <2>1, LRemInStep
<1>12. CASE c.name = "SADD"
  <2>1. r = sadd(db, c) /\ r.ok /\ copy' = sadd(copy, c).db /\ excused' = excused
    BY <1>1, <1>3, <1>4, <1>12, Dispatch, ReplayDispatch, NeverFails DEF r
  <2> QED BY <1>1, <1>2, <2>1, SAddInStep
<1>13. CASE c.name = "SREM"
  <2>1. r = srem(db, c) /\ r.ok /\ copy' = srem(copy, c).db /\ excused' = excused
    BY <1>1, <1>3, <1>4, <1>13, Dispatch, ReplayDispatch, NeverFails DEF r
  <2> QED BY <1>1, <1>2, <2>1, SAddInStep
<1>14. CASE c.name \in {"HSET", "HMSET"}
  <2>1. r = hmset(db, c) /\ r.ok /\ copy' = hmset(copy, c).db /\ excused' = excused
    BY <1>1, <1>3, <1>4, <1>14, Dispatch, ReplayDispatch, NeverFails DEF r
  <2> QED BY <1>1, <1>2, <2>1, HashInStep
<1>15. CASE c.name = "HDEL"
  <2>1. r = hdel(db, c) /\ r.ok /\ copy' = hdel(copy, c).db /\ excused' = excused
    BY <1>1, <1>3, <1>4, <1>15, Dispatch, ReplayDispatch, NeverFails DEF r
  <2> QED BY <1>1, <1>2, <2>1, HashInStep
<1>16. CASE c.name = "HINCRBY"
  <2>1. /\ r = hincrby(db, c) /\ excused' = excused
        /\ copy' = IF r.ok THEN hincrby(copy, c).db ELSE copy
    BY <1>1, <1>3, <1>4, <1>16, Dispatch, ReplayDispatch DEF r
  <2> QED BY <1>1, <1>2, <2>1, HIncrByInStep
<1>17. CASE c.name = "EXPIRE"
  <2>1. /\ r = setExpire(db, c) /\ copy' = copy
        /\ excused' = IF r.num = 1 THEN excused \cup K ELSE excused
    BY <1>1, <1>3, <1>4, <1>17, Dispatch DEF r
  <2>2. c.keys[1] \in K
    BY DEF K, ToSet
  <2>3. InStep(r.db, copy, IF r.num = 1 THEN excused \cup {c.keys[1]} ELSE excused)
    BY <1>2, <2>1, SetExpireInStep
  <2>4. (IF r.num = 1 THEN excused \cup {c.keys[1]} ELSE excused) \subseteq excused'
    BY <2>1, <2>2
  <2>5. InStep(r.db, copy, excused')
    BY <2>3, <2>4, Weaken
  <2> QED BY <1>1, <2>1, <2>5
<1>18. CASE c.name = "PERSIST"
  <2>1. r = persist(db, c) /\ copy' = copy /\ excused' = excused
    BY <1>1, <1>3, <1>4, <1>18, Dispatch DEF r
  <2> QED BY <1>1, <1>2, <2>1, PersistInStep
<1> QED BY <1>5, <1>6, <1>7, <1>8, <1>9, <1>10, <1>11, <1>12, <1>13, <1>14, <1>15, <1>16,
           <1>17, <1>18 DEF Names

\* The call that a command line becomes.
LEMMA CallStep ==
  ASSUME KInv, NEW name \in Names, NEW ks \in Seq(Keys), ks # << >>, NEW vs, NEW fs, NEW num,
         name \notin {"MSET", "DEL", "BLPOP", "BRPOP"} => ks = <<ks[1]>>,
         processCommand(Call(name, ks, vs, fs, num))
  PROVE  KInv'
<1> DEFINE c == Call(name, ks, vs, fs, num)
<1>1. c.name = name /\ c.keys = ks
  BY DEF Call
<1> HIDE DEF c
<1>2. processCommand(c)
  BY DEF c
<1> QED BY <1>1, <1>2, CommandStep

\* Keys of a command with one key, and with two.
LEMMA KeyLists ==
  /\ \A k \in Keys : <<k>> \in Seq(Keys) /\ <<k>> # << >> /\ <<k>> = <<(<<k>>)[1]>>
  /\ \A ks \in Keys \X Keys : ks \in Seq(Keys) /\ ks # << >>
  /\ \A ks \in Pairs(Keys) : ks \in Seq(Keys) /\ ks # << >>
<1>1. \A k \in Keys : <<k>> \in Seq(Keys) /\ <<k>> # << >> /\ <<k>> = <<(<<k>>)[1]>>
  OBVIOUS
<1>2. \A ks \in Keys \X Keys : ks \in Seq(Keys) /\ ks # << >>
  <2> TAKE ks \in Keys \X Keys
  <2>1. PICK a \in Keys, b \in Keys : ks = <<a, b>>
    OBVIOUS
  <2>2. <<a, b>> \in Seq(Keys) /\ <<a, b>> # << >>
    OBVIOUS
  <2> QED BY <2>1, <2>2
<1> QED BY <1>1, <1>2 DEF Pairs

\* SPOP sets its key apart.
LEMMA SPopStep ==
  ASSUME KInv, SPop
  PROVE  KInv'
<1>1. PICK k \in Keys :
        LET t == expireIfNeeded(db, k) IN
        /\ excused' = excused \cup {k}
        /\ IF t.Sets[k] = {} THEN db' = t
           ELSE \E m \in t.Sets[k] : db' = [t EXCEPT !.Sets[k] = @ \ {m}]
        /\ IF copy.Sets[k] = {} THEN copy' = copy
           ELSE \E m \in copy.Sets[k] : copy' = [copy EXCEPT !.Sets[k] = @ \ {m}]
  BY DEF SPop
<1> DEFINE e == expireIfNeeded(db, k)
<1>2. excused' = excused \cup {k}
  BY <1>1
<1>3. db' = e \/ \E x : db' = WithSets(e, k, x)
  BY <1>1 DEF WithSets
<1>4. copy' = copy \/ \E x : copy' = WithSets(copy, k, x)
  BY <1>1 DEF WithSets
<1>5. /\ InStep(db, copy, excused) /\ IsDB(copy) /\ copy.Expires[k] = "none"
      /\ Local(db, e, k) /\ IsDB(e)
  BY Fetched DEF KInv
<1> HIDE DEF e
<1>6. Local(db, db', k)
  <2>1. CASE db' = e
    BY <1>5, <2>1
  <2>2. ASSUME NEW x, db' = WithSets(e, k, x)
        PROVE  Local(db, db', k)
    <3> DEFINE u == WithSets(e, k, x)
    <3>1. u = WithSets(e, k, x)
      OBVIOUS
    <3> HIDE DEF u
    <3>2. Local(e, u, k)
      BY <1>5, <3>1, WriteSets
    <3>3. Local(db, u, k)
      BY <1>5, <3>2, LocalTrans
    <3> QED BY <2>2, <3>1, <3>3
  <2> QED BY <1>3, <2>1, <2>2
<1>7. Local(copy, copy', k) /\ copy'.Expires[k] = "none"
  <2>1. CASE copy' = copy
    BY <1>5, <2>1, LocalSelf
  <2>2. ASSUME NEW x, copy' = WithSets(copy, k, x)
        PROVE  Local(copy, copy', k) /\ copy'.Expires[k] = "none"
    <3> DEFINE u == WithSets(copy, k, x)
    <3>1. u = WithSets(copy, k, x)
      OBVIOUS
    <3> HIDE DEF u
    <3>2. Local(copy, u, k) /\ u.Expires[k] = "none"
      BY <1>5, <3>1, WriteSets
    <3> QED BY <2>2, <3>1, <3>2
  <2> QED BY <1>4, <2>1, <2>2
<1>8. InStep(db, copy, excused')
  BY <1>2, <1>5, Weaken
<1>9. InStep(db', copy', excused')
  BY <1>2, <1>6, <1>7, <1>8, OneKey
<1> QED BY <1>9 DEF KInv

\* A deadline that passes, and a sweep, are of keys that are set apart.
LEMMA TimeStep ==
  ASSUME KInv, Pass \/ Sweep
  PROVE  KInv'
<1>1. InStep(db, copy, excused) /\ IsDB(db) /\ IsDB(copy)
  BY DEF KInv, InStep
<1>2. CASE Sweep
  <2>1. db' = EraseAll(db, Due(db)) /\ copy' = copy /\ excused' = excused
    BY <1>2 DEF Sweep, SweepExpired
  <2>2. InStep(EraseAll(db, Due(db)), copy, excused)
    BY <1>1, SweepInStep
  <2> QED BY <2>1, <2>2 DEF KInv
<1>3. CASE Pass
  <2>1. PICK k \in Keys : db.Expires[k] = "future" /\ db' = WithExpires(db, k, "due")
    BY <1>3 DEF Pass, WithExpires
  <2>2. copy' = copy /\ excused' = excused
    BY <1>3 DEF Pass
  <2>3. k \in excused /\ copy.Expires[k] = "none"
    BY <1>1, <2>1 DEF InStep
  <2> DEFINE u == WithExpires(db, k, "due")
  <2>4. u = WithExpires(db, k, "due")
    OBVIOUS
  <2> HIDE DEF u
  <2>5. Local(db, u, k) /\ Local(copy, copy, k)
    BY <1>1, <2>4, WriteExpires, LocalSelf
  <2>6. InStep(u, copy, excused)
    BY <1>1, <2>3, <2>5, OneKey
  <2> QED BY <2>1, <2>2, <2>4, <2>6 DEF KInv
<1> QED BY <1>2, <1>3

\* Every step keeps the two databases in step.
LEMMA KStep ==
  ASSUME KInv, [Next]_vars
  PROVE  KInv'
<1>1. CASE Set
  <2>1. PICK k \in Keys, v \in Values : processCommand(Call("SET", <<k>>, <<v>>, << >>, 0))
    BY <1>1 DEF Set
  <2> QED BY <2>1, KeyLists, CallStep DEF Names
<1>2. CASE MSet
  <2>1. PICK ks \in Keys \X Keys, vs \in Values \X Values :
          processCommand(Call("MSET", ks, vs, << >>, 0))
    BY <1>2 DEF MSet
  <2> QED BY <2>1, KeyLists, CallStep DEF Names
<1>3. CASE Del
  <2>1. PICK ks \in Pairs(Keys) : processCommand(Call("DEL", ks, << >>, << >>, 0))
    BY <1>3 DEF Del
  <2> QED BY <2>1, KeyLists, CallStep DEF Names
<1>4. CASE IncrBy
  <2>1. PICK k \in Keys, num \in Numbers : processCommand(Call("INCRBY", <<k>>, << >>, << >>, num))
    BY <1>4 DEF IncrBy
  <2> QED BY <2>1, KeyLists, CallStep DEF Names
<1>5. CASE Push
  <2>1. PICK name \in {"LPUSH", "RPUSH"}, k \in Keys, vs \in Pairs(Values) :
          processCommand(Call(name, <<k>>, vs, << >>, 0))
    BY <1>5 DEF Push
  <2> QED BY <2>1, KeyLists, CallStep DEF Names
<1>6. CASE Pop
  <2>1. PICK name \in {"LPOP", "RPOP"}, k \in Keys :
          processCommand(Call(name, <<k>>, << >>, << >>, 0))
    BY <1>6 DEF Pop
  <2> QED BY <2>1, KeyLists, CallStep DEF Names
<1>7. CASE BPop
  <2>1. PICK name \in {"BLPOP", "BRPOP"}, ks \in Pairs(Keys) :
          processCommand(Call(name, ks, << >>, << >>, 0))
    BY <1>7 DEF BPop
  <2> QED BY <2>1, KeyLists, CallStep DEF Names
<1>8. CASE LSetCmd
  <2>1. PICK k \in Keys, num \in -MaxLen .. MaxLen, v \in Values :
          processCommand(Call("LSET", <<k>>, <<v>>, << >>, num))
    BY <1>8 DEF LSetCmd
  <2> QED BY <2>1, KeyLists, CallStep DEF Names
<1>9. CASE LRemCmd
  <2>1. PICK k \in Keys, num \in -1 .. 1, v \in Values :
          processCommand(Call("LREM", <<k>>, <<v>>, << >>, num))
    BY <1>9 DEF LRemCmd
  <2> QED BY <2>1, KeyLists, CallStep DEF Names
<1>10. CASE SetAdd
  <2>1. PICK name \in {"SADD", "SREM"}, k \in Keys, vs \in Pairs(Values) :
          processCommand(Call(name, <<k>>, vs, << >>, 0))
    BY <1>10 DEF SetAdd
  <2> QED BY <2>1, KeyLists, CallStep DEF Names
<1>11. CASE HSet
  <2>1. PICK k \in Keys, f \in Fields, v \in Values :
          processCommand(Call("HSET", <<k>>, <<v>>, <<f>>, 0))
    BY <1>11 DEF HSet
  <2> QED BY <2>1, KeyLists, CallStep DEF Names
<1>12. CASE HMSet
  <2>1. PICK k \in Keys, fs \in Fields \X Fields, vs \in Values \X Values :
          processCommand(Call("HMSET", <<k>>, vs, fs, 0))
    BY <1>12 DEF HMSet
  <2> QED BY <2>1, KeyLists, CallStep DEF Names
<1>13. CASE HDel
  <2>1. PICK k \in Keys, fs \in Pairs(Fields) :
          processCommand(Call("HDEL", <<k>>, << >>, fs, 0))
    BY <1>13 DEF HDel
  <2> QED BY <2>1, KeyLists, CallStep DEF Names
<1>14. CASE HIncrBy
  <2>1. PICK k \in Keys, f \in Fields, num \in Numbers :
          processCommand(Call("HINCRBY", <<k>>, << >>, <<f>>, num))
    BY <1>14 DEF HIncrBy
  <2> QED BY <2>1, KeyLists, CallStep DEF Names
<1>15. CASE Expire
  <2>1. PICK name \in {"EXPIRE", "PERSIST"}, k \in Keys :
          processCommand(Call(name, <<k>>, << >>, << >>, 0))
    BY <1>15 DEF Expire
  <2> QED BY <2>1, KeyLists, CallStep DEF Names
<1>16. CASE SPop
  BY <1>16, SPopStep
<1>17. CASE Pass \/ Sweep
  BY <1>17, TimeStep
<1>18. CASE UNCHANGED vars
  BY <1>18 DEF vars, KInv
<1> QED BY <1>1, <1>2, <1>3, <1>4, <1>5, <1>6, <1>7, <1>8, <1>9, <1>10, <1>11, <1>12, <1>13,
           <1>14, <1>15, <1>16, <1>17, <1>18 DEF Next

\* Replaying the log with replayCommand gives every key that is not excused
\* exactly what the handlers gave it, in every reachable state.
THEOREM ReplayIsFaithful == Spec => []ReplayRestores
<1>1. Init => KInv
  <2> HAVE Init
  <2>1. db = Empty /\ copy = Empty /\ excused = {}
    BY DEF Init
  <2>2. IsDB(Empty) /\ \A k \in Keys : Empty.Expires[k] = "none"
    BY DEF IsDB, Empty
  <2> HIDE DEF Empty
  <2> QED BY <2>1, <2>2 DEF KInv, InStep, Same
<1>2. KInv /\ [Next]_vars => KInv'
  BY KStep
<1>3. KInv => ReplayRestores
  BY DEF KInv, InStep, ReplayRestores
<1> QED BY <1>1, <1>2, <1>3, PTL DEF Spec

=============================================================================
